-------------------------- MODULE VPNSystem_proofs --------------------------
(***************************************************************************)
(* Proofs about VPNSystem, for every number of connections and clients.    *)
(***************************************************************************)
EXTENDS VPNSystem, FiniteSetTheorems, FunctionTheorems, SequenceTheorems, TLAPS

Tasks == {"none"} \cup Counted \cup Over

\* The connections that hold a slot when the tasks are as in t.
Holders(t) == {c \in Conns : t[c] \in Counted}

\* SlotsCounted with the types it needs: inductive.
SlotInv ==
    /\ task \in [Conns -> Tasks]
    /\ active_connections \in Nat
    /\ active_connections = Cardinality(Holders(task))
    /\ active_connections <= MaxConnections

-----------------------------------------------------------------------------

\* There are finitely many holders.
LEMMA HoldersFinite ==
    ASSUME NEW t
    PROVE  IsFiniteSet(Holders(t)) /\ Cardinality(Holders(t)) \in Nat
<1>1. Holders(t) \subseteq Conns
  BY DEF Holders
<1>2. IsFiniteSet(Holders(t))
  BY <1>1, ServerAssumption, FS_Subset
<1> QED
  BY <1>2, FS_CardinalityType

\* A handler that takes a slot adds one holder.
LEMMA TakeSlot ==
    ASSUME NEW t \in [Conns -> Tasks], NEW c \in Conns, NEW s \in Counted,
           t[c] \notin Counted
    PROVE  Cardinality(Holders([t EXCEPT ![c] = s])) = Cardinality(Holders(t)) + 1
<1>1. Holders([t EXCEPT ![c] = s]) = Holders(t) \cup {c}
  BY DEF Holders
<1>2. c \notin Holders(t)
  BY DEF Holders
<1> QED
  BY <1>1, <1>2, HoldersFinite, FS_AddElement

\* A handler that finishes removes one holder, and there was one to remove.
LEMMA FreeSlot ==
    ASSUME NEW t \in [Conns -> Tasks], NEW c \in Conns, NEW s \in Tasks \ Counted,
           t[c] \in Counted
    PROVE  /\ Cardinality(Holders([t EXCEPT ![c] = s])) = Cardinality(Holders(t)) - 1
           /\ Cardinality(Holders(t)) > 0
<1>1. Holders([t EXCEPT ![c] = s]) = Holders(t) \ {c}
  BY DEF Holders
<1>2. c \in Holders(t)
  BY DEF Holders
<1>3. Cardinality(Holders(t) \ {c}) = Cardinality(Holders(t)) - 1
  BY <1>2, HoldersFinite, FS_RemoveElement
<1>4. Cardinality(Holders(t)) # 0
  BY <1>2, HoldersFinite, FS_EmptySet
<1>5. Cardinality(Holders(t)) \in Nat
  BY HoldersFinite
<1>6. Cardinality(Holders(t)) > 0
  BY <1>4, <1>5
<1> QED
  BY <1>1, <1>3, <1>6

\* A step inside the handler, or outside of it, changes no holder.
LEMMA KeepSlot ==
    ASSUME NEW t \in [Conns -> Tasks], NEW c \in Conns, NEW s \in Tasks,
           t[c] \in Counted <=> s \in Counted
    PROVE  Holders([t EXCEPT ![c] = s]) = Holders(t)
BY DEF Holders

-----------------------------------------------------------------------------

\* No handler is running at the start.
LEMMA SlotInit == Init => SlotInv
<1> SUFFICES ASSUME Init
             PROVE  SlotInv
  OBVIOUS
<1> USE DEF Init, ServerInit
<1>1. Holders(task) = {}
  BY DEF Holders, Counted, Handshaking
<1>2. Cardinality(Holders(task)) = 0
  BY <1>1, FS_EmptySet
<1>3. task \in [Conns -> Tasks]
  BY DEF Tasks
<1> QED
  BY <1>2, <1>3, ServerAssumption DEF SlotInv

\* What a step of the server can do to the tasks and their count.
Takes(c) ==
    /\ task[c] = "none"
    /\ active_connections < MaxConnections
    /\ task' = [task EXCEPT ![c] = "hello"]
    /\ active_connections' = active_connections + 1

Frees(c) ==
    /\ task[c] = "closing"
    /\ task' = [task EXCEPT ![c] = "done"]
    /\ active_connections' = active_connections - 1

Moves(c) ==
    /\ active_connections' = active_connections
    /\ \E s \in Tasks : /\ task[c] \in Counted <=> s \in Counted
                        /\ task' = [task EXCEPT ![c] = s]

Rests == active_connections' = active_connections /\ task' = task

Empties ==
    /\ active_connections' = 0
    /\ task' \in [Conns -> Tasks \ Counted]

\* Every action of the server is of one of these four kinds.
LEMMA ServerStepKinds ==
    ASSUME SlotInv, NEW c \in Conns, ServerStep(c)
    PROVE  Takes(c) \/ Frees(c) \/ Moves(c) \/ Rests
<1> USE DEF Tasks, Counted, Handshaking, Over
<1>1. CASE Accept(c)
  BY <1>1, ServerAssumption DEF Accept, AtCapacity, Takes, SlotInv
<1>2. CASE Refuse(c)
  BY <1>2 DEF Refuse, AfterRefusal, Moves
<1>3. CASE HelloAccepted(c)
  BY <1>3 DEF HelloAccepted, AfterHello, Moves
<1>4. CASE AuthAccepted(c)
  BY <1>4 DEF AuthAccepted, Moves
<1>5. CASE HandshakeEof(c)
  BY <1>5 DEF HandshakeEof, Leave, Moves
<1>6. CASE SshConnects(c)
  BY <1>6 DEF SshConnects, Moves
<1>7. CASE SshUnavailable(c)
  BY <1>7 DEF SshUnavailable, Leave, Moves
<1>8. CASE TunnelEnds(c)
  BY <1>8 DEF TunnelEnds, Leave, Moves
<1>9. CASE Release(c)
  BY <1>9 DEF Release, Frees
<1>10. CASE UpRuns(c)
  BY <1>10 DEF UpRuns, UpForwards, UpReads, UpEof, UpStops, Rests
<1>11. CASE DownRuns(c)
  BY <1>11 DEF DownRuns, DownForwards, DownStops, Rests
<1>12. CASE PacketRejected(c)
  BY <1>12 DEF PacketRejected, Leave, Moves
<1>13. CASE HandshakeTimeout(c)
  BY <1>13 DEF HandshakeTimeout, DeadlineCovers, Leave, Moves
<1>14. CASE AccountGrants(c)
  BY <1>14 DEF AccountGrants, Moves
<1>15. CASE AccountDenies(c)
  BY <1>15 DEF AccountDenies, Leave, Moves
<1>16. CASE TunnelRefused(c)
  BY <1>16 DEF TunnelRefused, Leave, Moves
<1>17. CASE UpFails(c)
  BY <1>17 DEF UpFails, UpStops, Rests
<1>18. CASE SshSends(c)
  BY <1>18 DEF SshSends, Rests
<1>19. CASE SshCloses(c)
  BY <1>19 DEF SshCloses, Rests
<1>20. CASE Cancelled(c)
  <2>1. task[c] = "none" => Moves(c)
    BY <1>20 DEF Cancelled, CancelledAt, Moves
  <2>2. task[c] # "none" => Moves(c)
    BY <1>20 DEF Cancelled, CancelledAt, Moves
  <2> QED
    BY <2>1, <2>2
<1> QED
  BY <1>1, <1>2, <1>3, <1>4, <1>5, <1>6, <1>7, <1>8, <1>9, <1>10, <1>11,
     <1>12, <1>13, <1>14, <1>15, <1>16, <1>17, <1>18, <1>19, <1>20
     DEF ServerStep, HandlerRuns, HandlerMay

\* The end of the process and the start of the next leave no handler.
LEMMA ProcessStepKinds ==
    ASSUME SlotInv, ProcessEnds \/ ServerStarts
    PROVE  Rests \/ Empties
<1>1. CASE ServerStops
  BY <1>1 DEF ServerStops, serverVars, Rests
<1>2. CASE ServerKilled
  <2>1. \A c \in Conns : task'[c] \in Tasks \ Counted
    BY <1>2 DEF ServerKilled, SlotInv, Tasks, Counted, Handshaking, Over
  <2>2. task' = [c \in Conns |-> task'[c]]
    BY <1>2 DEF ServerKilled
  <2> QED
    BY <1>2, <2>1, <2>2 DEF ServerKilled, Empties
<1>3. CASE ServerStarts
  <2>1. \A c \in Conns : task[c] \in Tasks \ Counted
    BY <1>3 DEF ServerStarts, SlotInv
  <2> QED
    BY <1>3, <2>1 DEF ServerStarts, SlotInv, Empties
<1> QED
  BY <1>1, <1>2, <1>3 DEF ProcessEnds

\* Each kind preserves the invariant.
LEMMA SlotStep == SlotInv /\ [Next]_vars => SlotInv'
<1> SUFFICES ASSUME SlotInv, [Next]_vars
             PROVE  SlotInv'
  OBVIOUS
<1>1. CASE Rests
  BY <1>1 DEF Rests, SlotInv
<1>2. CASE \E c \in Conns : Takes(c)
  <2> PICK c \in Conns : Takes(c)
    BY <1>2
  <2>1. "hello" \in Counted /\ task[c] \notin Counted
    BY DEF Takes, Counted, Handshaking
  <2>2. Cardinality(Holders(task')) = Cardinality(Holders(task)) + 1
    BY <2>1, TakeSlot DEF Takes, SlotInv
  <2>3. task' \in [Conns -> Tasks]
    BY DEF Takes, SlotInv, Tasks, Counted, Handshaking
  <2> QED
    BY <2>2, <2>3, ServerAssumption DEF Takes, SlotInv
<1>3. CASE \E c \in Conns : Frees(c)
  <2> PICK c \in Conns : Frees(c)
    BY <1>3
  <2>1. "done" \in Tasks \ Counted /\ task[c] \in Counted
    BY DEF Frees, Tasks, Counted, Handshaking, Over
  <2>2. /\ Cardinality(Holders(task')) = Cardinality(Holders(task)) - 1
        /\ Cardinality(Holders(task)) > 0
    BY <2>1, FreeSlot DEF Frees, SlotInv
  <2>3. task' \in [Conns -> Tasks]
    BY <2>1 DEF Frees, SlotInv
  <2> QED
    BY <2>2, <2>3, ServerAssumption DEF Frees, SlotInv
<1>4. CASE \E c \in Conns : Moves(c)
  <2> PICK c \in Conns : Moves(c)
    BY <1>4
  <2> PICK s \in Tasks : /\ task[c] \in Counted <=> s \in Counted
                         /\ task' = [task EXCEPT ![c] = s]
    BY DEF Moves
  <2>1. Holders(task') = Holders(task)
    BY KeepSlot DEF SlotInv
  <2>2. task' \in [Conns -> Tasks]
    BY DEF SlotInv
  <2> QED
    BY <2>1, <2>2 DEF Moves, SlotInv
<1>5. CASE UNCHANGED vars
  BY <1>5, <1>1 DEF vars, serverVars, Rests
<1>6. ASSUME UNCHANGED serverVars
      PROVE  Rests
  BY <1>6 DEF serverVars, Rests
<1>7. ASSUME NEW c \in Conns, ServerStep(c)
      PROVE  Takes(c) \/ Frees(c) \/ Moves(c) \/ Rests
  BY <1>7, ServerStepKinds
<1>8. CASE Empties
  <2>1. Holders(task') = {}
    BY <1>8 DEF Empties, Holders
  <2>2. Cardinality(Holders(task')) = 0
    BY <2>1, FS_EmptySet
  <2> QED
    BY <1>8, <2>2, ServerAssumption DEF Empties, SlotInv
<1>9. ASSUME ProcessEnds \/ ServerStarts
      PROVE  Rests \/ Empties
  BY <1>9, ProcessStepKinds
<1> QED
  BY <1>1, <1>2, <1>3, <1>4, <1>5, <1>6, <1>7, <1>8, <1>9 DEF Next

\* SlotInv is an invariant.
LEMMA SlotInvariance == Spec => []SlotInv
BY SlotInit, SlotStep, PTL DEF Spec

\* SlotsCounted holds of every behaviour: handle_client counts each
\* connection once on every path and never exceeds max_connections.
THEOREM SlotAccounting == Spec => []SlotsCounted
<1>1. SlotInv => SlotsCounted
  BY DEF SlotInv, SlotsCounted, Holders
<1> QED
  BY <1>1, SlotInvariance, PTL

-----------------------------------------------------------------------------
(* Counting DATA packets                                                   *)

Data(s) == {i \in DOMAIN s : s[i] = "DATA"}

LEMMA DataFinite ==
    ASSUME NEW s \in Seq(Frames)
    PROVE  IsFiniteSet(Data(s)) /\ DataIn(s) = Cardinality(Data(s)) /\ DataIn(s) \in Nat
<1>1. Data(s) \subseteq 1 .. Len(s)
  BY DEF Data
<1>2. 1 \in Int /\ Len(s) \in Int
  OBVIOUS
<1>3. IsFiniteSet(1 .. Len(s))
  BY <1>2, FS_Interval
<1>4. IsFiniteSet(Data(s))
  BY <1>1, <1>3, FS_Subset
<1> QED
  BY <1>4, FS_CardinalityType DEF DataIn, Data

\* Streams without DATA.
LEMMA DataNone ==
    ASSUME NEW s, \A i \in DOMAIN s : s[i] # "DATA"
    PROVE  DataIn(s) = 0
<1>1. {i \in DOMAIN s : s[i] = "DATA"} = {}
  OBVIOUS
<1> QED
  BY <1>1, FS_EmptySet DEF DataIn

LEMMA DataAppend ==
    ASSUME NEW s \in Seq(Frames), NEW f \in Frames
    PROVE  DataIn(Append(s, f)) = IF f = "DATA" THEN DataIn(s) + 1 ELSE DataIn(s)
<1> DEFINE a == Append(s, f)
<1>1. /\ Len(s) \in Nat /\ DOMAIN s = 1 .. Len(s) /\ DOMAIN a = 1 .. Len(s) + 1
      /\ a[Len(s) + 1] = f
      /\ \A i \in 1 .. Len(s) : a[i] = s[i]
  OBVIOUS
<1> HIDE DEF a
<1>2. Data(a) = IF f = "DATA" THEN Data(s) \cup {Len(s) + 1} ELSE Data(s)
  BY <1>1 DEF Data
<1>3. Len(s) + 1 \notin Data(s)
  BY <1>1 DEF Data
<1>4. DataIn(a) = Cardinality(Data(a))
  BY DEF DataIn, Data
<1>5. Cardinality(Data(s) \cup {Len(s) + 1}) = Cardinality(Data(s)) + 1
  BY <1>3, DataFinite, FS_AddElement
<1> QED
  BY <1>2, <1>4, <1>5, DataFinite DEF a

\* A read divides what has arrived and loses nothing of it.
LEMMA DataRead ==
    ASSUME NEW s \in Seq(Frames), NEW k \in 1 .. Len(s)
    PROVE  /\ Got(s, k) \in Seq(Frames) /\ Left(s, k) \in Seq(Frames)
           /\ Got(s, k) # <<>> /\ Head(Got(s, k)) = s[1] /\ DOMAIN Got(s, k) = 1 .. k
           /\ DataIn(s) = DataIn(Got(s, k)) + DataIn(Left(s, k))
           /\ \A i \in DOMAIN Got(s, k) : i \in DOMAIN s /\ Got(s, k)[i] = s[i]
           /\ \A i \in DOMAIN Left(s, k) : i + k \in DOMAIN s /\ Left(s, k)[i] = s[i + k]
           /\ Len(Left(s, k)) = Len(s) - k
<1> PICK g : g = Got(s, k)
  OBVIOUS
<1> PICK l : l = Left(s, k)
  OBVIOUS
<1>1. Len(s) \in Nat /\ DOMAIN s = 1 .. Len(s)
  OBVIOUS
<1>2. g \in Seq(Frames) /\ Len(g) = k /\ DOMAIN g = 1 .. k
      /\ \A i \in 1 .. k : g[i] = s[i]
  BY <1>1 DEF Got
<1>3. l \in Seq(Frames) /\ Len(l) = Len(s) - k /\ DOMAIN l = 1 .. Len(s) - k
      /\ \A i \in 1 .. Len(s) - k : l[i] = s[i + k]
  BY <1>1 DEF Left
<1>4. g # <<>> /\ Head(g) = s[1]
  BY <1>1, <1>2
<1> DEFINE f == [i \in Data(l) |-> i + k]
           T == {i + k : i \in Data(l)}
<1>5. f \in Bijection(Data(l), T)
  <2>1. Data(l) \subseteq Nat /\ k \in Nat
    BY <1>1, <1>3 DEF Data
  <2>2. \A i \in Data(l), j \in Data(l) : f[i] = f[j] => i = j
    BY <2>1
  <2>3. f \in [Data(l) -> T] /\ \A t \in T : \E i \in Data(l) : f[i] = t
    OBVIOUS
  <2> QED
    BY <2>2, <2>3, Fun_IsBij
<1>6. IsFiniteSet(T) /\ Cardinality(T) = Cardinality(Data(l))
  BY <1>3, <1>5, DataFinite, FS_Bijection DEF ExistsBijection
<1>7. Data(s) = Data(g) \cup T
  <2>1. ASSUME NEW i \in Data(s), i > k
        PROVE  i \in T
    <3>1. i - k \in 1 .. Len(s) - k /\ l[i - k] = s[i] /\ i = (i - k) + k
      BY <1>1, <1>3, <2>1 DEF Data
    <3>2. i - k \in Data(l)
      BY <1>3, <2>1, <3>1 DEF Data
    <3> QED
      BY <3>1, <3>2
  <2>2. ASSUME NEW i \in Data(s), i <= k
        PROVE  i \in Data(g)
    BY <1>1, <1>2, <2>2 DEF Data
  <2>3. Data(g) \cup T \subseteq Data(s)
    BY <1>1, <1>2, <1>3 DEF Data
  <2>4. Data(s) \subseteq Int
    BY <1>1 DEF Data
  <2> QED
    BY <2>1, <2>2, <2>3, <2>4
<1>8. Data(g) \cap T = {}
  BY <1>1, <1>2, <1>3 DEF Data
<1>9. Cardinality(Data(s)) = Cardinality(Data(g)) + Cardinality(Data(l))
  <2>1. IsFiniteSet(Data(g)) /\ Cardinality(Data(g)) \in Nat /\ Cardinality(Data(l)) \in Nat
    BY <1>2, <1>3, DataFinite
  <2>2. Cardinality(Data(g) \cap T) = 0
    BY <1>8, FS_EmptySet
  <2>3. Cardinality(Data(g) \cup T) =
            Cardinality(Data(g)) + Cardinality(T) - Cardinality(Data(g) \cap T)
    BY <1>6, <2>1, FS_Union
  <2> QED
    BY <1>6, <1>7, <2>1, <2>2, <2>3
<1>10. DataIn(s) = DataIn(g) + DataIn(l)
  BY <1>2, <1>3, <1>9, DataFinite
<1>11. \A i \in DOMAIN g : i \in DOMAIN s /\ g[i] = s[i]
  BY <1>1, <1>2
<1>12. \A i \in DOMAIN l : i + k \in DOMAIN s /\ l[i] = s[i + k]
  BY <1>1, <1>3
<1> QED
  BY <1>2, <1>3, <1>4, <1>10, <1>11, <1>12

LEMMA DataTail ==
    ASSUME NEW s \in Seq(Frames), s # <<>>
    PROVE  /\ Tail(s) \in Seq(Frames)
           /\ DataIn(s) = DataIn(Tail(s)) + IF Head(s) = "DATA" THEN 1 ELSE 0
           /\ \A i \in DOMAIN Tail(s) : i + 1 \in DOMAIN s /\ Tail(s)[i] = s[i + 1]
<1>1. Len(s) \in Nat \ {0} /\ Head(s) = s[1]
  OBVIOUS
<1>2. 1 \in 1 .. Len(s)
  BY <1>1
<1>3. Tail(s) = Left(s, 1)
  BY TailIsSubSeq DEF Left
<1> PICK g : g = Got(s, 1)
  OBVIOUS
<1> PICK l : l = Left(s, 1)
  OBVIOUS
<1>4. /\ g \in Seq(Frames) /\ l \in Seq(Frames)
      /\ DOMAIN g = 1 .. 1
      /\ DataIn(s) = DataIn(g) + DataIn(l)
      /\ \A i \in DOMAIN g : g[i] = s[i]
      /\ \A i \in DOMAIN l : i + 1 \in DOMAIN s /\ l[i] = s[i + 1]
  BY <1>2, DataRead
<1>5. DOMAIN g = {1} /\ g[1] = Head(s)
  BY <1>1, <1>4
<1>6. DataIn(l) \in Nat
  BY <1>4, DataFinite
<1> PICK n \in Int : n = IF Head(s) = "DATA" THEN 1 ELSE 0
  OBVIOUS
<1>7. ASSUME Head(s) = "DATA"
      PROVE  DataIn(s) = DataIn(l) + n
  <2>1. {i \in DOMAIN g : g[i] = "DATA"} = {1}
    BY <1>5, <1>7
  <2>2. DataIn(g) = 1
    BY <2>1, FS_Singleton DEF DataIn
  <2> QED
    BY <1>4, <1>6, <1>7, <2>2
<1>8. ASSUME Head(s) # "DATA"
      PROVE  DataIn(s) = DataIn(l) + n
  <2>1. DataIn(g) = 0
    BY <1>5, <1>8, DataNone
  <2> QED
    BY <1>4, <1>6, <1>8, <2>1
<1>9. DataIn(s) = DataIn(l) + n
  BY <1>7, <1>8
<1>10. Tail(s) = l
  BY <1>3, Zenon
<1> QED
  BY <1>4, <1>9, <1>10, Zenon

-----------------------------------------------------------------------------
(* One connection, from end to end                                         *)

AllData(stream) == \A i \in DOMAIN stream : stream[i] = "DATA"

\* A connection nobody has opened has left no trace.
Untouched(c) ==
    conn[c] = "idle" =>
        /\ task[c] = "none" /\ ~serverOpen[c] /\ ~clientOpen[c]
        /\ up[c] = "off" /\ down[c] = "off" /\ ssh[c] = "none"
        /\ lup[c] = "off" /\ ldown[c] = "off"
        /\ buffer[c] = <<>> /\ toServer[c] = <<>> /\ toClient[c] = <<>>
        /\ pending[c] = 0 /\ forwarded[c] = 0 /\ replied[c] = 0
        /\ requested[c] = 0 /\ delivered[c] = 0

\* What the client's code relies on, stage by stage.
ClientInOrder(c) ==
    /\ lup[c] = "running" \/ ldown[c] = "running" => conn[c] = "relay"
    /\ conn[c] \in {"hello_sent", "relay"} => clientOpen[c]
    /\ conn[c] = "hello_sent" =>
           /\ lup[c] = "off" /\ ldown[c] = "off"
           /\ toClient[c] \in {<<>>, <<"SERVER_HELLO">>}
    /\ conn[c] = "relay" => AllData(toClient[c])

\* What is on its way to the server, stage by stage of its handler: until it
\* has read CLIENT_AUTH nothing is buffered, after that everything is DATA.
ServerInOrder(c) ==
    /\ task[c] \in {"none", "hello"} =>
           /\ conn[c] # "relay"
           /\ buffer[c] = <<>> /\ toClient[c] = <<>>
           /\ toServer[c] \in {<<>>, <<"CLIENT_HELLO">>}
    /\ task[c] = "auth" =>
           /\ buffer[c] = <<>>
           /\ conn[c] = "hello_sent" => toServer[c] = <<>>
           /\ conn[c] = "relay" => toServer[c] # <<>>
           /\ toServer[c] # <<>> => /\ toServer[c][1] = "CLIENT_AUTH"
                                    /\ AllData(Tail(toServer[c]))
    /\ task[c] \in {"account", "opening", "relay"} =>
           /\ conn[c] \notin {"idle", "hello_sent"}
           /\ AllData(buffer[c]) /\ AllData(toServer[c])

\* The tunnel's two coroutines and its SSH socket exist with the tunnel only.
TunnelInOrder(c) ==
    /\ task[c] \in Handshaking \cup {"opening"} => serverOpen[c]
    /\ task[c] \in {"none", "opening"} \cup Handshaking =>
           up[c] = "off" /\ down[c] = "off" /\ ssh[c] = "none"
    /\ up[c] = "running" => task[c] = "relay" /\ ssh[c] \in {"open", "closed"}
    /\ down[c] = "running" => task[c] = "relay"
    /\ pending[c] + replied[c] <= MaxReplies

\* NoRequestLost and NoReplyLost of one connection.
RequestsKept(c) ==
    (task[c] \in {"none"} \cup Handshaking \cup {"opening", "relay"}
        /\ up[c] # "ended" /\ ssh[c] # "closed") =>
    requested[c] = DataIn(toServer[c]) + DataIn(buffer[c]) + forwarded[c]

RepliesKept(c) ==
    conn[c] \in {"hello_sent", "relay"} /\ ldown[c] # "ended" =>
    replied[c] = DataIn(toClient[c]) + delivered[c]

InOrder(c) ==
    /\ Untouched(c) /\ ClientInOrder(c) /\ ServerInOrder(c) /\ TunnelInOrder(c)
    /\ RequestsKept(c) /\ RepliesKept(c)

\* The inductive invariant.
Inv == TypeOK /\ SlotInv /\ \A c \in Conns : InOrder(c)

\* What belongs to connection d is the same after the step.
Same(d) ==
    /\ toServer'[d] = toServer[d] /\ toClient'[d] = toClient[d]
    /\ clientOpen'[d] = clientOpen[d] /\ serverOpen'[d] = serverOpen[d]
    /\ task'[d] = task[d] /\ buffer'[d] = buffer[d]
    /\ up'[d] = up[d] /\ down'[d] = down[d] /\ ssh'[d] = ssh[d]
    /\ pending'[d] = pending[d] /\ forwarded'[d] = forwarded[d]
    /\ replied'[d] = replied[d] /\ conn'[d] = conn[d]
    /\ lup'[d] = lup[d] /\ ldown'[d] = ldown[d]
    /\ requested'[d] = requested[d] /\ delivered'[d] = delivered[d]

LEMMA SameInOrder ==
    ASSUME NEW d \in Conns, InOrder(d), Same(d)
    PROVE  InOrder(d)'
BY DEF InOrder, Untouched, ClientInOrder, ServerInOrder, TunnelInOrder,
       RequestsKept, RepliesKept, Same

LEMMA ServerLocal ==
    ASSUME TypeOK, NEW c \in Conns, ServerStep(c), UNCHANGED clientVars,
           NEW d \in Conns, d # c
    PROVE  Same(d)
<1> USE DEF TypeOK, StreamsTypeOK, ServerTypeOK, ClientTypeOK, Same, clientVars,
            streams, tunnelVars, Leave
<1>1. CASE Accept(c)
  BY <1>1 DEF Accept
<1>2. CASE Refuse(c)
  BY <1>2 DEF Refuse
<1>3. CASE HelloAccepted(c)
  BY <1>3 DEF HelloAccepted, ReadFrame
<1>4. CASE AuthAccepted(c)
  BY <1>4 DEF AuthAccepted, ReadFrame
<1>5. CASE HandshakeEof(c)
  BY <1>5 DEF HandshakeEof
<1>6. CASE SshConnects(c)
  BY <1>6 DEF SshConnects
<1>7. CASE SshUnavailable(c)
  BY <1>7 DEF SshUnavailable
<1>8. CASE TunnelEnds(c)
  BY <1>8 DEF TunnelEnds
<1>9. CASE Release(c)
  BY <1>9 DEF Release
<1>10. CASE UpForwards(c)
  BY <1>10 DEF UpForwards
<1>11. CASE UpReads(c)
  BY <1>11 DEF UpReads
<1>12. CASE UpEof(c) \/ UpFails(c)
  BY <1>12, SMTT(60) DEF UpEof, UpFails, UpStops
<1>13. CASE DownForwards(c)
  BY <1>13 DEF DownForwards
<1>14. CASE DownStops(c)
  BY <1>14 DEF DownStops
<1>15. CASE PacketRejected(c)
  BY <1>15 DEF PacketRejected
<1>16. CASE HandshakeTimeout(c)
  BY <1>16 DEF HandshakeTimeout
<1>17. CASE AccountGrants(c) \/ AccountDenies(c)
  <2>1. CASE AccountGrants(c)
    BY <2>1 DEF AccountGrants
  <2>2. CASE AccountDenies(c)
    BY <2>2 DEF AccountDenies
  <2> QED
    BY <1>17, <2>1, <2>2
<1>18. CASE TunnelRefused(c)
  BY <1>18 DEF TunnelRefused
<1>19. CASE SshSends(c) \/ SshCloses(c)
  <2>1. CASE SshSends(c)
    BY <2>1 DEF SshSends
  <2>2. CASE SshCloses(c)
    BY <2>2 DEF SshCloses
  <2> QED
    BY <1>19, <2>1, <2>2
<1>20. CASE Cancelled(c)
  BY <1>20, SMTT(60) DEF Cancelled
<1> QED
  BY <1>1, <1>2, <1>3, <1>4, <1>5, <1>6, <1>7, <1>8, <1>9, <1>10, <1>11,
     <1>12, <1>13, <1>14, <1>15, <1>16, <1>17, <1>18, <1>19, <1>20
     DEF ServerStep, HandlerRuns, HandlerMay, UpRuns, DownRuns

LEMMA ClientLocal ==
    ASSUME TypeOK, NEW c \in Conns, ClientStep(c), UNCHANGED serverVars,
           NEW d \in Conns, d # c
    PROVE  Same(d)
<1> USE DEF TypeOK, StreamsTypeOK, ServerTypeOK, ClientTypeOK, Same, serverVars,
            streams, relayVars
<1>1. CASE DialPreflight(c) \/ DialForApp(c)
  BY <1>1, SMTT(60) DEF DialPreflight, DialForApp, Dial
<1>2. CASE DialFails(c)
  BY <1>2 DEF DialFails, GiveUp
<1>3. CASE PreflightSucceeds(c) \/ SessionOpens(c)
  <2>1. CASE PreflightSucceeds(c)
    BY <2>1 DEF PreflightSucceeds, ReceivesServerHello
  <2>2. CASE SessionOpens(c)
    BY <2>2 DEF SessionOpens, ReceivesServerHello
  <2> QED
    BY <1>3, <2>1, <2>2
<1>4. CASE HandshakeFails(c)
  BY <1>4 DEF HandshakeFails, GiveUp
<1>5. CASE SessionEnds(c)
  BY <1>5 DEF SessionEnds
<1>6. CASE LupStops(c) \/ LupFails(c)
  <2>1. /\ lup' = [lup EXCEPT ![c] = "ended"]
        /\ UNCHANGED <<streams, proxy, conn, ldown, app, requested, delivered>>
    BY <1>6 DEF LupStops, LupFails
  <2> QED
    BY <2>1
<1>7. CASE LupForwards(c)
  BY <1>7 DEF LupForwards
<1>8. CASE LdownForwards(c)
  BY <1>8 DEF LdownForwards
<1>9. CASE LdownEof(c) \/ LdownFails(c)
  BY <1>9, SMTT(60) DEF LdownEof, LdownFails, LdownStops
<1>10. CASE SessionCancelled(c)
  BY <1>10 DEF SessionCancelled
<1>11. CASE AppCloses(c)
  BY <1>11 DEF AppCloses
<1>12. CASE Vanishes(c)
  BY <1>12 DEF Vanishes
<1> QED
  BY <1>1, <1>2, <1>3, <1>4, <1>5, <1>6, <1>7, <1>8, <1>9, <1>10, <1>11, <1>12
     DEF ClientStep, OpenerRuns, LdownRuns

\* What the handshake's read of the frame it awaits leaves in the buffer, and
\* what that does to the DATA packets.
Buffered(s, k) == Tail(<<>> \o Got(s, k))

LEMMA DataAfterFrame ==
    ASSUME NEW s \in Seq(Frames), NEW k \in 1 .. Len(s), s[1] # "DATA",
           NEW b, b = Buffered(s, k)
    PROVE  /\ b \in Seq(Frames) /\ Len(b) = k - 1
           /\ DataIn(s) = DataIn(b) + DataIn(Left(s, k))
           /\ AllData(Tail(s)) => AllData(b) /\ AllData(Left(s, k))
<1> PICK g : g = Got(s, k)
  OBVIOUS
<1> PICK l : l = Left(s, k)
  OBVIOUS
<1>1. /\ g \in Seq(Frames) /\ l \in Seq(Frames)
      /\ g # <<>> /\ Head(g) = s[1] /\ DOMAIN g = 1 .. k
      /\ DataIn(s) = DataIn(g) + DataIn(l)
      /\ \A i \in DOMAIN g : i \in DOMAIN s /\ g[i] = s[i]
      /\ \A i \in DOMAIN l : i + k \in DOMAIN s /\ l[i] = s[i + k]
  BY DataRead
<1>2. b = Tail(g)
  BY <1>1, ConcatEmptySeq DEF Buffered
<1>3. Len(g) = k /\ Len(Tail(g)) = k - 1
  BY <1>1
<1> PICK t : t = Tail(g)
  OBVIOUS
<1>4. /\ t \in Seq(Frames)
      /\ DataIn(g) = DataIn(t) + IF Head(g) = "DATA" THEN 1 ELSE 0
      /\ \A i \in DOMAIN t : i + 1 \in DOMAIN g /\ t[i] = g[i + 1]
  BY <1>1, DataTail
<1>5. DataIn(t) \in Nat
  BY <1>4, DataFinite
<1>6. DataIn(g) = DataIn(t)
  BY <1>1, <1>4, <1>5
<1>7. ASSUME AllData(Tail(s))
      PROVE  AllData(t) /\ AllData(l)
  <2>1. \A j \in 1 .. Len(s) : j > 1 => s[j] = "DATA"
    <3> TAKE j \in 1 .. Len(s)
    <3> HAVE j > 1
    <3>1. j - 1 \in DOMAIN Tail(s) /\ Tail(s)[j - 1] = s[j]
      OBVIOUS
    <3> QED
      BY <1>7, <3>1 DEF AllData
  <2>2. DOMAIN t = 1 .. k - 1 /\ DOMAIN l \subseteq Nat \ {0} /\ DOMAIN s = 1 .. Len(s)
    BY <1>1, <1>3
  <2>3. \A i \in DOMAIN t : t[i] = s[i + 1] /\ i + 1 \in 1 .. Len(s) /\ i + 1 > 1
    BY <1>1, <1>4, <2>2
  <2>4. \A i \in DOMAIN l : l[i] = s[i + k] /\ i + k \in 1 .. Len(s) /\ i + k > 1
    BY <1>1, <2>2
  <2>5. \A i \in DOMAIN t : t[i] = "DATA"
    BY <2>1, <2>3
  <2>6. \A i \in DOMAIN l : l[i] = "DATA"
    BY <2>1, <2>4
  <2> QED
    BY <2>5, <2>6 DEF AllData
<1>8. Len(b) = k - 1
  BY <1>2, <1>3
<1> QED
  BY <1>1, <1>2, <1>4, <1>6, <1>7, <1>8, Zenon

\* Streams of DATA stay so when they are read, extended and consumed.
LEMMA AllDataKept ==
    ASSUME NEW s \in Seq(Frames), AllData(s)
    PROVE  /\ AllData(Append(s, "DATA"))
           /\ \A k \in 1 .. Len(s) : AllData(Got(s, k)) /\ AllData(Left(s, k))
           /\ s # <<>> => AllData(Tail(s)) /\ Head(s) = "DATA"
<1>1. AllData(Append(s, "DATA"))
  <2>1. Len(s) \in Nat /\ \A i \in 1 .. Len(s) : s[i] = "DATA"
    BY DEF AllData
  <2>2. DOMAIN Append(s, "DATA") = 1 .. Len(s) + 1
    OBVIOUS
  <2>3. \A i \in 1 .. Len(s) + 1 : Append(s, "DATA")[i] = "DATA"
    BY <2>1
  <2> QED
    BY <2>2, <2>3 DEF AllData
<1>2. ASSUME NEW k \in 1 .. Len(s)
      PROVE  AllData(Got(s, k)) /\ AllData(Left(s, k))
  BY DataRead DEF AllData
<1>3. ASSUME s # <<>>
      PROVE  AllData(Tail(s)) /\ Head(s) = "DATA"
  <2>1. 1 \in DOMAIN s /\ Head(s) = s[1]
    BY <1>3
  <2>2. \A i \in DOMAIN Tail(s) : i + 1 \in DOMAIN s /\ Tail(s)[i] = s[i + 1]
    BY <1>3, DataTail
  <2>3. \A i \in DOMAIN Tail(s) : Tail(s)[i] = "DATA"
    BY <2>2 DEF AllData
  <2> QED
    BY <2>1, <2>3 DEF AllData
<1> QED
  BY <1>1, <1>2, <1>3

\* A chunk of the application joins what follows CLIENT_AUTH.
LEMMA AuthThenData ==
    ASSUME NEW s \in Seq(Frames), s # <<>>, s[1] = "CLIENT_AUTH", AllData(Tail(s)),
           NEW t, t = Append(s, "DATA")
    PROVE  t # <<>> /\ t[1] = "CLIENT_AUTH" /\ AllData(Tail(t))
<1>1. t \in Seq(Frames) /\ t # <<>> /\ t[1] = "CLIENT_AUTH"
  BY DEF Frames
<1>2. \A i \in DOMAIN Tail(t) : Tail(t)[i] = "DATA"
  <2> TAKE i \in DOMAIN Tail(t)
  <2>1. i \in 1 .. Len(s) /\ Tail(t)[i] = t[i + 1]
    BY <1>1
  <2>2. CASE i = Len(s)
    BY <2>1, <2>2
  <2>3. CASE i < Len(s)
    <3>1. i \in DOMAIN Tail(s) /\ Tail(s)[i] = s[i + 1] /\ t[i + 1] = s[i + 1]
      BY <2>1, <2>3
    <3> QED
      BY <2>1, <3>1 DEF AllData
  <2> QED
    BY <2>1, <2>2, <2>3
<1> QED
  BY <1>1, <1>2 DEF AllData

\* A step of the server keeps its own connection in order.
LEMMA ServerInOrderStep ==
    ASSUME TypeOK, NEW c \in Conns, InOrder(c), ServerStep(c), UNCHANGED clientVars
    PROVE  InOrder(c)'
<1> USE DEF TypeOK, StreamsTypeOK, ServerTypeOK, ClientTypeOK, clientVars,
            streams, tunnelVars, Leave, InOrder, Untouched, ClientInOrder,
            ServerInOrder, TunnelInOrder, RequestsKept, RepliesKept, Handshaking
<1>1. CASE Accept(c)
  BY <1>1 DEF Accept
<1>2. CASE Refuse(c)
  BY <1>2 DEF Refuse, AfterRefusal
<1>3. CASE HelloAccepted(c)
  <2> PICK k \in 1 .. Len(toServer[c]) : ReadFrame(c, "CLIENT_HELLO", k)
    BY <1>3 DEF HelloAccepted
  <2>1. /\ task[c] = "hello" /\ task'[c] = "auth"
        /\ conn[c] \notin {"idle", "relay"}
        /\ buffer[c] = <<>> /\ toServer[c] \in Seq(Frames)
        /\ Append(toClient[c], "SERVER_HELLO") = <<"SERVER_HELLO">>
    BY <1>3 DEF HelloAccepted, AfterHello
  <2> PICK s : s = toServer[c]
    OBVIOUS
  <2> PICK b : b = buffer'[c]
    OBVIOUS
  <2>2. s = <<"CLIENT_HELLO">> /\ s \in Seq(Frames) /\ k = 1 /\ k \in 1 .. Len(s)
    <3>1. s \in {<<>>, <<"CLIENT_HELLO">>} /\ k \in 1 .. Len(s)
      BY <2>1
    <3>2. s = <<"CLIENT_HELLO">>
      BY <3>1
    <3> QED
      BY <2>1, <3>1, <3>2
  <2>3. /\ toServer'[c] = Left(toServer[c], k)
        /\ buffer'[c] = Buffered(toServer[c], k)
    BY <2>1 DEF ReadFrame, Buffered
  <2>4. Len(b) = 0 /\ b \in Seq(Frames)
    <3>1. s[1] # "DATA" /\ b = Buffered(s, k)
      <4>1. s[1] = "CLIENT_HELLO"
        BY <2>2
      <4> QED
        BY <2>3, <4>1
    <3>2. s \in Seq(Frames) /\ k \in 1 .. Len(s)
      BY <2>2
    <3>3. Len(b) = k - 1 /\ b \in Seq(Frames)
      BY <3>1, <3>2, DataAfterFrame, SMTT(60)
    <3> QED
      BY <2>2, <3>3
  <2>5. Len(toServer'[c]) = 0 /\ toServer'[c] \in Seq(Frames)
    <3>1. Len(Left(s, k)) = Len(s) - k /\ Left(s, k) \in Seq(Frames)
      <4>1. s \in Seq(Frames) /\ k \in 1 .. Len(s)
        BY <2>2
      <4> QED
        BY <4>1, DataRead, ZenonT(60)
    <3>2. Len(s) - k = 0
      BY <2>2
    <3> QED
      BY <2>3, <3>1, <3>2
  <2>6. buffer'[c] = <<>> /\ toServer'[c] = <<>> /\ toClient'[c] = <<"SERVER_HELLO">>
    BY <1>3, <2>1, <2>4, <2>5 DEF HelloAccepted
  <2>7. /\ DataIn(toServer[c]) = 0 /\ DataIn(buffer[c]) = 0 /\ DataIn(toClient[c]) = 0
        /\ DataIn(toServer'[c]) = 0 /\ DataIn(buffer'[c]) = 0 /\ DataIn(toClient'[c]) = 0
    BY <2>1, <2>2, <2>6, DataNone
  <2>8. UNCHANGED <<tunnelVars, clientOpen, serverOpen>>
    BY <1>3 DEF HelloAccepted
  <2> QED
    BY <2>1, <2>6, <2>7, <2>8
<1>4. CASE AuthAccepted(c)
  <2> PICK k \in 1 .. Len(toServer[c]) : ReadFrame(c, "CLIENT_AUTH", k)
    BY <1>4 DEF AuthAccepted
  <2>1. /\ task[c] = "auth" /\ task'[c] = "account"
        /\ buffer[c] = <<>> /\ toServer[c] \in Seq(Frames)
    BY <1>4 DEF AuthAccepted
  <2>2. /\ toServer'[c] = Left(toServer[c], k)
        /\ buffer'[c] = Buffered(toServer[c], k)
    BY <2>1 DEF ReadFrame, Buffered
  <2>3. toServer[c] # <<>>
    BY <2>1
  <2>4. /\ toServer[c][1] = "CLIENT_AUTH" /\ AllData(Tail(toServer[c]))
        /\ conn[c] \notin {"idle", "hello_sent"}
    BY <2>1, <2>3
  <2>5. /\ DataIn(toServer[c]) = DataIn(buffer'[c]) + DataIn(toServer'[c])
        /\ AllData(buffer'[c]) /\ AllData(toServer'[c])
        /\ buffer'[c] \in Seq(Frames)
    <3> PICK s : s = toServer[c]
      OBVIOUS
    <3> PICK b : b = buffer'[c]
      OBVIOUS
    <3>1. /\ s \in Seq(Frames) /\ k \in 1 .. Len(s)
          /\ s[1] # "DATA" /\ AllData(Tail(s)) /\ b = Buffered(s, k)
      BY <2>1, <2>2, <2>4
    <3>2. /\ DataIn(s) = DataIn(b) + DataIn(Left(s, k))
          /\ AllData(b) /\ AllData(Left(s, k)) /\ b \in Seq(Frames)
      BY <3>1, DataAfterFrame
    <3> QED
      BY <2>2, <3>2
  <2>6. toServer'[c] \in Seq(Frames)
    BY <2>1, <2>2, DataRead
  <2>7. DataIn(buffer'[c]) \in Nat /\ DataIn(toServer'[c]) \in Nat
    BY <2>5, <2>6, DataFinite
  <2>8. DataIn(buffer[c]) = 0
    BY <2>1, DataNone
  <2>9. UNCHANGED <<tunnelVars, clientOpen, serverOpen, toClient>>
    BY <1>4 DEF AuthAccepted
  <2>10. forwarded[c] \in Nat
    OBVIOUS
  <2> QED
    BY <2>1, <2>4, <2>5, <2>7, <2>8, <2>9, <2>10
<1>5. CASE HandshakeEof(c)
  BY <1>5 DEF HandshakeEof
<1>6. CASE SshConnects(c)
  BY <1>6 DEF SshConnects, Leftover
<1>7. CASE SshUnavailable(c)
  BY <1>7 DEF SshUnavailable
<1>8. CASE TunnelEnds(c)
  BY <1>8 DEF TunnelEnds
<1>9. CASE Release(c)
  BY <1>9 DEF Release
<1>10. CASE UpForwards(c)
  <2>1. /\ task[c] = "relay" /\ up[c] = "running" /\ conn[c] # "idle"
        /\ buffer[c] # <<>> /\ buffer[c] \in Seq(Frames) /\ AllData(buffer[c])
        /\ buffer'[c] = Tail(buffer[c])
    BY <1>10 DEF UpForwards
  <2>2. /\ DataIn(buffer[c]) = DataIn(buffer'[c]) + 1
        /\ AllData(buffer'[c]) /\ buffer'[c] \in Seq(Frames)
    BY <2>1, AllDataKept, DataTail
  <2>3. /\ DataIn(buffer'[c]) \in Nat /\ DataIn(toServer[c]) \in Nat
        /\ forwarded[c] \in Nat
    BY <2>2, DataFinite
  <2>4. ssh[c] # "closed" => forwarded'[c] = forwarded[c] + 1
    BY <1>10 DEF UpForwards
  <2>5. UNCHANGED <<streams, task, up, down, ssh, pending, replied>>
    BY <1>10 DEF UpForwards
  <2> QED
    BY <2>1, <2>2, <2>3, <2>4, <2>5
<1>11. CASE UpReads(c)
  <2> PICK k \in 1 .. Len(toServer[c]) :
          /\ buffer' = [buffer EXCEPT ![c] = Got(toServer[c], k)]
          /\ toServer' = [toServer EXCEPT ![c] = Left(@, k)]
    BY <1>11 DEF UpReads
  <2>1. /\ task[c] = "relay" /\ up[c] = "running" /\ conn[c] # "idle"
        /\ buffer[c] = <<>> /\ toServer[c] \in Seq(Frames) /\ AllData(toServer[c])
        /\ buffer'[c] = Got(toServer[c], k) /\ toServer'[c] = Left(toServer[c], k)
    BY <1>11 DEF UpReads
  <2>2. /\ DataIn(toServer[c]) = DataIn(buffer'[c]) + DataIn(toServer'[c])
        /\ buffer'[c] \in Seq(Frames) /\ toServer'[c] \in Seq(Frames)
    BY <2>1, DataRead
  <2>3. AllData(buffer'[c]) /\ AllData(toServer'[c])
    BY <2>1, AllDataKept
  <2>4. /\ DataIn(buffer'[c]) \in Nat /\ DataIn(toServer'[c]) \in Nat
        /\ DataIn(buffer[c]) = 0 /\ forwarded[c] \in Nat
    BY <2>1, <2>2, DataFinite, DataNone
  <2>5. UNCHANGED <<toClient, clientOpen, serverOpen, task, tunnelVars>>
    BY <1>11 DEF UpReads
  <2> QED
    BY <2>1, <2>2, <2>3, <2>4, <2>5
<1>12. CASE UpEof(c) \/ UpFails(c)
  <2>1. UpStops(c)
    BY <1>12 DEF UpEof, UpFails
  <2>2. up'[c] = "ended" /\ ssh'[c] = "closed" /\ task[c] = "relay"
    BY <1>12, <2>1 DEF UpStops, SshAfterUp, UpEof, UpFails
  <2> QED
    BY <2>1, <2>2 DEF UpStops
<1>13. CASE DownForwards(c)
  <2>1. /\ task[c] = "relay" /\ conn[c] \notin {"idle", "hello_sent"}
        /\ toClient[c] \in Seq(Frames)
        /\ pending[c] \in Nat /\ replied[c] \in Nat /\ delivered[c] \in Nat
        /\ MaxReplies \in Nat
    BY <1>13, ServerAssumption DEF DownForwards
  <2>2. /\ pending'[c] = pending[c] - 1
        /\ \/ toClient'[c] = toClient[c] /\ replied'[c] = replied[c]
           \/ toClient'[c] = Append(toClient[c], "DATA") /\ replied'[c] = replied[c] + 1
    BY <1>13 DEF DownForwards
  <2>3. /\ DataIn(Append(toClient[c], "DATA")) = DataIn(toClient[c]) + 1
        /\ DataIn(toClient[c]) \in Nat
    BY <2>1, DataAppend, DataFinite DEF Frames
  <2>4. AllData(toClient[c]) => AllData(toClient'[c])
    <3>1. AllData(toClient[c]) => AllData(Append(toClient[c], "DATA"))
      BY <2>1, AllDataKept, ZenonT(60)
    <3> QED
      BY <2>2, <3>1, Zenon
  <2>5. UNCHANGED <<toServer, clientOpen, serverOpen, task, buffer, up, down, ssh,
                    forwarded>>
    BY <1>13 DEF DownForwards
  <2>6. pending'[c] + replied'[c] <= MaxReplies
    <3>1. pending[c] + replied[c] <= MaxReplies
      OBVIOUS
    <3>2. \A a, b, m \in Nat : a + b <= m => (a - 1) + b <= m /\ (a - 1) + (b + 1) <= m
      OBVIOUS
    <3>3. /\ pending[c] \in Nat /\ replied[c] \in Nat /\ MaxReplies \in Nat
          /\ pending'[c] = pending[c] - 1
          /\ replied'[c] = replied[c] \/ replied'[c] = replied[c] + 1
      BY <2>1, <2>2
    <3> QED
      BY <3>1, <3>2, <3>3, ZenonT(60)
  <2>7. RepliesKept(c)'
    <3>1. conn'[c] = conn[c] /\ ldown'[c] = ldown[c] /\ delivered'[c] = delivered[c]
      OBVIOUS
    <3>2. replied[c] = DataIn(toClient[c]) + delivered[c] =>
              replied'[c] = DataIn(toClient'[c]) + delivered'[c]
      <4> PICK m \in Nat : m = DataIn(toClient[c])
        BY <2>3
      <4> PICK n : n = DataIn(toClient'[c])
        OBVIOUS
      <4>1. \/ n = m /\ replied'[c] = replied[c]
            \/ n = m + 1 /\ replied'[c] = replied[c] + 1
        BY <2>2, <2>3
      <4>2. \A a, b, d \in Nat : a = b + d => a + 1 = (b + 1) + d
        OBVIOUS
      <4>3. replied[c] \in Nat /\ delivered[c] \in Nat
        BY <2>1
      <4>4. replied[c] = m + delivered[c] => replied'[c] = n + delivered[c]
        <5>1. CASE n = m /\ replied'[c] = replied[c]
          BY <5>1, Zenon
        <5>2. CASE n = m + 1 /\ replied'[c] = replied[c] + 1
          <6> SUFFICES ASSUME replied[c] = m + delivered[c]
                       PROVE  replied'[c] = n + delivered[c]
            OBVIOUS
          <6>1. replied[c] + 1 = (m + 1) + delivered[c]
            BY <4>2, <4>3
          <6> QED
            BY <5>2, <6>1, Zenon
        <5> QED
          BY <4>1, <5>1, <5>2, Zenon
      <4> QED
        BY <3>1, <4>4, ZenonT(60)
    <3> QED
      BY <3>1, <3>2
  <2> QED
    BY <2>1, <2>4, <2>5, <2>6, <2>7
<1>14. CASE DownStops(c)
  BY <1>14 DEF DownStops
<1>15. CASE PacketRejected(c)
  BY <1>15 DEF PacketRejected
<1>16. CASE HandshakeTimeout(c)
  BY <1>16 DEF HandshakeTimeout, DeadlineCovers
<1>17. CASE AccountGrants(c)
  BY <1>17 DEF AccountGrants
<1>18. CASE AccountDenies(c)
  BY <1>18 DEF AccountDenies
<1>19. CASE TunnelRefused(c)
  BY <1>19 DEF TunnelRefused
<1>20. CASE SshSends(c)
  <2>1. pending[c] \in Int /\ replied[c] \in Int /\ MaxReplies \in Int
    BY ServerAssumption
  <2>2. pending'[c] = pending[c] + 1 /\ pending'[c] + replied[c] <= MaxReplies
    BY <1>20, <2>1 DEF SshSends
  <2>3. conn[c] # "idle"
    BY <1>20 DEF SshSends
  <2> QED
    BY <1>20, <2>2, <2>3 DEF SshSends
<1>21. CASE SshCloses(c)
  BY <1>21 DEF SshCloses
<1>22. CASE Cancelled(c)
  BY <1>22 DEF Cancelled, CancelledAt
<1> QED
  BY <1>1, <1>2, <1>3, <1>4, <1>5, <1>6, <1>7, <1>8, <1>9, <1>10, <1>11, <1>12,
     <1>13, <1>14, <1>15, <1>16, <1>17, <1>18, <1>19, <1>20, <1>21, <1>22
     DEF ServerStep, HandlerRuns, HandlerMay, UpRuns, DownRuns

\* A step of the client keeps its own connection in order.
LEMMA ClientInOrderStep ==
    ASSUME TypeOK, NEW c \in Conns, InOrder(c), ClientStep(c), UNCHANGED serverVars
    PROVE  InOrder(c)'
<1> USE DEF TypeOK, StreamsTypeOK, ServerTypeOK, ClientTypeOK, serverVars,
            streams, relayVars, InOrder, Untouched, ClientInOrder,
            ServerInOrder, TunnelInOrder, RequestsKept, RepliesKept, Handshaking
<1>1. CASE DialPreflight(c) \/ DialForApp(c)
  <2>1. /\ conn[c] = "idle" /\ conn'[c] = "hello_sent"
        /\ toServer'[c] = <<"CLIENT_HELLO">>
        /\ clientOpen'[c] = TRUE /\ serverOpen'[c] = TRUE
        /\ toClient' = toClient /\ UNCHANGED <<lup, ldown, requested, delivered>>
    <3>1. Dial(c) /\ UNCHANGED <<lup, ldown, requested, delivered>>
      BY <1>1 DEF DialPreflight, DialForApp
    <3> QED
      BY <3>1 DEF Dial
  <2>2. toServer[c] = <<>> /\ buffer[c] = <<>> /\ toClient[c] = <<>>
    BY <2>1
  <2>3. /\ DataIn(toServer'[c]) = 0 /\ DataIn(buffer[c]) = 0
        /\ DataIn(toClient[c]) = 0
    BY <2>1, <2>2, DataNone
  <2> QED
    BY <2>1, <2>2, <2>3
<1>2. CASE DialFails(c)
  <2>1. /\ conn[c] = "idle" /\ conn'[c] = "failed"
        /\ UNCHANGED <<streams, lup, ldown, requested, delivered>>
    BY <1>2 DEF DialFails
  <2> QED
    BY <2>1
<1>3. CASE ReceivesServerHello(c) /\ (PreflightSucceeds(c) \/ SessionOpens(c))
  <2> PICK k \in 1 .. Len(toClient[c]) : toClient' = [toClient EXCEPT ![c] = Left(@, k)]
    BY <1>3 DEF ReceivesServerHello
  <2>1. /\ conn[c] = "hello_sent" /\ toClient[c] = <<"SERVER_HELLO">>
        /\ clientOpen[c] /\ task[c] \notin {"none", "hello", "account", "opening", "relay"}
        /\ toServer'[c] = IF Closed(c) THEN toServer[c]
                          ELSE Append(toServer[c], "CLIENT_AUTH")
        /\ serverOpen' = serverOpen /\ requested' = requested /\ delivered' = delivered
    BY <1>3 DEF ReceivesServerHello, PreflightSucceeds, SessionOpens
  <2>2. toClient'[c] = <<>>
    <3> PICK s : s = toClient[c]
      OBVIOUS
    <3>1. s \in Seq(Frames) /\ k \in 1 .. Len(s) /\ toClient'[c] = Left(s, k)
      OBVIOUS
    <3>2. Len(s) = 1
      BY <2>1
    <3>3. Left(s, k) \in Seq(Frames) /\ Len(Left(s, k)) = Len(s) - k
      BY <3>1, DataRead
    <3> QED
      BY <3>1, <3>2, <3>3
  <2>3. task[c] = "auth" => toServer[c] = <<>> /\ toServer'[c] = <<"CLIENT_AUTH">>
    BY <2>1 DEF Closed
  <2>4. task[c] = "auth" => DataIn(toServer'[c]) = DataIn(toServer[c])
    <3> SUFFICES ASSUME task[c] = "auth"
                 PROVE  DataIn(toServer'[c]) = DataIn(toServer[c])
      OBVIOUS
    <3>1. DataIn(toServer'[c]) = 0 /\ DataIn(toServer[c]) = 0
      BY <2>3, DataNone
    <3> QED
      BY <3>1
  <2>5. DataIn(toClient[c]) = 0 /\ DataIn(toClient'[c]) = 0
    BY <2>1, <2>2, DataNone
  <2>6. task[c] = "auth" =>
            toServer'[c][1] = "CLIENT_AUTH" /\ AllData(Tail(toServer'[c]))
    <3>1. ASSUME NEW t, t = <<"CLIENT_AUTH">>
          PROVE  t[1] = "CLIENT_AUTH" /\ AllData(Tail(t))
      <4>1. t[1] = "CLIENT_AUTH" /\ DOMAIN Tail(t) = {}
        BY <3>1
      <4> QED
        BY <4>1 DEF AllData
    <3> QED
      BY <2>3, <3>1
  <2>7. AllData(toClient'[c])
    BY <2>2 DEF AllData
  <2>8. CASE PreflightSucceeds(c)
    <3>1. /\ conn'[c] = "done" /\ UNCHANGED <<lup, ldown>>
      BY <2>8 DEF PreflightSucceeds
    <3> QED
      BY <2>1, <2>2, <2>3, <2>4, <2>6, <3>1
  <2>9. CASE SessionOpens(c)
    <3>1. /\ conn'[c] = "relay" /\ lup'[c] = "running" /\ ldown'[c] = "running"
          /\ clientOpen' = clientOpen
      BY <2>9 DEF SessionOpens
    <3> QED
      BY <2>1, <2>2, <2>3, <2>4, <2>5, <2>6, <2>7, <3>1
  <2> QED
    BY <1>3, <2>8, <2>9
<1>4. CASE HandshakeFails(c)
  BY <1>4 DEF HandshakeFails, GiveUp
<1>5. CASE SessionEnds(c)
  BY <1>5 DEF SessionEnds
<1>6. CASE LupStops(c) \/ LupFails(c)
  BY <1>6 DEF LupStops, LupFails
<1>7. CASE LupForwards(c)
  <2>1. /\ conn[c] = "relay" /\ task[c] \notin {"none", "hello"}
        /\ toServer[c] \in Seq(Frames)
        /\ toServer'[c] = Append(toServer[c], "DATA")
        /\ requested'[c] = requested[c] + 1
        /\ UNCHANGED <<toClient, clientOpen, serverOpen, conn, lup, ldown, delivered>>
    BY <1>7 DEF LupForwards
  <2>2. /\ DataIn(toServer'[c]) = DataIn(toServer[c]) + 1
        /\ DataIn(toServer[c]) \in Nat
    BY <2>1, DataAppend, DataFinite DEF Frames
  <2>3. /\ DataIn(buffer[c]) \in Nat /\ forwarded[c] \in Nat
        /\ requested[c] \in Int
    BY DataFinite
  <2>4. AllData(toServer[c]) => AllData(toServer'[c])
    BY <2>1, AllDataKept
  <2>5. task[c] = "auth" =>
            /\ toServer'[c] # <<>> /\ toServer'[c][1] = "CLIENT_AUTH"
            /\ AllData(Tail(toServer'[c]))
    <3> SUFFICES ASSUME task[c] = "auth"
                 PROVE  /\ toServer'[c] # <<>> /\ toServer'[c][1] = "CLIENT_AUTH"
                        /\ AllData(Tail(toServer'[c]))
      OBVIOUS
    <3>1. /\ toServer[c] # <<>> /\ toServer[c][1] = "CLIENT_AUTH"
          /\ AllData(Tail(toServer[c])) /\ toServer[c] \in Seq(Frames)
      BY <2>1
    <3> HIDE DEF InOrder
    <3> QED
      BY <2>1, <3>1, AuthThenData
  <2>6. RequestsKept(c)'
    <3>1. UNCHANGED <<task, up, ssh, buffer, forwarded>>
      OBVIOUS
    <3>2. requested[c] = DataIn(toServer[c]) + DataIn(buffer[c]) + forwarded[c] =>
              requested'[c] = DataIn(toServer'[c]) + DataIn(buffer'[c]) + forwarded'[c]
      BY <2>1, <2>2, <2>3, <3>1
    <3> QED
      BY <3>1, <3>2
  <2> HIDE DEF RequestsKept
  <2> QED
    BY <2>1, <2>4, <2>5, <2>6
<1>8. CASE LdownForwards(c)
  <2>1. /\ conn[c] = "relay" /\ ldown[c] = "running" /\ task[c] \notin {"none", "hello"}
        /\ toClient[c] # <<>> /\ toClient[c] \in Seq(Frames) /\ AllData(toClient[c])
        /\ toClient'[c] = Tail(toClient[c]) /\ delivered'[c] = delivered[c] + 1
        /\ UNCHANGED <<toServer, clientOpen, serverOpen, conn, lup, ldown, requested>>
    BY <1>8 DEF LdownForwards
  <2>2. /\ DataIn(toClient[c]) = DataIn(toClient'[c]) + 1
        /\ AllData(toClient'[c]) /\ toClient'[c] \in Seq(Frames)
    BY <2>1, AllDataKept, DataTail
  <2>3. DataIn(toClient'[c]) \in Nat /\ delivered[c] \in Nat
    BY <2>2, DataFinite
  <2> QED
    BY <2>1, <2>2, <2>3
<1>9. CASE LdownEof(c) \/ LdownFails(c)
  BY <1>9 DEF LdownEof, LdownFails, LdownStops
<1>10. CASE SessionCancelled(c)
  BY <1>10 DEF SessionCancelled
<1>11. CASE AppCloses(c)
  BY <1>11 DEF AppCloses
<1>12. CASE Vanishes(c)
  BY <1>12 DEF Vanishes
<1> QED
  BY <1>1, <1>2, <1>3, <1>4, <1>5, <1>6, <1>7, <1>8, <1>9, <1>10, <1>11, <1>12
     DEF ClientStep, OpenerRuns, LdownRuns, PreflightSucceeds, SessionOpens

\* The end of a process keeps every connection in order.
LEMMA EndsInOrderStep ==
    ASSUME TypeOK, NEW c \in Conns, InOrder(c),
           \/ (ProcessEnds \/ ServerStarts) /\ UNCHANGED clientVars
           \/ (\E p \in Clients : ClientStops(p)) /\ UNCHANGED serverVars
    PROVE  InOrder(c)'
<1> USE DEF TypeOK, StreamsTypeOK, ServerTypeOK, ClientTypeOK
<1>1. CASE ServerStops /\ UNCHANGED clientVars
  <2>1. Same(c)
    BY <1>1 DEF ServerStops, Same, serverVars, clientVars
  <2> QED
    BY <2>1, SameInOrder
<1>2. CASE ServerStarts /\ UNCHANGED clientVars
  <2>1. Same(c)
    BY <1>2 DEF ServerStarts, Same, tunnelVars, clientVars
  <2> QED
    BY <2>1, SameInOrder
<1>3. CASE ServerKilled /\ UNCHANGED clientVars
  <2>1. /\ serverOpen'[c] = FALSE /\ buffer'[c] = <<>> /\ pending'[c] = 0
        /\ up'[c] = IF up[c] = "off" THEN "off" ELSE "ended"
        /\ down'[c] = IF down[c] = "off" THEN "off" ELSE "ended"
        /\ ssh'[c] = IF ssh[c] = "none" THEN "none" ELSE "closed"
        /\ UNCHANGED <<toServer, toClient, clientOpen, forwarded, replied, clientVars>>
    BY <1>3 DEF ServerKilled
  <2>2. /\ task[c] \in Counted => task'[c] = "done"
        /\ task[c] = "none" => task'[c] = IF serverOpen[c] THEN "refused" ELSE "none"
        /\ task[c] \in Over => task'[c] = task[c]
    BY <1>3 DEF ServerKilled, Counted, Handshaking, Over
  <2>3. task'[c] = "none" => task[c] = "none" /\ buffer[c] = <<>>
    BY <2>2 DEF Counted, Handshaking, Over, InOrder, ServerInOrder
  <2>4. task'[c] \in {"none", "refused", "done"}
    BY <2>2 DEF Counted, Handshaking, Over
  <2>5. Untouched(c)' /\ ClientInOrder(c)' /\ RepliesKept(c)'
    BY <2>1, <2>2, <2>4
       DEF InOrder, Untouched, ClientInOrder, RepliesKept, clientVars
  <2>6. ServerInOrder(c)' /\ RequestsKept(c)'
    BY <2>1, <2>3, <2>4
       DEF InOrder, ServerInOrder, RequestsKept, TunnelInOrder, Handshaking, clientVars
  <2>7. TunnelInOrder(c)'
    <3>1. pending[c] \in Nat /\ replied[c] \in 0 .. MaxReplies /\ replied'[c] = replied[c]
      BY <2>1
    <3>2. pending'[c] + replied'[c] <= MaxReplies
      BY <2>1, <3>1, ServerAssumption
    <3>3. up'[c] # "running" /\ down'[c] # "running"
      BY <2>1
    <3>4. task'[c] = "none" => up[c] = "off" /\ down[c] = "off" /\ ssh[c] = "none"
      BY <2>3 DEF InOrder, TunnelInOrder
    <3> QED
      BY <2>1, <2>4, <3>2, <3>3, <3>4 DEF TunnelInOrder, Handshaking
  <2> QED
    BY <2>5, <2>6, <2>7 DEF InOrder
<1>4. ASSUME NEW p \in Clients, ClientStops(p), UNCHANGED serverVars
      PROVE  InOrder(c)'
  <2>1. /\ UNCHANGED <<toServer, toClient, serverOpen, relayVars, serverVars>>
        /\ \/ conn'[c] = conn[c] /\ clientOpen'[c] = clientOpen[c]
           \/ conn[c] = "hello_sent" /\ conn'[c] = "failed" /\ clientOpen'[c] = FALSE
    <3> DEFINE awaited == {d \in Preflights : ClientOf[d] = p /\ conn[d] = "hello_sent"}
    <3>1. /\ conn'[c] = IF c \in awaited THEN "failed" ELSE conn[c]
          /\ clientOpen'[c] = (c \notin awaited /\ clientOpen[c])
          /\ UNCHANGED <<toServer, toClient, serverOpen, relayVars>>
      BY <1>4 DEF ClientStops
    <3>2. CASE c \in awaited
      BY <1>4, <3>1, <3>2
    <3>3. CASE c \notin awaited
      <4>1. clientOpen[c] \in BOOLEAN
        OBVIOUS
      <4>2. clientOpen'[c] = clientOpen[c]
        BY <3>1, <3>3, <4>1
      <4> QED
        BY <1>4, <3>1, <3>3, <4>2
    <3> QED
      BY <3>2, <3>3
  <2> QED
    BY <2>1 DEF relayVars, serverVars, InOrder, Untouched, ClientInOrder,
       ServerInOrder, TunnelInOrder, RequestsKept, RepliesKept
<1> QED
  BY <1>1, <1>2, <1>3, <1>4 DEF ProcessEnds

-----------------------------------------------------------------------------
(* Types                                                                   *)

\* The read of a frame of the handshake keeps the streams well-typed.
LEMMA FrameTypes ==
    ASSUME toServer \in [Conns -> Seq(Frames)], buffer \in [Conns -> Seq(Frames)],
           NEW c \in Conns, NEW k \in 1 .. Len(toServer[c]), NEW frame,
           ReadFrame(c, frame, k), toServer[c][1] # "DATA", buffer[c] = <<>>
    PROVE  toServer' \in [Conns -> Seq(Frames)] /\ buffer' \in [Conns -> Seq(Frames)]
<1> PICK s : s = toServer[c]
  OBVIOUS
<1>1. s \in Seq(Frames) /\ k \in 1 .. Len(s) /\ s[1] # "DATA"
  OBVIOUS
<1>2. Left(s, k) \in Seq(Frames) /\ Buffered(s, k) \in Seq(Frames)
  BY <1>1, DataRead, DataAfterFrame
<1>3. /\ toServer' = [toServer EXCEPT ![c] = Left(s, k)]
      /\ buffer' = [buffer EXCEPT ![c] = Buffered(s, k)]
  BY DEF ReadFrame, Buffered
<1> QED
  BY <1>2, <1>3

LEMMA ServerTypes ==
    ASSUME TypeOK, NEW c \in Conns, InOrder(c), ServerStep(c), UNCHANGED clientVars,
           active_connections' \in Nat, ends' = ends
    PROVE  TypeOK'
<1> USE DEF TypeOK, StreamsTypeOK, ServerTypeOK, ClientTypeOK, clientVars,
            streams, tunnelVars, Leave, Counted, Handshaking, Over, Frames
<1>1. CASE Accept(c)
  BY <1>1 DEF Accept
<1>2. CASE Refuse(c)
  BY <1>2 DEF Refuse, AfterRefusal
<1>5. CASE HandshakeEof(c)
  BY <1>5 DEF HandshakeEof
<1>6. CASE SshConnects(c)
  BY <1>6 DEF SshConnects, Leftover
<1>7. CASE SshUnavailable(c)
  BY <1>7 DEF SshUnavailable
<1>8. CASE TunnelEnds(c)
  BY <1>8 DEF TunnelEnds
<1>9. CASE Release(c)
  BY <1>9 DEF Release
<1>10. CASE UpForwards(c)
  <2>1. buffer[c] \in Seq(Frames) /\ buffer[c] # <<>>
    BY <1>10 DEF UpForwards
  <2>2. Tail(buffer[c]) \in Seq(Frames)
    BY <2>1, DataTail
  <2>3. buffer' \in [Conns -> Seq(Frames)]
    BY <1>10, <2>2 DEF UpForwards
  <2>4. forwarded' \in [Conns -> Nat]
    BY <1>10 DEF UpForwards
  <2> QED
    BY <1>10, <2>3, <2>4 DEF UpForwards
<1>11. CASE UpReads(c)
  <2> PICK k \in 1 .. Len(toServer[c]) :
          /\ buffer' = [buffer EXCEPT ![c] = Got(toServer[c], k)]
          /\ toServer' = [toServer EXCEPT ![c] = Left(@, k)]
    BY <1>11 DEF UpReads
  <2>1. toServer[c] \in Seq(Frames)
    OBVIOUS
  <2>2. Got(toServer[c], k) \in Seq(Frames) /\ Left(toServer[c], k) \in Seq(Frames)
    BY <2>1, DataRead
  <2>3. buffer' \in [Conns -> Seq(Frames)] /\ toServer' \in [Conns -> Seq(Frames)]
    BY <2>2
  <2> QED
    BY <1>11, <2>3 DEF UpReads
<1>12. CASE UpEof(c) \/ UpFails(c)
  <2>1. UpStops(c)
    BY <1>12 DEF UpEof, UpFails
  <2> QED
    BY <2>1 DEF UpStops, SshAfterUp
<1>14. CASE DownStops(c)
  BY <1>14 DEF DownStops
<1>15. CASE PacketRejected(c)
  BY <1>15, SMTT(60) DEF PacketRejected
<1>16. CASE HandshakeTimeout(c)
  BY <1>16 DEF HandshakeTimeout
<1>17. CASE AccountGrants(c)
  BY <1>17 DEF AccountGrants
<1>18. CASE AccountDenies(c)
  BY <1>18 DEF AccountDenies
<1>19. CASE TunnelRefused(c)
  BY <1>19 DEF TunnelRefused
<1>21. CASE SshCloses(c)
  BY <1>21 DEF SshCloses
<1>22. CASE Cancelled(c)
  <2>1. task' \in [Conns -> {"none"} \cup Counted \cup Over]
    BY <1>22 DEF Cancelled
  <2>2. serverOpen' \in [Conns -> BOOLEAN]
    BY <1>22 DEF Cancelled
  <2>3. /\ up' \in [Conns -> {"off", "running", "ended"}]
        /\ down' \in [Conns -> {"off", "running", "ended"}]
        /\ ssh' \in [Conns -> {"none", "open", "closed", "abandoned"}]
    <3>1. CASE task[c] = "relay"
      <4>1. /\ up' = [up EXCEPT ![c] = "ended"]
            /\ down' = [down EXCEPT ![c] = "ended"]
            /\ ssh' = [ssh EXCEPT ![c] = "closed"]
        BY <1>22, <3>1 DEF Cancelled
      <4> QED
        BY <4>1
    <3>2. CASE task[c] # "relay"
      BY <1>22, <3>2 DEF Cancelled
    <3> QED
      BY <3>1, <3>2
  <2> QED
    BY <1>22, <2>1, <2>2, <2>3 DEF Cancelled
<1>3. CASE HelloAccepted(c)
  <2> PICK k \in 1 .. Len(toServer[c]) : ReadFrame(c, "CLIENT_HELLO", k)
    BY <1>3 DEF HelloAccepted
  <2>1. toServer[c] = <<"CLIENT_HELLO">> /\ toServer[c][1] # "DATA" /\ buffer[c] = <<>>
    BY <1>3 DEF HelloAccepted, InOrder, ServerInOrder
  <2>2. toServer' \in [Conns -> Seq(Frames)] /\ buffer' \in [Conns -> Seq(Frames)]
    BY <2>1, FrameTypes
  <2>3. toClient' \in [Conns -> Seq(Frames)]
    BY <1>3 DEF HelloAccepted
  <2>4. task' \in [Conns -> {"none"} \cup Counted \cup Over]
    BY <1>3 DEF HelloAccepted, AfterHello
  <2> QED
    BY <1>3, <2>2, <2>3, <2>4 DEF HelloAccepted
<1>4. CASE AuthAccepted(c)
  <2> PICK k \in 1 .. Len(toServer[c]) : ReadFrame(c, "CLIENT_AUTH", k)
    BY <1>4 DEF AuthAccepted
  <2>1. toServer[c] # <<>>
    OBVIOUS
  <2>2. toServer[c][1] # "DATA" /\ buffer[c] = <<>>
    BY <1>4, <2>1 DEF AuthAccepted, InOrder, ServerInOrder
  <2>3. toServer' \in [Conns -> Seq(Frames)] /\ buffer' \in [Conns -> Seq(Frames)]
    BY <2>2, FrameTypes
  <2> QED
    BY <1>4, <2>3 DEF AuthAccepted
<1>13. CASE DownForwards(c)
  <2>1. pending' \in [Conns -> 0 .. MaxReplies]
    BY <1>13, ServerAssumption DEF DownForwards
  <2>2. pending[c] > 0 /\ pending[c] + replied[c] <= MaxReplies
    BY <1>13 DEF DownForwards, InOrder, TunnelInOrder
  <2>3. replied[c] + 1 \in 0 .. MaxReplies
    BY <2>2, ServerAssumption
  <2>4. replied' \in [Conns -> 0 .. MaxReplies]
    BY <1>13, <2>3 DEF DownForwards
  <2>5. toClient' \in [Conns -> Seq(Frames)]
    BY <1>13 DEF DownForwards
  <2> QED
    BY <1>13, <2>1, <2>4, <2>5 DEF DownForwards
<1>20. CASE SshSends(c)
  <2>1. pending[c] + 1 \in 0 .. MaxReplies
    BY <1>20, ServerAssumption DEF SshSends
  <2>2. pending' \in [Conns -> 0 .. MaxReplies]
    BY <1>20, <2>1 DEF SshSends
  <2> QED
    BY <1>20, <2>2 DEF SshSends
<1> QED
  BY <1>1, <1>2, <1>3, <1>4, <1>5, <1>6, <1>7, <1>8, <1>9, <1>10, <1>11, <1>12,
     <1>13, <1>14, <1>15, <1>16, <1>17, <1>18, <1>19, <1>20, <1>21, <1>22
     DEF ServerStep, HandlerRuns, HandlerMay, UpRuns, DownRuns

LEMMA GiveUpTypes ==
    ASSUME ClientTypeOK, NEW c \in Conns, GiveUp(c)
    PROVE  /\ proxy' \in [Clients -> {"starting", "serving", "failed", "stopped"}]
           /\ app' \in [Conns -> {"none", "open", "closed"}]
<1>1. CASE c \in Preflights
  BY <1>1, ClientAssumption DEF GiveUp, ClientTypeOK
<1>2. CASE c \notin Preflights
  BY <1>2 DEF GiveUp, ClientTypeOK
<1> QED
  BY <1>1, <1>2

LEMMA ClientTypes ==
    ASSUME TypeOK, NEW c \in Conns, InOrder(c), ClientStep(c), UNCHANGED serverVars,
           ends' = ends
    PROVE  TypeOK'
<1> USE DEF TypeOK, StreamsTypeOK, ServerTypeOK, ClientTypeOK, serverVars,
            streams, relayVars, ConnStates, Frames
<1>1. CASE DialPreflight(c) \/ DialForApp(c)
  <2>1. /\ Dial(c) /\ UNCHANGED <<proxy, lup, ldown, requested, delivered>>
        /\ app' = app \/ app' = [app EXCEPT ![c] = "open"]
    BY <1>1 DEF DialPreflight, DialForApp
  <2>2. app' \in [Conns -> {"none", "open", "closed"}]
    <3>1. CASE app' = app
      BY <3>1
    <3>2. CASE app' = [app EXCEPT ![c] = "open"]
      BY <3>2
    <3> QED
      BY <2>1, <3>1, <3>2
  <2>3. conn' \in [Conns -> ConnStates] /\ toServer' \in [Conns -> Seq(Frames)]
    BY <2>1 DEF Dial
  <2>4. clientOpen' \in [Conns -> BOOLEAN] /\ serverOpen' \in [Conns -> BOOLEAN]
    BY <2>1 DEF Dial
  <2> QED
    BY <2>1, <2>2, <2>3, <2>4 DEF Dial
<1>2. CASE DialFails(c)
  <2>1. GiveUp(c)
    BY <1>2 DEF DialFails
  <2>2. /\ proxy' \in [Clients -> {"starting", "serving", "failed", "stopped"}]
        /\ app' \in [Conns -> {"none", "open", "closed"}]
    BY <2>1, GiveUpTypes
  <2> QED
    BY <1>2, <2>2 DEF DialFails
<1>3. CASE PreflightSucceeds(c) \/ SessionOpens(c)
  <2>1. ReceivesServerHello(c)
    BY <1>3 DEF PreflightSucceeds, SessionOpens
  <2> PICK k \in 1 .. Len(toClient[c]) : toClient' = [toClient EXCEPT ![c] = Left(@, k)]
    BY <2>1 DEF ReceivesServerHello
  <2>2. toClient[c] \in Seq(Frames)
    OBVIOUS
  <2>3. Left(toClient[c], k) \in Seq(Frames)
    BY <2>2, DataRead
  <2>4. toClient' \in [Conns -> Seq(Frames)]
    BY <2>3
  <2>5. toServer' \in [Conns -> Seq(Frames)]
    BY <2>1 DEF ReceivesServerHello
  <2>6. CASE PreflightSucceeds(c)
    BY <2>4, <2>5, <2>6, ClientAssumption DEF PreflightSucceeds
  <2>7. CASE SessionOpens(c)
    BY <2>4, <2>5, <2>7 DEF SessionOpens
  <2> QED
    BY <1>3, <2>6, <2>7
<1>4. CASE HandshakeFails(c)
  <2>1. GiveUp(c)
    BY <1>4 DEF HandshakeFails
  <2>2. /\ proxy' \in [Clients -> {"starting", "serving", "failed", "stopped"}]
        /\ app' \in [Conns -> {"none", "open", "closed"}]
    BY <2>1, GiveUpTypes
  <2> QED
    BY <1>4, <2>2 DEF HandshakeFails
<1>5. CASE SessionEnds(c)
  BY <1>5 DEF SessionEnds
<1>6. CASE LupStops(c) \/ LupFails(c)
  <2>1. /\ lup' = [lup EXCEPT ![c] = "ended"]
        /\ UNCHANGED <<streams, proxy, conn, ldown, app, requested, delivered>>
    BY <1>6 DEF LupStops, LupFails
  <2> QED
    BY <2>1 DEF streams
<1>7. CASE LupForwards(c)
  <2>1. requested[c] + 1 \in 0 .. MaxRequests
    BY <1>7, ClientAssumption DEF LupForwards
  <2>2. requested' \in [Conns -> 0 .. MaxRequests]
    BY <1>7, <2>1 DEF LupForwards
  <2>3. toServer' \in [Conns -> Seq(Frames)]
    BY <1>7 DEF LupForwards
  <2> QED
    BY <1>7, <2>2, <2>3 DEF LupForwards
<1>8. CASE LdownForwards(c)
  <2>1. toClient[c] \in Seq(Frames) /\ toClient[c] # <<>>
    BY <1>8 DEF LdownForwards
  <2>2. Tail(toClient[c]) \in Seq(Frames)
    BY <2>1, DataTail
  <2>3. toClient' \in [Conns -> Seq(Frames)]
    BY <1>8, <2>2 DEF LdownForwards
  <2> QED
    BY <1>8, <2>3, SMTT(60) DEF LdownForwards
<1>9. CASE LdownEof(c) \/ LdownFails(c)
  <2>1. LdownStops(c)
    BY <1>9 DEF LdownEof, LdownFails
  <2> QED
    BY <2>1 DEF LdownStops, AppAfterLdown
<1>10. CASE SessionCancelled(c)
  BY <1>10 DEF SessionCancelled
<1>11. CASE AppCloses(c)
  BY <1>11 DEF AppCloses
<1>12. CASE Vanishes(c)
  BY <1>12 DEF Vanishes
<1> QED
  BY <1>1, <1>2, <1>3, <1>4, <1>5, <1>6, <1>7, <1>8, <1>9, <1>10, <1>11, <1>12
     DEF ClientStep, OpenerRuns, LdownRuns

LEMMA EndsTypes ==
    ASSUME TypeOK, active_connections' \in Nat,
           \/ ServerStarts /\ UNCHANGED <<clientVars, ends>>
           \/ /\ ends < MaxEnds
              /\ ends' = ends + 1
              /\ \/ ProcessEnds /\ UNCHANGED clientVars
                 \/ \E p \in Clients : ClientStops(p) /\ UNCHANGED serverVars
    PROVE  TypeOK'
<1> USE DEF TypeOK, StreamsTypeOK, ServerTypeOK, ClientTypeOK, tunnelVars, clientVars,
            relayVars, serverVars
<1>1. CASE ServerStarts /\ UNCHANGED <<clientVars, ends>>
  BY <1>1 DEF ServerStarts
<1>2. ends < MaxEnds /\ ends' = ends + 1 => ends' \in 0 .. MaxEnds
  BY SystemAssumption
<1>3. CASE ends' \in 0 .. MaxEnds /\ ServerStops /\ UNCHANGED clientVars
  BY <1>3 DEF ServerStops
<1>4. CASE ends' \in 0 .. MaxEnds /\ ServerKilled /\ UNCHANGED clientVars
  <2>1. task' \in [Conns -> {"none"} \cup Counted \cup Over]
    BY <1>4 DEF ServerKilled, Over
  <2>2. /\ up' \in [Conns -> {"off", "running", "ended"}]
        /\ down' \in [Conns -> {"off", "running", "ended"}]
        /\ ssh' \in [Conns -> {"none", "open", "closed", "abandoned"}]
    BY <1>4 DEF ServerKilled
  <2>3. buffer' \in [Conns -> Seq(Frames)] /\ pending' \in [Conns -> 0 .. MaxReplies]
    BY <1>4, ServerAssumption DEF ServerKilled
  <2> QED
    BY <1>4, <2>1, <2>2, <2>3 DEF ServerKilled
<1>5. ASSUME ends' \in 0 .. MaxEnds, NEW p \in Clients, ClientStops(p),
             UNCHANGED serverVars
      PROVE  TypeOK'
  <2>1. proxy' \in [Clients -> {"starting", "serving", "failed", "stopped"}]
    BY <1>5 DEF ClientStops
  <2>2. conn' \in [Conns -> ConnStates] /\ clientOpen' \in [Conns -> BOOLEAN]
    BY <1>5 DEF ClientStops, ConnStates
  <2> QED
    BY <1>5, <2>1, <2>2 DEF ClientStops
<1> QED
  BY <1>1, <1>2, <1>3, <1>4, <1>5 DEF ProcessEnds

-----------------------------------------------------------------------------
(* The theorems                                                            *)

LEMMA InvInit == Init => Inv
<1> SUFFICES ASSUME Init
             PROVE  Inv
  OBVIOUS
<1> USE DEF Init, StreamsInit, ServerInit, ClientInit
<1>1. TypeOK
  BY SystemAssumption, ServerAssumption, ClientAssumption
     DEF TypeOK, StreamsTypeOK, ServerTypeOK, ClientTypeOK, ConnStates
<1>2. SlotInv
  BY SlotInit
<1>3. ASSUME NEW c \in Conns
      PROVE  InOrder(c)
  <2>1. DataIn(<<>>) = 0
    BY DataNone
  <2>2. /\ pending[c] + replied[c] = 0 /\ 0 <= MaxReplies
        /\ DataIn(toServer[c]) + DataIn(buffer[c]) + forwarded[c] = 0
        /\ DataIn(toClient[c]) + delivered[c] = 0
    BY <2>1, ServerAssumption
  <2> QED
    BY <2>2 DEF InOrder, Untouched, ClientInOrder, ServerInOrder,
       TunnelInOrder, RequestsKept, RepliesKept, Handshaking
<1> QED
  BY <1>1, <1>2, <1>3 DEF Inv

LEMMA InvNext == Inv /\ [Next]_vars => Inv'
<1> SUFFICES ASSUME Inv, [Next]_vars
             PROVE  Inv'
  OBVIOUS
<1>1. TypeOK /\ \A c \in Conns : InOrder(c)
  BY DEF Inv
<1>2. SlotInv'
  BY SlotStep DEF Inv
<1>3. active_connections' \in Nat
  BY <1>2 DEF SlotInv
<1>4. ASSUME NEW c \in Conns, ServerStep(c), UNCHANGED <<clientVars, ends>>
      PROVE  TypeOK' /\ \A d \in Conns : InOrder(d)'
  <2>1. UNCHANGED clientVars /\ ends' = ends
    BY <1>4
  <2>2. TypeOK'
    BY <1>1, <1>3, <1>4, <2>1, ServerTypes
  <2>3. InOrder(c)'
    BY <1>1, <1>4, <2>1, ServerInOrderStep
  <2>4. ASSUME NEW d \in Conns, d # c
        PROVE  InOrder(d)'
    BY <1>1, <1>4, <2>1, <2>4, ServerLocal, SameInOrder
  <2> QED
    BY <2>2, <2>3, <2>4
<1>5. ASSUME NEW c \in Conns, ClientStep(c), UNCHANGED <<serverVars, ends>>
      PROVE  TypeOK' /\ \A d \in Conns : InOrder(d)'
  <2>1. UNCHANGED serverVars /\ ends' = ends
    BY <1>5
  <2>2. TypeOK'
    BY <1>1, <1>5, <2>1, ClientTypes
  <2>3. InOrder(c)'
    BY <1>1, <1>5, <2>1, ClientInOrderStep
  <2>4. ASSUME NEW d \in Conns, d # c
        PROVE  InOrder(d)'
    BY <1>1, <1>5, <2>1, <2>4, ClientLocal, SameInOrder
  <2> QED
    BY <2>2, <2>3, <2>4
<1>6. ASSUME \/ ServerStarts /\ UNCHANGED <<clientVars, ends>>
             \/ /\ ends < MaxEnds
                /\ ends' = ends + 1
                /\ \/ ProcessEnds /\ UNCHANGED clientVars
                   \/ \E p \in Clients : ClientStops(p) /\ UNCHANGED serverVars
      PROVE  TypeOK' /\ \A d \in Conns : InOrder(d)'
  <2>1. TypeOK'
    BY <1>1, <1>3, <1>6, EndsTypes
  <2>2. \/ (ProcessEnds \/ ServerStarts) /\ UNCHANGED clientVars
        \/ (\E p \in Clients : ClientStops(p)) /\ UNCHANGED serverVars
    BY <1>6
  <2>3. ASSUME NEW d \in Conns
        PROVE  InOrder(d)'
    BY <1>1, <2>2, EndsInOrderStep
  <2> QED
    BY <2>1, <2>3
<1>7. CASE UNCHANGED vars
  <2>1. TypeOK'
    BY <1>1, <1>7 DEF vars, streams, serverVars, clientVars, TypeOK, StreamsTypeOK,
       ServerTypeOK, ClientTypeOK
  <2>2. ASSUME NEW d \in Conns
        PROVE  InOrder(d)'
    <3>1. Same(d)
      BY <1>7 DEF vars, streams, serverVars, clientVars, Same
    <3> QED
      BY <1>1, <3>1, SameInOrder
  <2> QED
    BY <1>2, <2>1, <2>2 DEF Inv
<1>8. CASE Next
  <2>1. TypeOK' /\ \A d \in Conns : InOrder(d)'
    BY <1>4, <1>5, <1>6, <1>8 DEF Next
  <2> QED
    BY <1>2, <2>1 DEF Inv
<1> QED
  BY <1>7, <1>8

LEMMA Invariance == Spec => []Inv
BY InvInit, InvNext, PTL DEF Spec

\* The variables keep their types, whatever the clients, the SSH server and
\* the ends of the processes do.
THEOREM TypeCorrect == Spec => []TypeOK
<1>1. Inv => TypeOK
  BY DEF Inv
<1> QED
  BY <1>1, Invariance, PTL

\* Nothing the application sends is lost between local_to_vpn and
\* vpn_to_ssh, however the reads of the handshake and of the tunnel cut the
\* stream.
THEOREM RequestsConserved == Spec => []NoRequestLost
<1>1. Inv => NoRequestLost
  BY DEF Inv, InOrder, RequestsKept, NoRequestLost
<1> QED
  BY <1>1, Invariance, PTL

\* Nothing SSH sends is lost between ssh_to_vpn and vpn_to_local, although
\* the client's handshake drops what it read beyond SERVER_HELLO.
THEOREM RepliesConserved == Spec => []NoReplyLost
<1>1. Inv => NoReplyLost
  BY DEF Inv, InOrder, RepliesKept, NoReplyLost
<1> QED
  BY <1>1, Invariance, PTL
=============================================================================
