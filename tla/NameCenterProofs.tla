-------------------------- MODULE NameCenterProofs --------------------------
(***************************************************************************)
(* Proofs about NameCenter, for any applications, any dependencies between *)
(* them and any number of runs of their processes.                         *)
(***************************************************************************)
EXTENDS NameCenter, SequenceTheorems, TLAPS

USE IdsAssumption, ProcessAssumption, AbsentAssumption

-----------------------------------------------------------------------------
(* Operators.                                                              *)

LEMMA ElementType ==
  ASSUME NEW S, NEW s \in Seq(S), s # <<>>
  PROVE  Head(s) \in S /\ Tail(s) \in Seq(S) /\ \A i \in DOMAIN s : s[i] \in S
OBVIOUS

LEMMA InAppend ==
  ASSUME NEW S, NEW s \in Seq(S), NEW e \in S
  PROVE  InSeq(e, Append(s, e)) /\ \A x : InSeq(x, s) => InSeq(x, Append(s, e))
<1>1. DOMAIN s = 1..Len(s) /\ Len(s) \in Nat
  OBVIOUS
<1>2. DOMAIN Append(s, e) = 1..(Len(s) + 1)
  OBVIOUS
<1>3. Append(s, e)[Len(s) + 1] = e
  OBVIOUS
<1>4. \A i \in 1..Len(s) : Append(s, e)[i] = s[i]
  OBVIOUS
<1>5. InSeq(e, Append(s, e))
  BY <1>1, <1>2, <1>3 DEF InSeq
<1> QED BY <1>1, <1>2, <1>4, <1>5 DEF InSeq

LEMMA AppType == \A p \in Conns : AppOf(p) \in Apps
BY DEF Conns, AppOf

LEMMA KeyType == \A a, d \in Apps : Key(a, d) \in Keys
BY DEF Keys

LEMMA OwnKeysType == \A a \in Apps : OwnKeys(a) \subseteq Keys
<1> SUFFICES ASSUME NEW a \in Apps, NEW d \in Depends[a] PROVE Key(a, d) \in Keys
  BY DEF OwnKeys
<1>1. d \in Apps
  OBVIOUS
<1> QED BY <1>1, KeyType

\* A list of tokens for some of the applications is a list.
LEMMA ListType ==
  ASSUME NEW S \in SUBSET Apps, NEW f \in [S -> Conns \cup {Absent}]
  PROVE  f \in Lists
<1>1. [S -> Conns \cup {Absent}] \in {[T -> Conns \cup {Absent}] : T \in SUBSET Apps}
  BY Zenon
<1> QED BY <1>1, Zenon DEF Lists

LEMMA ListElement ==
  ASSUME NEW f \in Lists
  PROVE  DOMAIN f \subseteq Apps /\ \A a \in DOMAIN f : f[a] \in Conns \cup {Absent}
<1>1. PICK S \in SUBSET Apps : f \in [S -> Conns \cup {Absent}]
  BY Zenon DEF Lists
<1> QED BY <1>1

\* What FireOnClientConnect and FireOnClientDisConnect send is one message or
\* none to each process.
LEMMA FiredType ==
  ASSUME NEW id, NEW a \in Apps, NEW given \in [Apps -> Conns \cup {Absent}],
         NEW q \in Conns
  PROVE  Fired(id, a, given)[q] \in Seq(Messages)
<1> DEFINE list == [c \in {a} |-> given[AppOf(q)]]
<1>1. list \in Lists
  <2>1. list \in [{a} -> Conns \cup {Absent}]
    BY AppType
  <2> QED BY <2>1, ListType
<1>2. Nothing \in Lists
  <2>1. Nothing \in [{} -> Conns \cup {Absent}]
    BY DEF Nothing
  <2> QED BY <2>1, ListType
<1> HIDE DEF list
<1>3. Message(Nothing, list) \in Messages
  BY <1>1, <1>2 DEF Message, Messages
<1> HIDE DEF Messages
<1>4. <<Message(Nothing, list)>> \in Seq(Messages) /\ <<>> \in Seq(Messages)
  BY <1>3
<1>5. Fired(id, a, given)[q] \in {<<Message(Nothing, list)>>, <<>>}
  BY DEF Fired, list
<1> QED BY <1>4, <1>5

LEMMA NoTokensType == NoTokens \in [Apps -> Conns \cup {Absent}]
BY DEF NoTokens

LEMMA WithType ==
  ASSUME TypeOK, NEW p \in Conns
  PROVE  /\ IdsWith(p) \in [Apps -> Conns \cup {Absent}]
         /\ TokensWith(p) \in [Keys -> Conns \cup {Absent}]
         /\ [d \in Apps |-> TokensWith(p)[Key(AppOf(p), d)]]
              \in [Apps -> Conns \cup {Absent}]
<1>1. TokensWith(p) \in [Keys -> Conns \cup {Absent}]
  BY DEF TokensWith, TypeOK
<1>2. IdsWith(p) \in [Apps -> Conns \cup {Absent}]
  BY AppType DEF IdsWith, TypeOK
<1> QED BY <1>1, <1>2, AppType, KeyType

LEMMA AnswerType ==
  ASSUME TypeOK, NEW p \in Conns
  PROVE  Answer(p) \in Messages
<1> DEFINE a == AppOf(p)
           services == [d \in Depends[a] |-> TokensWith(p)[Key(a, d)]]
           known == {x \in Provides(a) : IdsWith(p)[x] # Absent}
           clients == [c \in known |-> TokensWith(p)[ClientKey(c, a)]]
<1>1. a \in Apps /\ Depends[a] \subseteq Apps
  BY AppType
<1>2. known \subseteq Apps
  BY DEF Provides
<1>3. services \in [Depends[a] -> Conns \cup {Absent}]
  BY <1>1, KeyType, WithType
<1>4. clients \in [known -> Conns \cup {Absent}]
  BY <1>1, <1>2, KeyType, WithType DEF ClientKey
<1>5. services \in Lists
  BY <1>1, <1>3, ListType, Zenon
<1>6. clients \in Lists
  BY <1>2, <1>4, ListType, Zenon
<1>7. Answer(p) = Message(services, clients)
  BY DEF Answer
<1> HIDE DEF services, clients
<1> QED BY <1>5, <1>6, <1>7 DEF Message, Messages

-----------------------------------------------------------------------------
(* Types and tables.                                                       *)

\* While hellos are handled no peer that was taken waits to be told, and a
\* peer is registered for its own application only.
PumpOrder == round = "hellos" => pumping = <<>>

OwnApp == \A p \in Conns : peerServices[p] \in {Absent, AppOf(p)}

TablesInv == TypeOK /\ PeersAlive /\ PumpOrder /\ OwnApp

LEMMA InitTables == Init => TablesInv
<1> SUFFICES ASSUME Init PROVE TablesInv
  OBVIOUS
<1>1. alive \in BOOLEAN
  BY Zenon DEF Init
<1>2. TypeOK
  BY <1>1, NoTokensType DEF Init, TypeOK
<1>3. PeersAlive
  BY DEF Init, PeersAlive, NoTokens
<1> QED BY <1>2, <1>3 DEF Init, TablesInv, PumpOrder, OwnApp

LEMMA StepAlive == alive \in BOOLEAN /\ [Next]_vars => alive' \in BOOLEAN
BY Zenon DEF Next, Center, Hello, ConnectionEnds, Receive, PumpMonitor,
     OnCloseConnection, TakeTasks, OnValidHello, OnInvalidHello,
     OnHelloOfNobody, threadVars, vars

LEMMA HelloType ==
  ASSUME TypeOK, [Next]_vars, NEW p \in Conns, Hello(p)
  PROVE  TypeOK'
<1>1. alive' \in BOOLEAN
  BY StepAlive DEF TypeOK
<1>2. tasks' \in Seq(Conns)
  BY DEF Hello, TypeOK
<1> QED BY <1>1, <1>2
     DEF Hello, TypeOK, threadVars, tableVars, processVars

LEMMA EndsType ==
  ASSUME TypeOK, [Next]_vars, NEW p \in Conns, ConnectionEnds(p)
  PROVE  TypeOK'
<1>1. alive' \in BOOLEAN
  BY StepAlive DEF TypeOK
<1>2. closeList' \in Seq(Conns)
  BY DEF ConnectionEnds, TypeOK
<1>3. link' \in [Conns -> Seq(Messages)]
  BY DEF ConnectionEnds, TypeOK
<1> QED BY <1>1, <1>2, <1>3
     DEF ConnectionEnds, TypeOK, threadVars, tableVars, processVars

LEMMA ReceiveType ==
  ASSUME TypeOK, [Next]_vars, NEW p \in Conns, Receive(p)
  PROVE  TypeOK'
<1>1. alive' \in BOOLEAN
  BY StepAlive DEF TypeOK
<1>2. link[p] \in Seq(Messages) /\ link[p] # <<>>
  BY DEF Receive, TypeOK
<1>3. Head(link[p]) \in Messages /\ Tail(link[p]) \in Seq(Messages)
  BY <1>2, ElementType, Zenon
<1>4. Head(link[p]).services \in Lists /\ Head(link[p]).clients \in Lists
  BY <1>3 DEF Messages
<1>5. link' \in [Conns -> Seq(Messages)]
  BY <1>3 DEF Receive, TypeOK
<1>6. [d \in Apps |-> IF d \in DOMAIN Head(link[p]).services
                      THEN Head(link[p]).services[d] ELSE held[p][d]]
        \in [Apps -> Conns \cup {Absent}]
  BY <1>4, ListElement DEF TypeOK
<1>7. [c \in Apps |-> IF c \in DOMAIN Head(link[p]).clients
                      THEN Head(link[p]).clients[c] ELSE sessions[p][c]]
        \in [Apps -> Conns \cup {Absent}]
  BY <1>4, ListElement DEF TypeOK
<1>8. held' \in [Conns -> [Apps -> Conns \cup {Absent}]]
  BY <1>6 DEF Receive, TypeOK
<1>9. sessions' \in [Conns -> [Apps -> Conns \cup {Absent}]]
  BY <1>7 DEF Receive, TypeOK
<1> QED BY <1>1, <1>5, <1>8, <1>9
     DEF Receive, TypeOK, ioVars, threadVars, tableVars

\* Where both threads and tables are left alone, or only a list is taken.
LEMMA PumpType ==
  ASSUME TypeOK, [Next]_vars,
         PumpMonitor \/ TakeTasks \/ OnInvalidHello \/ OnHelloOfNobody
  PROVE  TypeOK'
<1>1. alive' \in BOOLEAN
  BY StepAlive DEF TypeOK
<1> USE <1>1 DEF TypeOK, ioVars, threadVars, tableVars, processVars
<1>2. CASE PumpMonitor
  BY <1>2 DEF PumpMonitor
<1>3. CASE TakeTasks
  BY <1>3 DEF TakeTasks
<1>4. CASE OnInvalidHello
  <2>1. Head(batch) \in Conns /\ Tail(batch) \in Seq(Conns)
    BY <1>4, ElementType DEF OnInvalidHello, NextHello
  <2> QED BY <1>4, <2>1 DEF OnInvalidHello
<1>5. CASE OnHelloOfNobody
  BY <1>5 DEF OnHelloOfNobody
<1> QED BY <1>2, <1>3, <1>4, <1>5

LEMMA CloseType ==
  ASSUME TypeOK, [Next]_vars, OnCloseConnection
  PROVE  TypeOK'
<1>1. alive' \in BOOLEAN
  BY StepAlive DEF TypeOK
<1>2. Head(pumping) \in Conns /\ Tail(pumping) \in Seq(Conns)
  BY ElementType DEF OnCloseConnection, TypeOK
<1> DEFINE p == Head(pumping)
           a == peerServices[p]
<1>3. CASE a = Absent
  BY <1>1, <1>2, <1>3
  DEF OnCloseConnection, TypeOK, ioVars, tableVars, processVars
<1>4. CASE a # Absent
  <2>1. a \in Apps
    BY <1>2, <1>4 DEF TypeOK
  <2>2. \A q \in Conns : Farewell(a)[q] \in Seq(Messages)
    BY <2>1, FiredType, NoTokensType DEF Farewell
  <2>3. \A q \in Conns : link[q] \o Farewell(a)[q] \in Seq(Messages)
    BY <2>2 DEF TypeOK
  <2>4. link' = [q \in Conns |-> link[q] \o Farewell(a)[q]]
    BY <1>4 DEF OnCloseConnection
  <2>5. link' \in [Conns -> Seq(Messages)]
    BY <2>3, <2>4
  <2>6. tokens' \in [Keys -> Conns \cup {Absent}]
    BY <1>4 DEF OnCloseConnection, TypeOK
  <2>7. /\ idServices' \in [Apps -> Conns \cup {Absent}]
        /\ sessionKeys' \in [Apps -> SUBSET Keys]
        /\ peerServices' \in [Conns -> Apps \cup {Absent}]
    BY <1>4, <2>1, <1>2 DEF OnCloseConnection, TypeOK, Unregistered
  <2> QED BY <1>1, <1>2, <2>5, <2>6, <2>7
       DEF OnCloseConnection, TypeOK, ioVars, processVars
<1> QED BY <1>3, <1>4

LEMMA ValidType ==
  ASSUME TypeOK, [Next]_vars, OnValidHello
  PROVE  TypeOK'
<1>1. alive' \in BOOLEAN
  BY StepAlive DEF TypeOK
<1> DEFINE p == Head(batch)
           last(q) == IF q = p THEN <<Answer(p)>> ELSE <<>>
<1>2. p \in Conns /\ Tail(batch) \in Seq(Conns)
  BY ElementType DEF OnValidHello, NextHello, TypeOK
<1>3. AppOf(p) \in Apps
  BY <1>2, AppType
<1>4. \A q \in Conns : Welcome(p)[q] \in Seq(Messages)
  BY <1>2, <1>3, FiredType, WithType DEF Welcome
<1>5. \A q \in Conns : last(q) \in Seq(Messages)
  <2>1. Answer(p) \in Messages
    BY <1>2, AnswerType
  <2> HIDE DEF p
  <2> QED BY <2>1
<1>6. link' = [q \in Conns |-> link[q] \o Welcome(p)[q] \o last(q)]
  BY DEF OnValidHello
<1> HIDE DEF last
<1>7. link' \in [Conns -> Seq(Messages)]
  <2>1. \A q \in Conns : link[q] \o Welcome(p)[q] \o last(q) \in Seq(Messages)
    BY <1>4, <1>5 DEF TypeOK
  <2> QED BY <1>6, <2>1
<1>8. tokens' \in [Keys -> Conns \cup {Absent}]
      /\ idServices' \in [Apps -> Conns \cup {Absent}]
  BY <1>2, WithType DEF OnValidHello
<1>9. sessionKeys' \in [Apps -> SUBSET Keys]
      /\ peerServices' \in [Conns -> Apps \cup {Absent}]
  BY <1>2, <1>3, OwnKeysType DEF OnValidHello, TypeOK
<1> QED BY <1>1, <1>2, <1>7, <1>8, <1>9
     DEF OnValidHello, TypeOK, ioVars, processVars

LEMMA StepType == TypeOK /\ [Next]_vars => TypeOK'
<1> SUFFICES ASSUME TypeOK, [Next]_vars PROVE TypeOK'
  OBVIOUS
<1>1. CASE UNCHANGED vars
  BY <1>1 DEF TypeOK, vars, ioVars, threadVars, tableVars, processVars
<1> QED BY <1>1, HelloType, EndsType, ReceiveType, PumpType, CloseType, ValidType
     DEF Next, Center

\* Every step but those two leaves the tables of ids alone.
LEMMA StepTables == TablesInv /\ [Next]_vars => TablesInv'
<1> SUFFICES ASSUME TablesInv, [Next]_vars PROVE TablesInv'
  OBVIOUS
<1>0. TypeOK'
  BY StepType DEF TablesInv
<1> USE <1>0 DEF TablesInv
<1>1. ASSUME NEW p \in Conns, Hello(p) PROVE TablesInv'
  BY <1>1 DEF Hello, PeersAlive, PumpOrder, OwnApp, InSeq, TypeOK,
              threadVars, tableVars, processVars
<1>2. ASSUME NEW p \in Conns, ConnectionEnds(p) PROVE TablesInv'
  <2>1. InSeq(p, closeList') /\ \A x : InSeq(x, closeList) => InSeq(x, closeList')
    BY <1>2, InAppend DEF ConnectionEnds, TypeOK
  <2>2. PeersAlive'
    BY <1>2, <2>1 DEF ConnectionEnds, PeersAlive, TypeOK, threadVars, tableVars
  <2> QED BY <1>2, <2>2
       DEF ConnectionEnds, PumpOrder, OwnApp, threadVars, tableVars
<1>3. ASSUME NEW p \in Conns, Receive(p) PROVE TablesInv'
  BY <1>3 DEF Receive, PeersAlive, PumpOrder, OwnApp, ioVars, threadVars, tableVars
<1>4. CASE PumpMonitor
  <2>1. \A x : ~InSeq(x, pumping) /\ (InSeq(x, closeList) => InSeq(x, pumping'))
    BY <1>4 DEF PumpMonitor, PumpOrder, InSeq
  <2>2. PeersAlive'
    BY <1>4, <2>1 DEF PumpMonitor, PeersAlive, tableVars
  <2> QED BY <1>4, <2>2 DEF PumpMonitor, PumpOrder, OwnApp, tableVars
<1>5. CASE TakeTasks
  BY <1>5 DEF TakeTasks, PeersAlive, PumpOrder, OwnApp, InSeq, tableVars
<1>6. CASE OnCloseConnection
  <2> DEFINE p == Head(pumping)
             a == peerServices[p]
  <2>0. p \in Conns /\ pumping \in Seq(Conns) /\ pumping # <<>>
    BY <1>6, ElementType DEF OnCloseConnection, TypeOK
  <2>1. \A x : InSeq(x, pumping) => x = p \/ InSeq(x, pumping')
    <3> SUFFICES ASSUME NEW i \in DOMAIN pumping, i # 1
                 PROVE  \E j \in DOMAIN pumping' : pumping'[j] = pumping[i]
      BY <2>0 DEF InSeq
    <3>1. i - 1 \in DOMAIN Tail(pumping) /\ Tail(pumping)[i - 1] = pumping[i]
      BY <2>0
    <3> QED BY <1>6, <3>1 DEF OnCloseConnection
  <2>2. PeersAlive' /\ OwnApp'
    <3>1. CASE a = Absent
      BY <1>6, <2>0, <2>1, <3>1 DEF OnCloseConnection, PeersAlive, OwnApp, ioVars, tableVars
    <3>2. CASE a # Absent
      <4>0. a \in Apps
        BY <2>0, <3>2 DEF TypeOK
      <4>1. /\ idServices' = Unregistered(a)
            /\ peerServices' = [peerServices EXCEPT ![p] = Absent]
        BY <1>6, <3>2 DEF OnCloseConnection
      <4>2. conn' = conn /\ closeList' = closeList
        BY <1>6 DEF OnCloseConnection, ioVars
      <4> HIDE DEF p
      <4> QED BY <2>0, <2>1, <4>0, <4>1, <4>2 DEF PeersAlive, OwnApp, Unregistered, TypeOK
    <3> QED BY <3>1, <3>2
  <2>3. PumpOrder'
    BY <1>6 DEF OnCloseConnection, PumpOrder
  <2> QED BY <2>2, <2>3
<1>7. CASE OnValidHello
  <2> DEFINE p == Head(batch)
  <2>0. p \in Conns /\ AppOf(p) \in Apps
    BY <1>7, ElementType, AppType DEF OnValidHello, NextHello, TypeOK
  <2>1. /\ conn[p] = "open"
        /\ idServices' = [idServices EXCEPT ![AppOf(p)] = p]
        /\ peerServices' = [peerServices EXCEPT ![p] = AppOf(p)]
        /\ UNCHANGED <<conn, closeList, pumping, round>>
    BY <1>7 DEF OnValidHello, IdsWith, ioVars
  <2> HIDE DEF p
  <2> QED BY <2>0, <2>1 DEF PeersAlive, OwnApp, PumpOrder, TypeOK
<1>8. CASE OnInvalidHello \/ OnHelloOfNobody
  BY <1>8 DEF OnInvalidHello, OnHelloOfNobody, PeersAlive, PumpOrder, OwnApp,
              ioVars, tableVars
<1>9. CASE UNCHANGED vars
  BY <1>9 DEF PeersAlive, PumpOrder, OwnApp, vars, ioVars, threadVars, tableVars
<1> QED BY <1>1, <1>2, <1>3, <1>4, <1>5, <1>6, <1>7, <1>8, <1>9 DEF Next, Center

LEMMA TablesInvariant == Spec => []TablesInv
BY InitTables, StepTables, PTL DEF Spec

\* The center's variables and the processes' tokens keep their types.
THEOREM TypeCorrect == Spec => []TypeOK
<1>1. TablesInv => TypeOK
  BY DEF TablesInv
<1> QED BY <1>1, TablesInvariant, PTL

\* The TcpPeer* in the tables are those of connections whose end is not told
\* yet, and the table by application agrees with the table by peer.
THEOREM TablesCorrect == Spec => []TablesOK
<1>1. TablesInv => TablesOK
  BY DEF TablesInv, TablesOK
<1> QED BY <1>1, TablesInvariant, PTL

-----------------------------------------------------------------------------
(* Sequences of messages.                                                  *)

LEMMA OneMore ==
  ASSUME NEW S, NEW s \in Seq(S), NEW m \in S
  PROVE  /\ s \o <<m>> = Append(s, m) /\ s \o <<>> = s
         /\ DOMAIN s = 1..Len(s) /\ Len(s) \in Nat
         /\ DOMAIN Append(s, m) = 1..(Len(s) + 1)
         /\ Append(s, m)[Len(s) + 1] = m
         /\ \A i \in 1..Len(s) : Append(s, m)[i] = s[i]
<1>1. s \o <<m>> = Append(s, m) /\ s \o <<>> = s
  OBVIOUS
<1>2. DOMAIN s = 1..Len(s) /\ Len(s) \in Nat
  OBVIOUS
<1>3. DOMAIN Append(s, m) = 1..(Len(s) + 1)
  OBVIOUS
<1>4. Append(s, m)[Len(s) + 1] = m
  OBVIOUS
<1>5. \A i \in 1..Len(s) : Append(s, m)[i] = s[i]
  OBVIOUS
<1> QED BY <1>1, <1>2, <1>3, <1>4, <1>5

LEMMA Shorter ==
  ASSUME NEW S, NEW s \in Seq(S), s # <<>>
  PROVE  /\ Len(s) \in Nat \ {0} /\ DOMAIN s = 1..Len(s) /\ Head(s) = s[1]
         /\ DOMAIN Tail(s) = 1..(Len(s) - 1)
         /\ \A i \in 1..(Len(s) - 1) : Tail(s)[i] = s[i + 1]
<1>1. Len(s) \in Nat \ {0} /\ DOMAIN s = 1..Len(s) /\ Head(s) = s[1]
  OBVIOUS
<1>2. DOMAIN Tail(s) = 1..(Len(s) - 1)
  BY <1>1
<1>3. \A i \in 1..(Len(s) - 1) : Tail(s)[i] = s[i + 1]
  BY <1>1
<1> QED BY <1>1, <1>2, <1>3

\* The last message that mentions a client decides.
LEMMA AcceptsMore ==
  ASSUME NEW s \in Seq(Messages), NEW m \in Messages, NEW c, NEW given, NEW token
  PROVE  /\ c \in DOMAIN m.clients /\ m.clients[c] = token
              => Accepts(s \o <<m>>, given, c, token)
         /\ c \notin DOMAIN m.clients /\ Accepts(s, given, c, token)
              => Accepts(s \o <<m>>, given, c, token)
<1> DEFINE n == Len(s)
           t == Append(s, m)
<1> HIDE DEF Messages
<1>1. /\ s \o <<m>> = t /\ DOMAIN s = 1..n /\ n \in Nat
      /\ DOMAIN t = 1..(n + 1) /\ t[n + 1] = m
      /\ \A i \in 1..n : t[i] = s[i]
  BY OneMore
<1> HIDE DEF n, t
<1>2. ASSUME c \in DOMAIN m.clients, m.clients[c] = token
      PROVE  Accepts(t, given, c, token)
  <2>1. n + 1 \in Mentions(t, c)
    BY <1>1, <1>2 DEF Mentions
  <2>2. \A j \in Mentions(t, c) : j <= n + 1
    BY <1>1 DEF Mentions
  <2> QED BY <1>1, <1>2, <2>1, <2>2 DEF Accepts
<1>3. ASSUME c \notin DOMAIN m.clients, Accepts(s, given, c, token)
      PROVE  Accepts(t, given, c, token)
  <2>1. Mentions(t, c) = Mentions(s, c)
    BY <1>1, <1>3 DEF Mentions
  <2>2. \A i \in Mentions(s, c) : t[i] = s[i]
    BY <1>1 DEF Mentions
  <2> QED BY <1>3, <2>1, <2>2 DEF Accepts
<1> QED BY <1>1, <1>2, <1>3

\* To handle a message changes nothing of what will be accepted.
LEMMA AcceptsLess ==
  ASSUME NEW s \in Seq(Messages), s # <<>>, NEW c, NEW given, NEW token,
         Accepts(s, given, c, token)
  PROVE  Accepts(Tail(s),
                 IF c \in DOMAIN Head(s).clients THEN Head(s).clients[c] ELSE given,
                 c, token)
<1> DEFINE n == Len(s)
           t == Tail(s)
           now == IF c \in DOMAIN Head(s).clients THEN Head(s).clients[c] ELSE given
<1> HIDE DEF Messages
<1>1. /\ n \in Nat \ {0} /\ DOMAIN s = 1..n /\ Head(s) = s[1]
      /\ DOMAIN t = 1..(n - 1) /\ \A i \in 1..(n - 1) : t[i] = s[i + 1]
  BY Shorter
<1> HIDE DEF n, t, now
<1>2. \A i \in Mentions(t, c) : i \in Nat /\ i + 1 \in Mentions(s, c) /\ t[i] = s[i + 1]
  BY <1>1 DEF Mentions
<1>3. \A i \in Mentions(s, c) : i # 1 => i \in Nat /\ i - 1 \in Mentions(t, c)
                                         /\ t[i - 1] = s[i]
  BY <1>1 DEF Mentions
<1>4. CASE Mentions(t, c) = {}
  <2>1. Mentions(s, c) \subseteq {1}
    BY <1>3, <1>4
  <2>2. c \in DOMAIN Head(s).clients <=> 1 \in Mentions(s, c)
    BY <1>1 DEF Mentions
  <2>3. CASE Mentions(s, c) = {}
    <3>1. given = token /\ now = given
      BY <2>2, <2>3 DEF Accepts, now
    <3> QED BY <1>4, <3>1 DEF Accepts, t, now
  <2>4. CASE 1 \in Mentions(s, c)
    <3>1. PICK i \in Mentions(s, c) : s[i].clients[c] = token
      BY <2>4 DEF Accepts
    <3>2. s[1].clients[c] = token
      BY <2>1, <3>1
    <3>3. now = token
      BY <1>1, <2>2, <2>4, <3>2 DEF now
    <3> QED BY <1>4, <3>3 DEF Accepts, t, now
  <2> QED BY <2>1, <2>3, <2>4
<1>5. CASE Mentions(t, c) # {}
  <2>1. PICK i \in Mentions(s, c) :
          (\A j \in Mentions(s, c) : j <= i) /\ s[i].clients[c] = token
    BY <1>2, <1>5 DEF Accepts
  <2>2. i # 1 /\ i \in Nat
    <3>1. PICK j \in Mentions(t, c) : TRUE
      BY <1>5
    <3>2. j \in Nat /\ j + 1 \in Mentions(s, c) /\ j + 1 # 1
      BY <1>1, <1>2 DEF Mentions
    <3>3. i \in 1..n
      BY <1>1 DEF Mentions
    <3> QED BY <1>1, <2>1, <3>2, <3>3
  <2>3. i - 1 \in Mentions(t, c) /\ t[i - 1] = s[i]
    BY <1>3, <2>2
  <2>4. \A j \in Mentions(t, c) : j <= i - 1
    BY <1>2, <2>1, <2>2
  <2> QED BY <1>5, <2>1, <2>3, <2>4 DEF Accepts, t, now
<1> QED BY <1>4, <1>5

-----------------------------------------------------------------------------
(* Tokens.  They agree where the keys of an application for the servers it *)
(* depends on are no other application's, which the shift in 32 bits does  *)
(* not give.                                                               *)

KeysDistinct == \A a, b \in Apps : a # b => OwnKeys(a) \cap OwnKeys(b) = {}

LEMMA Remainder ==
  ASSUME NEW m \in Nat \ {0}, NEW k \in Nat, NEW r \in Nat, r < m
  PROVE  (k * m + r) % m = r
OBVIOUS

\* Of an id only the lowest bit is left in a key.
LEMMA KeyIs ==
  ASSUME Word % 2 = 0, NEW a \in Apps, NEW d \in Apps
  PROVE  Key(a, d) = (a % 2) * (Word \div 2) + d
<1> DEFINE h == Word \div 2
           k == a \div 2
<1>1. a \in Nat /\ d \in Nat /\ h \in Nat \ {0} /\ Word = 2 * h
  BY IdsAssumption
<1>2. k \in Nat /\ a % 2 \in {0, 1} /\ a = 2 * k + (a % 2)
  BY <1>1
<1> HIDE DEF h, k
<1>3. (k * Word + (a % 2) * h) % Word = (a % 2) * h
  <2>1. (a % 2) * h \in Nat /\ (a % 2) * h < Word
    BY <1>1, <1>2
  <2> QED BY <1>1, <1>2, <2>1, Remainder
<1>4. a * h = k * Word + (a % 2) * h
  <2>1. \A r \in {0, 1} : (2 * k + r) * h = k * (2 * h) + r * h
    BY <1>1, <1>2
  <2> QED BY <1>1, <1>2, <2>1
<1> QED BY <1>3, <1>4 DEF Key, h

\* What the shift by 31 in 32 bits leaves of a table with an entry for each
\* client of each server: the keys are distinct exactly when no server has
\* two clients whose ids are both even or both odd.
THEOREM KeysCorrect ==
  ASSUME Word % 2 = 0
  PROVE  KeysDistinct <=>
           \A a, b \in Apps :
             a # b /\ Depends[a] \cap Depends[b] # {} => a % 2 # b % 2
<1> DEFINE h == Word \div 2
<1>1. h \in Nat \ {0} /\ \A a \in Apps : a \in Nat /\ a < h /\ a % 2 \in {0, 1}
  BY IdsAssumption
<1>2. \A a, d \in Apps : Key(a, d) = (a % 2) * h + d
  BY KeyIs
<1> HIDE DEF h
<1>3. ASSUME NEW a \in Apps, NEW b \in Apps, NEW d \in Apps, NEW e \in Apps
      PROVE  Key(a, d) = Key(b, e) <=> a % 2 = b % 2 /\ d = e
  <2>1. /\ d \in Nat /\ e \in Nat /\ d < h /\ e < h
        /\ a % 2 \in {0, 1} /\ b % 2 \in {0, 1}
    BY <1>1
  <2>2. \A r, s \in {0, 1} : r * h + d = s * h + e <=> r = s /\ d = e
    BY <1>1, <2>1
  <2>3. Key(a, d) = (a % 2) * h + d /\ Key(b, e) = (b % 2) * h + e
    BY <1>2
  <2> QED BY <2>1, <2>2, <2>3
<1>4. ASSUME NEW a \in Apps, NEW b \in Apps
      PROVE  OwnKeys(a) \cap OwnKeys(b) = {} <=>
               (Depends[a] \cap Depends[b] # {} => a % 2 # b % 2)
  <2>1. Depends[a] \subseteq Apps /\ Depends[b] \subseteq Apps
    BY ProcessAssumption
  <2>2. \A d \in Depends[a], e \in Depends[b] :
          Key(a, d) = Key(b, e) <=> a % 2 = b % 2 /\ d = e
    BY <1>3, <2>1
  <2>3. ASSUME NEW key \in OwnKeys(a), key \in OwnKeys(b)
        PROVE  Depends[a] \cap Depends[b] # {} /\ a % 2 = b % 2
    <3>1. PICK d \in Depends[a] : key = Key(a, d)
      BY DEF OwnKeys
    <3>2. PICK e \in Depends[b] : key = Key(b, e)
      BY <2>3 DEF OwnKeys
    <3> QED BY <2>2, <3>1, <3>2
  <2>4. ASSUME NEW d \in Depends[a], d \in Depends[b], a % 2 = b % 2
        PROVE  OwnKeys(a) \cap OwnKeys(b) # {}
    <3>1. Key(a, d) = Key(b, d)
      BY <2>2, <2>4
    <3>2. Key(a, d) \in OwnKeys(a) /\ Key(b, d) \in OwnKeys(b)
      BY <2>4 DEF OwnKeys
    <3> QED BY <3>1, <3>2
  <2> QED BY <2>3, <2>4
<1> QED BY <1>4 DEF KeysDistinct

\* A connection says hello once.
Queued(q) == InSeq(q, tasks) \/ InSeq(q, batch)

QueuedOnce ==
  /\ \A i, j \in DOMAIN tasks : tasks[i] = tasks[j] => i = j
  /\ \A i, j \in DOMAIN batch : batch[i] = batch[j] => i = j
  /\ \A q \in Conns : ~(InSeq(q, tasks) /\ InSeq(q, batch))
  /\ \A q \in Conns : Queued(q) => conn[q] # "none"
  /\ round = "closes" => batch = <<>>

\* Until its hello is handled nothing is sent to it or known of it.
Fresh ==
  \A q \in Conns : conn[q] = "none" \/ Queued(q) =>
    link[q] = <<>> /\ sessions[q] = NoTokens /\ peerServices[q] = Absent

\* What the monitor tells has happened.
ToldOfClosed ==
  \A q \in Conns : InSeq(q, closeList) \/ InSeq(q, pumping) => conn[q] = "closed"

HelloInv == TablesInv /\ QueuedOnce /\ Fresh /\ ToldOfClosed

\* The token of an application for another is that of its registered peer.
TokensOfIds ==
  /\ \A a \in Apps : sessionKeys[a] \subseteq OwnKeys(a)
  /\ \A a \in Apps : idServices[a] # Absent =>
       \A d \in Depends[a] : tokens[Key(a, d)] = idServices[a]

\* A process is sent its own tokens.
OwnServices ==
  \A p \in Conns : \A i \in DOMAIN link[p] : \A d \in DOMAIN link[p][i].services :
    link[p][i].services[d] = p

AgreeInv == HelloInv /\ TokensOfIds /\ OwnServices /\ TokensAgree

LEMMA InTail ==
  ASSUME NEW S, NEW s \in Seq(S), s # <<>>
  PROVE  /\ \A x : InSeq(x, Tail(s)) => InSeq(x, s)
         /\ InSeq(Head(s), s)
         /\ (\A i, j \in DOMAIN s : s[i] = s[j] => i = j) =>
              /\ \A i, j \in DOMAIN Tail(s) : Tail(s)[i] = Tail(s)[j] => i = j
              /\ ~InSeq(Head(s), Tail(s))
<1> DEFINE n == Len(s)
           t == Tail(s)
<1>1. /\ n \in Nat \ {0} /\ DOMAIN s = 1..n /\ Head(s) = s[1]
      /\ DOMAIN t = 1..(n - 1) /\ \A i \in 1..(n - 1) : t[i] = s[i + 1]
  BY Shorter
<1> HIDE DEF n, t
<1>2. \A i \in 1..(n - 1) : i + 1 \in 1..n /\ i + 1 # 1
  BY <1>1
<1>3. (\A x : InSeq(x, t) => InSeq(x, s)) /\ InSeq(Head(s), s)
  <2>1. InSeq(Head(s), s)
    BY <1>1 DEF InSeq
  <2>2. ASSUME NEW i \in DOMAIN t PROVE InSeq(t[i], s)
    BY <1>1, <1>2 DEF InSeq
  <2> QED BY <2>1, <2>2 DEF InSeq
<1>4. ASSUME \A i, j \in DOMAIN s : s[i] = s[j] => i = j
      PROVE  /\ \A i, j \in DOMAIN t : t[i] = t[j] => i = j
             /\ ~InSeq(Head(s), t)
  <2>1. ASSUME NEW i \in DOMAIN t, NEW j \in DOMAIN t, t[i] = t[j]
        PROVE  i = j
    <3>1. i + 1 = j + 1
      <4>1. i + 1 \in DOMAIN s /\ j + 1 \in DOMAIN s
        BY <1>1, <1>2
      <4>2. s[i + 1] = s[j + 1]
        BY <1>1, <2>1
      <4> QED BY <1>4, <4>1, <4>2
    <3> QED BY <1>1, <3>1
  <2>2. ASSUME NEW i \in DOMAIN t, t[i] = Head(s)
        PROVE  FALSE
    BY <1>1, <1>2, <1>4, <2>2
  <2> QED BY <2>1, <2>2 DEF InSeq
<1> QED BY <1>3, <1>4 DEF t

LEMMA OnceAppend ==
  ASSUME NEW S, NEW s \in Seq(S), NEW e \in S, ~InSeq(e, s),
         \A i, j \in DOMAIN s : s[i] = s[j] => i = j
  PROVE  /\ \A i, j \in DOMAIN Append(s, e) :
              Append(s, e)[i] = Append(s, e)[j] => i = j
         /\ \A x : InSeq(x, Append(s, e)) => x = e \/ InSeq(x, s)
<1> DEFINE n == Len(s)
           t == Append(s, e)
<1>1. /\ DOMAIN s = 1..n /\ n \in Nat
      /\ DOMAIN t = 1..(n + 1) /\ t[n + 1] = e
      /\ \A i \in 1..n : t[i] = s[i]
  BY OneMore
<1> HIDE DEF n, t
<1>2. \A i \in 1..(n + 1) : i \in 1..n \/ i = n + 1
  BY <1>1
<1>3. \A i \in 1..n : t[i] # e
  BY <1>1 DEF InSeq
<1>4. \A i, j \in DOMAIN t : t[i] = t[j] => i = j
  BY <1>1, <1>2, <1>3
<1>5. \A x : InSeq(x, t) => x = e \/ InSeq(x, s)
  BY <1>1, <1>2 DEF InSeq
<1> QED BY <1>4, <1>5 DEF t

LEMMA RegisteredIsKnown ==
  ASSUME HelloInv, NEW q \in Conns, idServices[AppOf(q)] = q
  PROVE  peerServices[q] = AppOf(q) /\ peerServices[q] # Absent
         /\ conn[q] # "none" /\ ~Queued(q)
<1>1. peerServices[q] = AppOf(q)
  BY AppType DEF HelloInv, TablesInv, PeersAlive
<1> QED BY <1>1, AppType DEF HelloInv, Fresh

LEMMA InitHello == Init => HelloInv
<1> SUFFICES ASSUME Init PROVE HelloInv
  OBVIOUS
<1>1. \A x : ~InSeq(x, tasks) /\ ~InSeq(x, batch) /\ ~InSeq(x, closeList)
             /\ ~InSeq(x, pumping)
  BY DEF Init, InSeq
<1>2. QueuedOnce
  BY <1>1 DEF Init, QueuedOnce, Queued
<1>3. Fresh
  BY DEF Init, Fresh
<1> QED BY <1>1, <1>2, <1>3, InitTables DEF HelloInv, ToldOfClosed

LEMMA HelloHello ==
  ASSUME HelloInv, NEW p \in Conns, Hello(p)
  PROVE  QueuedOnce' /\ Fresh' /\ ToldOfClosed'
<1>1. /\ conn[p] = "none" /\ conn \in [Conns -> {"none", "open", "closed"}]
      /\ tasks \in Seq(Conns) /\ tasks' = Append(tasks, p)
      /\ conn' = [conn EXCEPT ![p] = "open"]
      /\ UNCHANGED <<closeList, pumping, batch, round, link, sessions, peerServices>>
  BY DEF HelloInv, TablesInv, TypeOK, Hello, threadVars, tableVars, processVars
<1>2. ~InSeq(p, tasks) /\ ~InSeq(p, batch)
  BY <1>1 DEF HelloInv, QueuedOnce, Queued
<1>3. /\ \A i, j \in DOMAIN tasks' : tasks'[i] = tasks'[j] => i = j
      /\ \A x : InSeq(x, tasks') => x = p \/ InSeq(x, tasks)
  BY <1>1, <1>2, OnceAppend DEF HelloInv, QueuedOnce
<1>4. \A x : InSeq(x, batch') <=> InSeq(x, batch)
  BY <1>1
<1>5. \A x : (InSeq(x, closeList') <=> InSeq(x, closeList))
             /\ (InSeq(x, pumping') <=> InSeq(x, pumping))
  BY <1>1
<1>6. QueuedOnce'
  BY <1>1, <1>2, <1>3, <1>4 DEF HelloInv, QueuedOnce, Queued
<1>7. Fresh'
  BY <1>1, <1>3, <1>4 DEF HelloInv, Fresh, Queued
<1>8. ToldOfClosed'
  BY <1>1, <1>5 DEF HelloInv, ToldOfClosed
<1> QED BY <1>6, <1>7, <1>8

LEMMA HelloEnds ==
  ASSUME HelloInv, NEW p \in Conns, ConnectionEnds(p)
  PROVE  QueuedOnce' /\ Fresh' /\ ToldOfClosed'
<1>1. /\ conn[p] = "open" /\ conn \in [Conns -> {"none", "open", "closed"}]
      /\ closeList \in Seq(Conns) /\ closeList' = Append(closeList, p)
      /\ conn' = [conn EXCEPT ![p] = "closed"]
      /\ link \in [Conns -> Seq(Messages)] /\ link' = [link EXCEPT ![p] = <<>>]
      /\ UNCHANGED <<tasks, pumping, batch, round, sessions, peerServices>>
  BY DEF HelloInv, TablesInv, TypeOK, ConnectionEnds, threadVars, tableVars, processVars
<1>2. \A x : (InSeq(x, tasks') <=> InSeq(x, tasks))
             /\ (InSeq(x, batch') <=> InSeq(x, batch))
             /\ (InSeq(x, pumping') <=> InSeq(x, pumping))
  BY <1>1
<1>3. ~InSeq(p, closeList)
  BY <1>1 DEF HelloInv, ToldOfClosed
<1>4. \A x : InSeq(x, closeList') => x = p \/ InSeq(x, closeList)
  <2>1. DOMAIN closeList' = 1..(Len(closeList) + 1)
        /\ DOMAIN closeList = 1..Len(closeList) /\ Len(closeList) \in Nat
        /\ closeList'[Len(closeList) + 1] = p
        /\ \A i \in 1..Len(closeList) : closeList'[i] = closeList[i]
    BY <1>1, OneMore
  <2>2. \A i \in DOMAIN closeList' : i = Len(closeList) + 1 \/ i \in 1..Len(closeList)
    BY <2>1
  <2> QED BY <2>1, <2>2 DEF InSeq
<1>5. QueuedOnce'
  BY <1>1, <1>2 DEF HelloInv, QueuedOnce, Queued
<1>6. Fresh'
  BY <1>1, <1>2 DEF HelloInv, Fresh, Queued
<1>7. ToldOfClosed'
  BY <1>1, <1>2, <1>4 DEF HelloInv, ToldOfClosed
<1> QED BY <1>5, <1>6, <1>7

\* What leaves the lists as they are, or takes the whole of one.
LEMMA HelloLists ==
  ASSUME HelloInv,
         PumpMonitor \/ TakeTasks \/ OnHelloOfNobody \/ UNCHANGED vars
  PROVE  QueuedOnce' /\ Fresh' /\ ToldOfClosed'
<1> USE DEF HelloInv
<1>1. \A x : ~InSeq(x, <<>>)
  BY DEF InSeq
<1>2. CASE PumpMonitor
  <2>1. /\ pumping' = closeList /\ closeList' = <<>> /\ batch = <<>>
        /\ UNCHANGED <<conn, tasks, batch, link, sessions, peerServices>>
    BY <1>2 DEF PumpMonitor, tableVars, processVars
  <2>2. QueuedOnce' /\ Fresh'
    BY <2>1 DEF QueuedOnce, Fresh, Queued, InSeq
  <2>3. ToldOfClosed'
    BY <1>1, <2>1 DEF ToldOfClosed
  <2> QED BY <2>2, <2>3
<1>3. CASE TakeTasks
  <2>1. /\ batch' = tasks /\ tasks' = <<>> /\ round' = "hellos"
        /\ UNCHANGED <<conn, closeList, pumping, link, sessions, peerServices>>
    BY <1>3 DEF TakeTasks, tableVars, processVars
  <2>2. QueuedOnce'
    BY <1>1, <2>1 DEF QueuedOnce, Queued
  <2>3. Fresh'
    BY <1>1, <2>1 DEF Fresh, Queued
  <2>4. ToldOfClosed'
    BY <2>1 DEF ToldOfClosed, InSeq
  <2> QED BY <2>2, <2>3, <2>4
<1>4. CASE OnHelloOfNobody \/ UNCHANGED vars
  <2>1. UNCHANGED <<conn, tasks, closeList, pumping, batch, round, link, sessions,
                    peerServices>>
    BY <1>4 DEF OnHelloOfNobody, vars, ioVars, threadVars, tableVars, processVars
  <2> QED BY <2>1 DEF QueuedOnce, Fresh, ToldOfClosed, Queued, InSeq
<1> QED BY <1>2, <1>3, <1>4

LEMMA HelloReceive ==
  ASSUME HelloInv, NEW p \in Conns, Receive(p)
  PROVE  QueuedOnce' /\ Fresh' /\ ToldOfClosed'
<1>1. /\ link[p] # <<>>
      /\ UNCHANGED <<conn, tasks, closeList, pumping, batch, round, peerServices>>
  BY DEF Receive, ioVars, threadVars, tableVars
<1>2. QueuedOnce' /\ ToldOfClosed'
  BY <1>1 DEF HelloInv, QueuedOnce, ToldOfClosed, Queued, InSeq
<1>3. \A q \in Conns : q # p => link'[q] = link[q] /\ sessions'[q] = sessions[q]
  BY DEF Receive, HelloInv, TablesInv, TypeOK
<1>4. Fresh'
  <2> SUFFICES ASSUME NEW q \in Conns, conn[q] = "none" \/ Queued(q)
               PROVE  link'[q] = <<>> /\ sessions'[q] = NoTokens
                      /\ peerServices[q] = Absent
    BY <1>1 DEF Fresh, Queued, InSeq, NoTokens
  <2>1. link[q] = <<>> /\ sessions[q] = NoTokens /\ peerServices[q] = Absent
    BY DEF HelloInv, Fresh
  <2> QED BY <1>1, <1>3, <2>1
<1> QED BY <1>2, <1>4

\* Only registered peers are told.
LEMMA FiredTo ==
  ASSUME NEW id, NEW a \in Apps, NEW given, NEW q \in Conns
  PROVE  IF AppOf(q) \in Depends[a] /\ id[AppOf(q)] = q /\ conn[q] = "open"
         THEN Fired(id, a, given)[q] =
                <<Message(Nothing, [c \in {a} |-> given[AppOf(q)]])>>
         ELSE Fired(id, a, given)[q] = <<>>
BY DEF Fired

\* A hello that was taken is not queued again.
LEMMA BatchShrinks ==
  ASSUME HelloInv, batch # <<>>, batch' = Tail(batch), tasks' = tasks,
         conn' = conn, round' = round, round = "hellos"
  PROVE  /\ QueuedOnce' /\ Head(batch) \in Conns /\ Queued(Head(batch))
         /\ \A q : Queued(q)' => Queued(q) /\ q # Head(batch)
<1>1. batch \in Seq(Conns) /\ \A i, j \in DOMAIN batch : batch[i] = batch[j] => i = j
  BY DEF HelloInv, TablesInv, TypeOK, QueuedOnce
<1>2. /\ \A x : InSeq(x, batch') => InSeq(x, batch)
      /\ InSeq(Head(batch), batch) /\ ~InSeq(Head(batch), batch')
      /\ \A i, j \in DOMAIN batch' : batch'[i] = batch'[j] => i = j
  BY <1>1, InTail
<1>3. \A x : InSeq(x, tasks') <=> InSeq(x, tasks)
  OBVIOUS
<1>4. Head(batch) \in Conns
  BY <1>1, ElementType
<1>5. ~InSeq(Head(batch), tasks)
  BY <1>2, <1>4 DEF HelloInv, QueuedOnce
<1>6. QueuedOnce'
  BY <1>2, <1>3 DEF HelloInv, QueuedOnce, Queued
<1> QED BY <1>2, <1>3, <1>4, <1>5, <1>6 DEF Queued

LEMMA HelloInvalid ==
  ASSUME HelloInv, OnInvalidHello
  PROVE  QueuedOnce' /\ Fresh' /\ ToldOfClosed'
<1>1. /\ batch # <<>> /\ batch' = Tail(batch) /\ round = "hellos"
      /\ UNCHANGED <<conn, tasks, closeList, pumping, round, link, sessions,
                      peerServices>>
  BY DEF OnInvalidHello, NextHello, tableVars, processVars
<1>2. QueuedOnce' /\ \A q : Queued(q)' => Queued(q)
  BY <1>1, BatchShrinks
<1>3. Fresh'
  BY <1>1, <1>2 DEF HelloInv, Fresh
<1>4. ToldOfClosed'
  BY <1>1 DEF HelloInv, ToldOfClosed, InSeq
<1> QED BY <1>2, <1>3, <1>4

LEMMA HelloClose ==
  ASSUME HelloInv, OnCloseConnection
  PROVE  QueuedOnce' /\ Fresh' /\ ToldOfClosed'
<1> DEFINE p == Head(pumping)
           a == peerServices[p]
<1>1. /\ pumping # <<>> /\ pumping' = Tail(pumping) /\ pumping \in Seq(Conns)
      /\ UNCHANGED <<conn, tasks, closeList, batch, round, sessions>>
  BY DEF HelloInv, TablesInv, TypeOK, OnCloseConnection, ioVars, processVars
<1>2. p \in Conns /\ \A x : InSeq(x, pumping') => InSeq(x, pumping)
  BY <1>1, InTail, ElementType
<1>3. QueuedOnce' /\ \A q : Queued(q)' <=> Queued(q)
  BY <1>1 DEF HelloInv, QueuedOnce, Queued, InSeq
<1>4. ToldOfClosed'
  <2>1. \A x : InSeq(x, closeList') <=> InSeq(x, closeList)
    BY <1>1
  <2> QED BY <1>1, <1>2, <2>1 DEF HelloInv, ToldOfClosed
<1>5. Fresh'
  <2>1. CASE a = Absent
    <3>1. UNCHANGED <<link, peerServices>>
      BY <2>1 DEF OnCloseConnection, tableVars
    <3> QED BY <1>1, <1>3, <3>1 DEF HelloInv, Fresh, NoTokens
  <2>2. CASE a # Absent
    <3>1. /\ link' = [q \in Conns |-> link[q] \o Farewell(a)[q]]
          /\ peerServices' = [peerServices EXCEPT ![p] = Absent]
      BY <2>2 DEF OnCloseConnection
    <3>2. peerServices \in [Conns -> Apps \cup {Absent}]
      BY DEF HelloInv, TablesInv, TypeOK
    <3>3. a \in Apps
      BY <1>2, <2>2, <3>2
    <3> HIDE DEF a, p
    <3> SUFFICES ASSUME NEW q \in Conns, conn[q] = "none" \/ Queued(q)
                 PROVE  link'[q] = <<>> /\ sessions[q] = NoTokens
                        /\ peerServices'[q] = Absent
      BY <1>1, <1>3 DEF Fresh, NoTokens
    <3>4. link[q] = <<>> /\ sessions[q] = NoTokens /\ peerServices[q] = Absent
      BY DEF HelloInv, Fresh
    <3>5. idServices[AppOf(q)] # q
      BY RegisteredIsKnown
    <3>6. Farewell(a)[q] = <<>>
      BY <3>3, <3>5, FiredTo DEF Farewell
    <3> QED BY <1>2, <3>1, <3>2, <3>4, <3>6
  <2> QED BY <2>1, <2>2
<1> QED BY <1>3, <1>4, <1>5

LEMMA HelloValid ==
  ASSUME HelloInv, OnValidHello
  PROVE  QueuedOnce' /\ Fresh' /\ ToldOfClosed'
<1> DEFINE p == Head(batch)
           last(q) == IF q = p THEN <<Answer(p)>> ELSE <<>>
<1>1. /\ batch # <<>> /\ batch' = Tail(batch) /\ round = "hellos" /\ conn[p] = "open"
      /\ UNCHANGED <<conn, tasks, closeList, pumping, round, sessions>>
  BY DEF OnValidHello, NextHello, ioVars, processVars
<1>2. /\ QueuedOnce' /\ p \in Conns
      /\ \A q : Queued(q)' => Queued(q) /\ q # p
  BY <1>1, BatchShrinks
<1>3. ToldOfClosed'
  BY <1>1 DEF HelloInv, ToldOfClosed, InSeq
<1>4. /\ link' = [q \in Conns |-> link[q] \o Welcome(p)[q] \o last(q)]
      /\ peerServices' = [peerServices EXCEPT ![p] = AppOf(p)]
      /\ peerServices \in [Conns -> Apps \cup {Absent}]
      /\ idServices \in [Apps -> Conns \cup {Absent}]
  BY DEF OnValidHello, HelloInv, TablesInv, TypeOK
<1>5. AppOf(p) \in Apps
  BY <1>2, AppType
<1> HIDE DEF p
<1>6. Fresh'
  <2> SUFFICES ASSUME NEW q \in Conns, conn[q] = "none" \/ Queued(q)'
               PROVE  link'[q] = <<>> /\ sessions[q] = NoTokens
                      /\ peerServices'[q] = Absent
    BY <1>1 DEF Fresh, NoTokens
  <2>1. q # p
    BY <1>1, <1>2
  <2>2. conn[q] = "none" \/ Queued(q)
    BY <1>2
  <2>3. link[q] = <<>> /\ sessions[q] = NoTokens /\ peerServices[q] = Absent
    BY <2>2 DEF HelloInv, Fresh
  <2>4. idServices[AppOf(q)] # q
    BY <2>2, RegisteredIsKnown
  <2>5. IdsWith(p)[AppOf(q)] # q
    BY <1>4, <1>5, <2>1, <2>4, AppType DEF IdsWith
  <2>6. Welcome(p)[q] = <<>>
    BY <1>5, <2>5, FiredTo DEF Welcome
  <2>7. last(q) = <<>>
    BY <2>1
  <2> HIDE DEF last
  <2>8. link'[q] = link[q] \o Welcome(p)[q] \o last(q)
    BY <1>4
  <2> QED BY <1>4, <2>1, <2>3, <2>6, <2>7, <2>8
<1> QED BY <1>2, <1>3, <1>6

LEMMA StepHello == HelloInv /\ [Next]_vars => HelloInv'
<1>1. HelloInv /\ [Next]_vars => TablesInv'
  BY StepTables DEF HelloInv
<1>2. HelloInv /\ [Next]_vars => QueuedOnce' /\ Fresh' /\ ToldOfClosed'
  BY HelloHello, HelloEnds, HelloReceive, HelloLists, HelloInvalid, HelloClose,
     HelloValid DEF Next, Center
<1> QED BY <1>1, <1>2 DEF HelloInv

-----------------------------------------------------------------------------
(* The tokens under the keys, and those on their way.                      *)

LEMMA OtherKeys ==
  ASSUME KeysDistinct, NEW a \in Apps, NEW b \in Apps, a # b, NEW d \in Depends[b]
  PROVE  Key(b, d) \notin OwnKeys(a) /\ Key(b, d) \in Keys
<1>1. d \in Apps
  OBVIOUS
<1>2. Key(b, d) \in OwnKeys(b) /\ Key(b, d) \in Keys
  BY <1>1, KeyType DEF OwnKeys
<1> QED BY <1>2 DEF KeysDistinct

LEMMA StepTokens ==
  ASSUME KeysDistinct, HelloInv, TokensOfIds, [Next]_vars
  PROVE  TokensOfIds'
<1>1. CASE OnCloseConnection
  <2> DEFINE p == Head(pumping)
             a == peerServices[p]
  <2>1. p \in Conns /\ a \in Apps \cup {Absent} /\ tokens \in [Keys -> Conns \cup {Absent}]
        /\ idServices \in [Apps -> Conns \cup {Absent}] /\ sessionKeys \in [Apps -> SUBSET Keys]
    BY <1>1, ElementType DEF OnCloseConnection, HelloInv, TablesInv, TypeOK
  <2>2. CASE a = Absent
    <3>1. UNCHANGED <<idServices, tokens, sessionKeys>>
      BY <1>1, <2>2 DEF OnCloseConnection, tableVars
    <3> QED BY <3>1 DEF TokensOfIds
  <2>3. CASE a # Absent
    <3>1. /\ idServices' = [idServices EXCEPT ![a] = Absent]
          /\ tokens' = [k \in Keys |->
                          IF k \in sessionKeys[a] THEN Absent ELSE tokens[k]]
          /\ sessionKeys' = [sessionKeys EXCEPT ![a] = {}]
      BY <1>1, <2>3 DEF OnCloseConnection, Unregistered
    <3>2. a \in Apps
      BY <2>1, <2>3
    <3> HIDE DEF a
    <3>3. \A b \in Apps : sessionKeys'[b] \subseteq OwnKeys(b)
      BY <2>1, <3>1, <3>2 DEF TokensOfIds
    <3>4. ASSUME NEW b \in Apps, idServices'[b] # Absent, NEW d \in Depends[b]
          PROVE  tokens'[Key(b, d)] = idServices'[b]
      <4>1. b # a /\ idServices'[b] = idServices[b]
        BY <2>1, <3>1, <3>2, <3>4
      <4>2. Key(b, d) \notin sessionKeys[a] /\ Key(b, d) \in Keys
        BY <3>2, <4>1, OtherKeys DEF TokensOfIds
      <4>3. tokens[Key(b, d)] = idServices[b]
        BY <3>4, <4>1 DEF TokensOfIds
      <4> QED BY <3>1, <4>1, <4>2, <4>3
    <3> QED BY <3>3, <3>4 DEF TokensOfIds
  <2> QED BY <2>2, <2>3
<1>2. CASE OnValidHello
  <2> DEFINE p == Head(batch)
             a == AppOf(p)
  <2>1. p \in Conns /\ tokens \in [Keys -> Conns \cup {Absent}]
        /\ idServices \in [Apps -> Conns \cup {Absent}] /\ sessionKeys \in [Apps -> SUBSET Keys]
    BY <1>2, ElementType DEF OnValidHello, NextHello, HelloInv, TablesInv, TypeOK
  <2>2. a \in Apps
    BY <2>1, AppType
  <2>3. /\ idServices' = [idServices EXCEPT ![a] = p]
        /\ tokens' = [k \in Keys |-> IF k \in OwnKeys(a) THEN p ELSE tokens[k]]
        /\ sessionKeys' = [sessionKeys EXCEPT ![a] = @ \cup OwnKeys(a)]
    BY <1>2 DEF OnValidHello, IdsWith, TokensWith
  <2> HIDE DEF p, a
  <2>4. \A b \in Apps : sessionKeys'[b] \subseteq OwnKeys(b)
    BY <2>1, <2>2, <2>3 DEF TokensOfIds
  <2>5. ASSUME NEW b \in Apps, idServices'[b] # Absent, NEW d \in Depends[b]
        PROVE  tokens'[Key(b, d)] = idServices'[b]
    <3>1. CASE b = a
      <4>1. Key(b, d) \in OwnKeys(a) /\ OwnKeys(a) \subseteq Keys
        BY <2>2, <3>1, OwnKeysType DEF OwnKeys
      <4> QED BY <2>1, <2>2, <2>3, <3>1, <4>1
    <3>2. CASE b # a
      <4>1. Key(b, d) \notin OwnKeys(a) /\ Key(b, d) \in Keys
        BY <2>2, <3>2, OtherKeys
      <4>2. idServices'[b] = idServices[b]
        BY <2>1, <2>2, <2>3, <3>2
      <4>3. tokens[Key(b, d)] = idServices[b]
        BY <2>5, <4>2 DEF TokensOfIds
      <4> QED BY <2>3, <4>1, <4>2, <4>3
    <3> QED BY <3>1, <3>2
  <2> QED BY <2>4, <2>5 DEF TokensOfIds
<1>3. CASE UNCHANGED <<idServices, tokens, sessionKeys>>
  BY <1>3 DEF TokensOfIds
<1> QED BY <1>1, <1>2, <1>3
     DEF Next, Center, Hello, ConnectionEnds, Receive, PumpMonitor, TakeTasks,
         OnInvalidHello, OnHelloOfNobody, tableVars, vars

\* A message that gives nothing for servers is anybody's.
Own(s, p) ==
  \A i \in DOMAIN s : \A d \in DOMAIN s[i].services : s[i].services[d] = p

LEMMA OwnMore ==
  ASSUME NEW p, NEW s \in Seq(Messages), Own(s, p), NEW m \in Messages,
         \A d \in DOMAIN m.services : m.services[d] = p
  PROVE  Own(s \o <<m>>, p)
<1> DEFINE n == Len(s)
           t == Append(s, m)
<1> HIDE DEF Messages
<1>1. /\ s \o <<m>> = t /\ DOMAIN s = 1..n /\ n \in Nat
      /\ DOMAIN t = 1..(n + 1) /\ t[n + 1] = m
      /\ \A i \in 1..n : t[i] = s[i]
  BY OneMore
<1> HIDE DEF n, t
<1>2. \A i \in DOMAIN t : i \in 1..n \/ i = n + 1
  BY <1>1
<1> QED BY <1>1, <1>2 DEF Own

LEMMA OwnLess ==
  ASSUME NEW p, NEW s \in Seq(Messages), s # <<>>, Own(s, p)
  PROVE  Own(Tail(s), p)
         /\ \A d \in DOMAIN Head(s).services : Head(s).services[d] = p
<1> DEFINE n == Len(s)
           t == Tail(s)
<1> HIDE DEF Messages
<1>1. /\ n \in Nat \ {0} /\ DOMAIN s = 1..n /\ Head(s) = s[1]
      /\ DOMAIN t = 1..(n - 1) /\ \A i \in 1..(n - 1) : t[i] = s[i + 1]
  BY Shorter
<1> HIDE DEF n, t
<1>2. \A i \in 1..(n - 1) : i + 1 \in 1..n
  BY <1>1
<1>3. Own(t, p)
  BY <1>1, <1>2 DEF Own
<1>4. 1 \in DOMAIN s
  BY <1>1
<1> QED BY <1>1, <1>3, <1>4 DEF Own, t

LEMMA NoticeIs ==
  ASSUME NEW a \in Apps, NEW token \in Conns \cup {Absent}
  PROVE  LET m == Message(Nothing, [c \in {a} |-> token])
         IN  /\ m \in Messages /\ DOMAIN m.clients = {a} /\ m.clients[a] = token
             /\ DOMAIN m.services = {}
<1> DEFINE list == [c \in {a} |-> token]
<1>1. list \in [{a} -> Conns \cup {Absent}] /\ DOMAIN list = {a} /\ list[a] = token
  OBVIOUS
<1>2. Nothing \in [{} -> Conns \cup {Absent}] /\ DOMAIN Nothing = {}
  BY DEF Nothing
<1> HIDE DEF list
<1>3. list \in Lists
  BY <1>1, ListType, Zenon
<1>4. Nothing \in Lists
  <2>1. {} \in SUBSET Apps
    OBVIOUS
  <2> QED BY <1>2, <2>1, ListType, Zenon
<1>5. /\ Message(Nothing, list) \in Messages
      /\ Message(Nothing, list).clients = list
      /\ Message(Nothing, list).services = Nothing
  BY <1>3, <1>4 DEF Message, Messages
<1> QED BY <1>1, <1>2, <1>5 DEF list

LEMMA FiredAccepts ==
  ASSUME NEW s \in Seq(Messages), NEW id, NEW a \in Apps, NEW q \in Conns,
         NEW given \in [Apps -> Conns \cup {Absent}], NEW c, NEW now, NEW token
  PROVE  LET t == s \o Fired(id, a, given)[q]
         IN  /\ t \in Seq(Messages)
             /\ c # a /\ Accepts(s, now, c, token) => Accepts(t, now, c, token)
             /\ c = a /\ AppOf(q) \in Depends[a] /\ id[AppOf(q)] = q
                  /\ conn[q] = "open" /\ token = given[AppOf(q)]
                  => Accepts(t, now, c, token)
             /\ \A p : Own(s, p) => Own(t, p)
<1> DEFINE m == Message(Nothing, [x \in {a} |-> given[AppOf(q)]])
           told == AppOf(q) \in Depends[a] /\ id[AppOf(q)] = q /\ conn[q] = "open"
           t == s \o Fired(id, a, given)[q]
<1>0. given[AppOf(q)] \in Conns \cup {Absent}
  BY AppType
<1>1. /\ m \in Messages /\ DOMAIN m.clients = {a}
      /\ m.clients[a] = given[AppOf(q)] /\ DOMAIN m.services = {}
  BY <1>0, NoticeIs
<1>2. (told => Fired(id, a, given)[q] = <<m>>) /\ (~told => Fired(id, a, given)[q] = <<>>)
  <2>1. Fired(id, a, given)[q] = IF told THEN <<m>> ELSE <<>>
    BY DEF Fired
  <2> HIDE DEF told, m
  <2> QED BY <2>1
<1>3. t \in Seq(Messages)
  <2>1. Fired(id, a, given)[q] \in Seq(Messages)
    BY FiredType
  <2> QED BY <2>1
<1> HIDE DEF m, told, Messages
<1>4. CASE told
  <2>1. t = s \o <<m>>
    BY <1>2, <1>4
  <2>2. c # a /\ Accepts(s, now, c, token) => Accepts(t, now, c, token)
    BY <1>1, <2>1, AcceptsMore
  <2>3. c = a /\ token = given[AppOf(q)] => Accepts(t, now, c, token)
    BY <1>1, <2>1, AcceptsMore
  <2>4. \A p : Own(s, p) => Own(t, p)
    BY <1>1, <2>1, OwnMore
  <2> QED BY <1>3, <2>2, <2>3, <2>4
<1>5. CASE ~told
  <2>1. s \o <<>> = s
    OBVIOUS
  <2>2. t = s
    BY <1>2, <1>5, <2>1
  <2> QED BY <1>3, <1>5, <2>2 DEF told
<1> QED BY <1>4, <1>5

LEMMA AgreeClose ==
  ASSUME AgreeInv, OnCloseConnection
  PROVE  OwnServices' /\ TokensAgree'
<1> DEFINE p == Head(pumping)
           a == peerServices[p]
<1>1. /\ p \in Conns /\ a \in Apps \cup {Absent}
      /\ idServices \in [Apps -> Conns \cup {Absent}]
      /\ link \in [Conns -> Seq(Messages)]
      /\ UNCHANGED <<conn, held, sessions>>
  BY ElementType DEF OnCloseConnection, AgreeInv, HelloInv, TablesInv, TypeOK,
                     ioVars, processVars
<1>2. CASE a = Absent
  <2>1. UNCHANGED <<link, idServices>>
    BY <1>2 DEF OnCloseConnection, tableVars
  <2>2. OwnServices'
    BY <2>1 DEF AgreeInv, OwnServices
  <2>3. TokensAgree'
    BY <1>1, <2>1 DEF AgreeInv, TokensAgree, Registered
  <2> QED BY <2>2, <2>3
<1>3. CASE a # Absent
  <2>1. /\ link' = [q \in Conns |-> link[q] \o Farewell(a)[q]]
        /\ idServices' = [idServices EXCEPT ![a] = Absent]
    BY <1>3 DEF OnCloseConnection, Unregistered
  <2>2. a \in Apps
    BY <1>1, <1>3
  <2> HIDE DEF a, p
  <2>3. OwnServices'
    <3> SUFFICES ASSUME NEW q \in Conns PROVE Own(link'[q], q)
      BY <1>1, <2>1 DEF OwnServices, Own
    <3>1. Own(link[q], q)
      BY DEF AgreeInv, OwnServices, Own
    <3>2. link[q] \in Seq(Messages)
      BY <1>1
    <3> QED BY <2>1, <2>2, <3>1, <3>2, FiredAccepts, NoTokensType DEF Farewell
  <2>4. ASSUME NEW q \in Conns, Registered(q)', NEW c \in Provides(AppOf(q))
        PROVE  Accepts(link'[q], sessions'[q][c], c, idServices'[c])
    <3>1. AppOf(q) \in Apps /\ c \in Apps /\ AppOf(q) \in Depends[c]
      BY AppType DEF Provides
    <3>2. AppOf(q) # a /\ idServices[AppOf(q)] = q /\ conn[q] = "open"
      BY <1>1, <2>1, <2>2, <2>4, <3>1, AbsentAssumption DEF Registered
    <3>3. Accepts(link[q], sessions[q][c], c, idServices[c])
      BY <2>4, <3>2 DEF AgreeInv, TokensAgree, Registered
    <3>4. link[q] \in Seq(Messages) /\ link'[q] = link[q] \o Fired(idServices, a, NoTokens)[q]
      BY <1>1, <2>1 DEF Farewell
    <3>5. CASE c = a
      <4>1. idServices'[c] = NoTokens[AppOf(q)]
        BY <1>1, <2>1, <2>2, <3>1, <3>5 DEF NoTokens
      <4> QED BY <2>2, <3>1, <3>2, <3>4, <3>5, <4>1, FiredAccepts, NoTokensType
    <3>6. CASE c # a
      <4>1. idServices'[c] = idServices[c] /\ sessions' = sessions
        BY <1>1, <2>1, <2>2, <3>1, <3>6
      <4> QED BY <2>2, <3>3, <3>4, <3>6, <4>1, FiredAccepts, NoTokensType
    <3> QED BY <3>5, <3>6
  <2> QED BY <1>1, <2>3, <2>4 DEF AgreeInv, TokensAgree
<1> QED BY <1>2, <1>3

LEMMA AgreeValid ==
  ASSUME KeysDistinct, AgreeInv, OnValidHello
  PROVE  OwnServices' /\ TokensAgree'
<1> DEFINE p == Head(batch)
           a == AppOf(p)
           given == [d \in Apps |-> TokensWith(p)[Key(a, d)]]
           told(q) == link[q] \o Fired(IdsWith(p), a, given)[q]
<1>1. /\ p \in Conns /\ conn[p] = "open" /\ Queued(p)
      /\ idServices \in [Apps -> Conns \cup {Absent}]
      /\ link \in [Conns -> Seq(Messages)]
      /\ sessions \in [Conns -> [Apps -> Conns \cup {Absent}]]
      /\ UNCHANGED <<conn, held, sessions>>
  <2>1. batch # <<>> /\ batch \in Seq(Conns)
    BY DEF OnValidHello, NextHello, AgreeInv, HelloInv, TablesInv, TypeOK
  <2>2. p \in Conns /\ InSeq(p, batch)
    BY <2>1, ElementType, InTail
  <2> QED BY <2>2 DEF OnValidHello, AgreeInv, HelloInv, TablesInv, TypeOK, Queued,
                      ioVars, processVars
<1>2. a \in Apps
  BY <1>1, AppType
<1>3. /\ idServices' = [idServices EXCEPT ![a] = p]
      /\ link' = [q \in Conns |-> told(q) \o
                    (IF q = p THEN <<Answer(p)>> ELSE <<>>)]
  BY DEF OnValidHello, IdsWith, Welcome
<1>4. given \in [Apps -> Conns \cup {Absent}] /\ IdsWith(p) = idServices'
  BY <1>1, <1>3, WithType DEF AgreeInv, HelloInv, TablesInv, IdsWith
<1>5. \A d \in Depends[a] : TokensWith(p)[Key(a, d)] = p
  BY <1>2, OwnKeysType DEF TokensWith, OwnKeys
<1>6. Answer(p) \in Messages
  BY <1>1, AnswerType DEF AgreeInv, HelloInv, TablesInv
<1>7. /\ Answer(p).services = [d \in Depends[a] |-> TokensWith(p)[Key(a, d)]]
      /\ Answer(p).clients = [c \in {x \in Provides(a) : IdsWith(p)[x] # Absent} |->
                                TokensWith(p)[Key(c, a)]]
  BY DEF Answer, Message, ClientKey
<1> DEFINE answer == Answer(p)
<1> HIDE DEF p, a, given, told, answer
<1>8. \A q \in Conns :
        /\ told(q) \in Seq(Messages)
        /\ link'[q] = IF q = p THEN told(q) \o <<answer>> ELSE told(q)
  <2> SUFFICES ASSUME NEW q \in Conns
               PROVE  told(q) \in Seq(Messages)
                      /\ link'[q] = IF q = p THEN told(q) \o <<answer>> ELSE told(q)
    OBVIOUS
  <2>1. link[q] \in Seq(Messages)
    BY <1>1
  <2>2. told(q) \in Seq(Messages)
    BY <1>2, <1>4, <2>1, FiredAccepts DEF told
  <2>3. told(q) \o <<>> = told(q)
    BY <2>2
  <2> QED BY <1>3, <2>2, <2>3 DEF answer
<1>9. OwnServices'
  <2> SUFFICES ASSUME NEW q \in Conns PROVE Own(link'[q], q)
    BY <1>1, <1>3 DEF OwnServices, Own
  <2>1. Own(link[q], q) /\ link[q] \in Seq(Messages)
    BY <1>1 DEF AgreeInv, OwnServices, Own
  <2>2. Own(told(q), q)
    BY <1>2, <1>4, <2>1, FiredAccepts DEF told
  <2>3. \A d \in DOMAIN answer.services : answer.services[d] = p
    BY <1>5, <1>7 DEF answer
  <2>4. CASE q = p
    <3>1. Own(told(q) \o <<answer>>, q)
      BY <1>6, <1>8, <2>2, <2>3, <2>4, OwnMore DEF answer
    <3> QED BY <1>8, <2>4, <3>1
  <2> QED BY <1>8, <2>2, <2>4
<1>10. ASSUME NEW q \in Conns, Registered(q)', NEW c \in Provides(AppOf(q))
       PROVE  Accepts(link'[q], sessions[q][c], c, idServices'[c])
  <2>1. AppOf(q) \in Apps /\ c \in Apps /\ AppOf(q) \in Depends[c]
    BY AppType DEF Provides
  <2>2. conn[q] = "open" /\ IdsWith(p)[AppOf(q)] = q
    BY <1>1, <1>4, <1>10 DEF Registered
  <2>3. link[q] \in Seq(Messages)
    BY <1>1
  <2>4. CASE q = p
    <3>1. c \in Provides(a)
      BY <1>10, <2>4 DEF a
    <3>2. CASE idServices'[c] # Absent
      <4>1. c \in DOMAIN answer.clients /\ answer.clients[c] = TokensWith(p)[Key(c, a)]
        BY <1>4, <1>7, <3>1, <3>2 DEF answer
      <4>2. TokensWith(p)[Key(c, a)] = idServices'[c]
        <5>1. CASE c = a
          <6>1. a \in Depends[a]
            BY <3>1, <5>1 DEF Provides
          <6> QED BY <1>1, <1>2, <1>3, <1>5, <5>1, <6>1
        <5>2. CASE c # a
          <6>1. a \in Depends[c]
            BY <3>1 DEF Provides
          <6>2. Key(c, a) \notin OwnKeys(a) /\ Key(c, a) \in Keys
            BY <1>2, <2>1, <5>2, <6>1, OtherKeys
          <6>3. idServices'[c] = idServices[c]
            BY <1>1, <1>2, <1>3, <2>1, <5>2
          <6>4. tokens[Key(c, a)] = idServices[c]
            BY <2>1, <3>2, <6>1, <6>3 DEF AgreeInv, TokensOfIds
          <6> QED BY <6>2, <6>3, <6>4 DEF TokensWith, a
        <5> QED BY <5>1, <5>2
      <4>3. Accepts(told(q) \o <<answer>>, sessions[q][c], c, idServices'[c])
        BY <1>6, <1>8, <4>1, <4>2, AcceptsMore DEF answer
      <4> QED BY <1>8, <2>4, <4>3
    <3>3. CASE idServices'[c] = Absent
      <4>1. c # a
        BY <1>1, <1>2, <1>3, <3>3, AbsentAssumption
      <4>2. link[q] = <<>> /\ sessions[q][c] = Absent
        BY <1>1, <2>1, <2>4 DEF AgreeInv, HelloInv, Fresh, NoTokens
      <4>3. Accepts(link[q], sessions[q][c], c, idServices'[c])
        BY <3>3, <4>2 DEF Accepts, Mentions
      <4>4. Accepts(told(q), sessions[q][c], c, idServices'[c])
        BY <1>2, <1>4, <2>3, <4>1, <4>3, FiredAccepts DEF told
      <4>5. c \notin DOMAIN answer.clients
        BY <1>4, <1>7, <3>3 DEF answer
      <4>6. Accepts(told(q) \o <<answer>>, sessions[q][c], c, idServices'[c])
        BY <1>6, <1>8, <4>4, <4>5, AcceptsMore DEF answer
      <4> QED BY <1>8, <2>4, <4>6
    <3> QED BY <3>2, <3>3
  <2>5. CASE q # p
    <3>1. AppOf(q) # a /\ idServices[AppOf(q)] = q
      BY <1>1, <1>2, <1>3, <1>4, <2>1, <2>2, <2>5
    <3>2. link'[q] = told(q)
      BY <1>8, <2>5
    <3>3. CASE c = a
      <4>1. given[AppOf(q)] = p /\ idServices'[c] = p
        BY <1>1, <1>2, <1>3, <1>5, <2>1, <3>3 DEF given
      <4>2. AppOf(q) \in Depends[a]
        BY <2>1, <3>3
      <4>3. Accepts(told(q), sessions[q][c], c, p)
        BY <1>2, <1>4, <2>2, <2>3, <3>3, <4>1, <4>2, FiredAccepts DEF told
      <4> QED BY <3>2, <4>1, <4>3
    <3>4. CASE c # a
      <4>1. idServices'[c] = idServices[c]
        BY <1>1, <1>2, <1>3, <2>1, <3>4
      <4>2. Accepts(link[q], sessions[q][c], c, idServices[c])
        BY <1>10, <2>2, <3>1 DEF AgreeInv, TokensAgree, Registered
      <4> QED BY <1>2, <1>4, <2>3, <3>2, <3>4, <4>1, <4>2, FiredAccepts DEF told
    <3> QED BY <3>3, <3>4
  <2> QED BY <2>4, <2>5
<1>11. \A q \in Conns : \A d \in Apps : held'[q][d] \in {Absent, q}
  BY <1>1 DEF AgreeInv, TokensAgree
<1>12. \A q \in Conns : Registered(q)' =>
         \A c \in Provides(AppOf(q)) :
           Accepts(link'[q], sessions'[q][c], c, idServices'[c])
  BY <1>1, <1>10
<1> QED BY <1>9, <1>11, <1>12 DEF TokensAgree

LEMMA AgreeReceive ==
  ASSUME AgreeInv, NEW p \in Conns, Receive(p)
  PROVE  OwnServices' /\ TokensAgree'
<1> DEFINE m == Head(link[p])
           now(c) == IF c \in DOMAIN m.clients THEN m.clients[c] ELSE sessions[p][c]
<1>1. /\ link[p] \in Seq(Messages) /\ link[p] # <<>>
      /\ link \in [Conns -> Seq(Messages)]
      /\ held \in [Conns -> [Apps -> Conns \cup {Absent}]]
      /\ sessions \in [Conns -> [Apps -> Conns \cup {Absent}]]
      /\ UNCHANGED <<conn, idServices>>
  BY DEF Receive, AgreeInv, HelloInv, TablesInv, TypeOK, ioVars, tableVars
<1>2. /\ link' = [link EXCEPT ![p] = Tail(@)]
      /\ held' = [held EXCEPT ![p] = [d \in Apps |->
                    IF d \in DOMAIN m.services THEN m.services[d] ELSE held[p][d]]]
      /\ sessions' = [sessions EXCEPT ![p] = [c \in Apps |-> now(c)]]
  BY DEF Receive
<1>3. Own(link[p], p)
  BY DEF AgreeInv, OwnServices, Own
<1>4. /\ Own(Tail(link[p]), p)
      /\ \A d \in DOMAIN m.services : m.services[d] = p
  BY <1>1, <1>3, OwnLess
<1>5. OwnServices'
  <2> SUFFICES ASSUME NEW q \in Conns PROVE Own(link'[q], q)
    BY <1>1, <1>2 DEF OwnServices, Own
  <2>1. CASE q = p
    BY <1>1, <1>2, <1>4, <2>1
  <2>2. CASE q # p
    <3>1. link'[q] = link[q]
      BY <1>1, <1>2, <2>2
    <3> QED BY <3>1 DEF AgreeInv, OwnServices, Own
  <2> QED BY <2>1, <2>2
<1> HIDE DEF m
<1>6. ASSUME NEW q \in Conns, NEW d \in Apps
      PROVE  held'[q][d] \in {Absent, q}
  <2>1. held[q][d] \in {Absent, q}
    BY DEF AgreeInv, TokensAgree
  <2>2. CASE q = p
    <3>1. held'[p][d] = IF d \in DOMAIN m.services THEN m.services[d] ELSE held[p][d]
      BY <1>1, <1>2
    <3> QED BY <1>4, <2>1, <2>2, <3>1
  <2>3. CASE q # p
    BY <1>1, <1>2, <2>1, <2>3
  <2> QED BY <2>2, <2>3
<1>7. ASSUME NEW q \in Conns, Registered(q)', NEW c \in Provides(AppOf(q))
      PROVE  Accepts(link'[q], sessions'[q][c], c, idServices[c])
  <2>1. Accepts(link[q], sessions[q][c], c, idServices[c])
    BY <1>1, <1>7 DEF AgreeInv, TokensAgree, Registered
  <2>2. CASE q = p
    <3>1. c \in Apps
      BY DEF Provides
    <3>2. sessions'[q][c] = now(c) /\ link'[q] = Tail(link[q])
      BY <1>1, <1>2, <2>2, <3>1
    <3>3. Accepts(Tail(link[p]), now(c), c, idServices[c])
      BY <1>1, <2>1, <2>2, AcceptsLess DEF m
    <3> QED BY <2>2, <3>2, <3>3
  <2>3. CASE q # p
    <3>1. link'[q] = link[q] /\ sessions'[q] = sessions[q]
      BY <1>1, <1>2, <2>3
    <3> QED BY <2>1, <3>1
  <2> QED BY <2>2, <2>3
<1> QED BY <1>1, <1>5, <1>6, <1>7 DEF TokensAgree

LEMMA AgreeEnds ==
  ASSUME AgreeInv, NEW p \in Conns, ConnectionEnds(p)
  PROVE  OwnServices' /\ TokensAgree'
<1>1. /\ link \in [Conns -> Seq(Messages)] /\ link' = [link EXCEPT ![p] = <<>>]
      /\ conn \in [Conns -> {"none", "open", "closed"}]
      /\ conn' = [conn EXCEPT ![p] = "closed"]
      /\ UNCHANGED <<idServices, held, sessions>>
  BY DEF ConnectionEnds, AgreeInv, HelloInv, TablesInv, TypeOK, tableVars, processVars
<1>2. \A q \in Conns : q # p => link'[q] = link[q] /\ conn'[q] = conn[q]
  BY <1>1
<1>3. OwnServices'
  <2> SUFFICES ASSUME NEW q \in Conns PROVE Own(link'[q], q)
    BY <1>1 DEF OwnServices, Own
  <2>1. CASE q = p
    BY <1>1, <2>1 DEF Own
  <2>2. CASE q # p
    BY <1>2, <2>2 DEF AgreeInv, OwnServices, Own
  <2> QED BY <2>1, <2>2
<1>4. TokensAgree'
  <2>1. \A q \in Conns : Registered(q)' => q # p /\ Registered(q)
    BY <1>1, <1>2 DEF Registered
  <2>2. \A q \in Conns : Registered(q)' =>
          \A c \in Provides(AppOf(q)) :
            Accepts(link'[q], sessions'[q][c], c, idServices'[c])
    BY <1>1, <1>2, <2>1 DEF AgreeInv, TokensAgree
  <2> QED BY <1>1, <2>2 DEF AgreeInv, TokensAgree
<1> QED BY <1>3, <1>4

LEMMA AgreeHello ==
  ASSUME AgreeInv, NEW p \in Conns, Hello(p)
  PROVE  OwnServices' /\ TokensAgree'
<1>1. /\ conn[p] = "none" /\ conn' = [conn EXCEPT ![p] = "open"]
      /\ conn \in [Conns -> {"none", "open", "closed"}]
      /\ UNCHANGED <<link, idServices, held, sessions>>
  BY DEF Hello, AgreeInv, HelloInv, TablesInv, TypeOK, tableVars, processVars
<1>2. \A q \in Conns : Registered(q)' => Registered(q)
  <2>1. idServices[AppOf(p)] # p
    BY <1>1, RegisteredIsKnown DEF AgreeInv
  <2> QED BY <1>1, <2>1 DEF Registered
<1>3. OwnServices'
  BY <1>1 DEF AgreeInv, OwnServices
<1>4. \A q \in Conns : Registered(q)' =>
        \A c \in Provides(AppOf(q)) :
          Accepts(link'[q], sessions'[q][c], c, idServices'[c])
  BY <1>1, <1>2 DEF AgreeInv, TokensAgree
<1> QED BY <1>1, <1>3, <1>4 DEF AgreeInv, TokensAgree

LEMMA InitAgree == Init => AgreeInv
<1> SUFFICES ASSUME Init PROVE AgreeInv
  OBVIOUS
<1>1. TokensOfIds
  BY DEF Init, TokensOfIds, NoTokens
<1>2. OwnServices
  BY DEF Init, OwnServices
<1>3. \A q \in Conns : ~Registered(q)
  BY DEF Init, Registered
<1>4. \A p \in Conns : \A d \in Apps : held[p][d] \in {Absent, p}
  BY DEF Init, NoTokens
<1> QED BY <1>1, <1>2, <1>3, <1>4, InitHello DEF AgreeInv, TokensAgree

LEMMA StepAgree ==
  ASSUME KeysDistinct
  PROVE  AgreeInv /\ [Next]_vars => AgreeInv'
<1> SUFFICES ASSUME AgreeInv, [Next]_vars PROVE AgreeInv'
  OBVIOUS
<1>1. HelloInv' /\ TokensOfIds'
  BY StepHello, StepTokens DEF AgreeInv
<1>2. OwnServices' /\ TokensAgree'
  <2>1. CASE UNCHANGED <<conn, link, idServices, held, sessions>>
    BY <2>1 DEF AgreeInv, OwnServices, TokensAgree, Registered
  <2>2. CASE PumpMonitor \/ TakeTasks \/ OnInvalidHello \/ OnHelloOfNobody
             \/ UNCHANGED vars
    BY <2>1, <2>2 DEF PumpMonitor, TakeTasks, OnInvalidHello, OnHelloOfNobody,
         ioVars, tableVars, processVars, vars
  <2> QED BY <2>2, AgreeClose, AgreeValid, AgreeReceive, AgreeEnds, AgreeHello
       DEF Next, Center
<1> QED BY <1>1, <1>2 DEF AgreeInv

\* When the keys of different applications differ, a registered
\* server accepts of each client the token of its registered connection, for
\* any order of starts, ends, hellos and notices.
THEOREM TokensCorrect ==
  ASSUME KeysDistinct
  PROVE  Spec => []TokensAgree
<1>1. AgreeInv => TokensAgree
  BY DEF AgreeInv
<1> QED BY <1>1, InitAgree, StepAgree, PTL DEF Spec

-----------------------------------------------------------------------------
(* Acceptance: a registered process has its token for each server, or the  *)
(* answer that gives it is on its way.                                     *)

Gives(s, d) == \E i \in DOMAIN s : d \in DOMAIN s[i].services

HoldsOwn ==
  \A p \in Conns : Registered(p) =>
    \A d \in Depends[AppOf(p)] : held[p][d] = p \/ Gives(link[p], d)

AcceptInv == AgreeInv /\ HoldsOwn

\* What is on its way is given later too, but for the message handled.
LEMMA GivesMore ==
  ASSUME NEW s \in Seq(Messages), NEW m \in Messages, NEW d
  PROVE  /\ Gives(s, d) => Gives(s \o <<m>>, d)
         /\ d \in DOMAIN m.services => Gives(s \o <<m>>, d)
<1> DEFINE n == Len(s)
           t == Append(s, m)
<1> HIDE DEF Messages
<1>1. /\ s \o <<m>> = t /\ DOMAIN s = 1..n /\ n \in Nat
      /\ DOMAIN t = 1..(n + 1) /\ t[n + 1] = m
      /\ \A i \in 1..n : t[i] = s[i]
  BY OneMore
<1> HIDE DEF n, t
<1>2. n + 1 \in DOMAIN t /\ \A i \in DOMAIN s : i \in DOMAIN t
  BY <1>1
<1> QED BY <1>1, <1>2 DEF Gives

LEMMA GivesLess ==
  ASSUME NEW s \in Seq(Messages), s # <<>>, NEW d, Gives(s, d)
  PROVE  d \in DOMAIN Head(s).services \/ Gives(Tail(s), d)
<1> DEFINE n == Len(s)
           t == Tail(s)
<1> HIDE DEF Messages
<1>1. /\ n \in Nat \ {0} /\ DOMAIN s = 1..n /\ Head(s) = s[1]
      /\ DOMAIN t = 1..(n - 1) /\ \A i \in 1..(n - 1) : t[i] = s[i + 1]
  BY Shorter
<1> HIDE DEF n, t
<1>2. PICK i \in 1..n : d \in DOMAIN s[i].services
  BY <1>1 DEF Gives
<1>3. CASE i = 1
  BY <1>1, <1>2, <1>3
<1>4. CASE i # 1
  <2>1. i - 1 \in 1..(n - 1) /\ (i - 1) + 1 = i
    BY <1>1, <1>4
  <2>2. d \in DOMAIN t[i - 1].services
    BY <1>1, <1>2, <2>1
  <2> QED BY <1>1, <2>1, <2>2 DEF Gives, t
<1> QED BY <1>3, <1>4

\* What is fired is added behind what a connection was sent.
LEMMA GivesFired ==
  ASSUME NEW s \in Seq(Messages), NEW id, NEW a \in Apps, NEW q \in Conns,
         NEW given \in [Apps -> Conns \cup {Absent}], NEW d, Gives(s, d)
  PROVE  Gives(s \o Fired(id, a, given)[q], d)
<1> DEFINE m == Message(Nothing, [c \in {a} |-> given[AppOf(q)]])
<1>1. given[AppOf(q)] \in Conns \cup {Absent}
  BY AppType
<1>2. m \in Messages
  BY <1>1, NoticeIs
<1>3. Fired(id, a, given)[q] = <<m>> \/ Fired(id, a, given)[q] = <<>>
  <2> DEFINE told == AppOf(q) \in Depends[a] /\ id[AppOf(q)] = q /\ conn[q] = "open"
  <2>1. Fired(id, a, given)[q] = IF told THEN <<m>> ELSE <<>>
    BY DEF Fired
  <2> HIDE DEF told, m
  <2> QED BY <2>1
<1> HIDE DEF m
<1>4. s \o <<>> = s /\ Gives(s \o <<m>>, d)
  BY <1>2, GivesMore
<1> QED BY <1>3, <1>4

LEMMA HoldsClose ==
  ASSUME AcceptInv, OnCloseConnection
  PROVE  HoldsOwn'
<1> DEFINE a == peerServices[Head(pumping)]
<1>1. /\ a \in Apps \cup {Absent} /\ link \in [Conns -> Seq(Messages)]
      /\ idServices \in [Apps -> Conns \cup {Absent}]
      /\ UNCHANGED <<conn, held>>
  BY ElementType DEF OnCloseConnection, AcceptInv, AgreeInv, HelloInv, TablesInv,
                     TypeOK, ioVars, processVars
<1>2. CASE a = Absent
  <2>1. UNCHANGED <<link, idServices>>
    BY <1>2 DEF OnCloseConnection, tableVars
  <2> QED BY <1>1, <2>1 DEF AcceptInv, HoldsOwn, Registered
<1>3. CASE a # Absent
  <2>1. /\ link' = [q \in Conns |-> link[q] \o Fired(idServices, a, NoTokens)[q]]
        /\ idServices' = [idServices EXCEPT ![a] = Absent]
    BY <1>3 DEF OnCloseConnection, Unregistered, Farewell
  <2>2. a \in Apps
    BY <1>1, <1>3
  <2> HIDE DEF a
  <2> SUFFICES ASSUME NEW p \in Conns, Registered(p)', NEW d \in Depends[AppOf(p)]
               PROVE  held'[p][d] = p \/ Gives(link'[p], d)
    BY DEF HoldsOwn
  <2>3. Registered(p)
    BY <1>1, <2>1, <2>2, AppType, AbsentAssumption DEF Registered
  <2>4. held[p][d] = p \/ Gives(link[p], d)
    BY <2>3 DEF AcceptInv, HoldsOwn
  <2>5. link[p] \in Seq(Messages)
    BY <1>1
  <2>6. Gives(link[p], d) => Gives(link'[p], d)
    BY <2>1, <2>2, <2>5, GivesFired, NoTokensType
  <2> QED BY <1>1, <2>4, <2>6
<1> QED BY <1>2, <1>3

LEMMA HoldsValid ==
  ASSUME AcceptInv, OnValidHello
  PROVE  HoldsOwn'
<1> DEFINE p == Head(batch)
           a == AppOf(p)
           given == [d \in Apps |-> TokensWith(p)[Key(a, d)]]
           told(q) == link[q] \o Fired(IdsWith(p), a, given)[q]
           answer == Answer(p)
<1>1. /\ p \in Conns /\ link \in [Conns -> Seq(Messages)]
      /\ idServices \in [Apps -> Conns \cup {Absent}]
      /\ UNCHANGED <<conn, held>>
  BY ElementType DEF OnValidHello, NextHello, AcceptInv, AgreeInv, HelloInv,
                     TablesInv, TypeOK, ioVars, processVars
<1>2. a \in Apps
  BY <1>1, AppType
<1>3. /\ idServices' = [idServices EXCEPT ![a] = p]
      /\ link' = [q \in Conns |-> told(q) \o
                    (IF q = p THEN <<answer>> ELSE <<>>)]
  BY DEF OnValidHello, IdsWith, Welcome
<1>4. given \in [Apps -> Conns \cup {Absent}]
  BY <1>1, WithType DEF AcceptInv, AgreeInv, HelloInv, TablesInv
<1>5. answer \in Messages
  BY <1>1, AnswerType DEF AcceptInv, AgreeInv, HelloInv, TablesInv
<1>6. DOMAIN answer.services = Depends[a]
  BY DEF Answer, Message
<1> HIDE DEF p, a, given, answer
<1> SUFFICES ASSUME NEW q \in Conns, Registered(q)', NEW d \in Depends[AppOf(q)]
             PROVE  held'[q][d] = q \/ Gives(link'[q], d)
  BY DEF HoldsOwn
<1>7. link[q] \in Seq(Messages)
  BY <1>1
<1>8. told(q) \in Seq(Messages)
  BY <1>2, <1>4, <1>7, FiredAccepts
<1>9. Gives(link[q], d) => Gives(told(q), d)
  BY <1>2, <1>4, <1>7, GivesFired
<1> HIDE DEF told
<1>10. CASE q = p
  <2>1. link'[q] = told(q) \o <<answer>> /\ d \in DOMAIN answer.services
    BY <1>1, <1>3, <1>6, <1>10 DEF a
  <2> QED BY <1>5, <1>8, <2>1, GivesMore
<1>11. CASE q # p
  <2>1. told(q) \o <<>> = told(q)
    BY <1>8
  <2>2. link'[q] = told(q)
    BY <1>3, <1>11, <2>1
  <2>3. Registered(q)
    BY <1>1, <1>2, <1>3, <1>11, AppType DEF Registered
  <2> QED BY <1>1, <1>9, <2>2, <2>3 DEF AcceptInv, HoldsOwn
<1> QED BY <1>10, <1>11

LEMMA HoldsReceive ==
  ASSUME AcceptInv, NEW p \in Conns, Receive(p)
  PROVE  HoldsOwn'
<1> DEFINE m == Head(link[p])
<1>1. /\ link[p] \in Seq(Messages) /\ link[p] # <<>>
      /\ link \in [Conns -> Seq(Messages)]
      /\ held \in [Conns -> [Apps -> Conns \cup {Absent}]]
      /\ UNCHANGED <<conn, idServices>>
  BY DEF Receive, AcceptInv, AgreeInv, HelloInv, TablesInv, TypeOK, ioVars, tableVars
<1>2. /\ link' = [link EXCEPT ![p] = Tail(@)]
      /\ held' = [held EXCEPT ![p] = [d \in Apps |->
                    IF d \in DOMAIN m.services THEN m.services[d] ELSE held[p][d]]]
  BY DEF Receive
<1>3. \A d \in DOMAIN m.services : m.services[d] = p
  <2>1. Own(link[p], p)
    BY DEF AcceptInv, AgreeInv, OwnServices, Own
  <2> QED BY <1>1, <2>1, OwnLess
<1> HIDE DEF m
<1> SUFFICES ASSUME NEW q \in Conns, Registered(q)', NEW d \in Depends[AppOf(q)]
             PROVE  held'[q][d] = q \/ Gives(link'[q], d)
  BY DEF HoldsOwn
<1>4. held[q][d] = q \/ Gives(link[q], d)
  BY <1>1 DEF AcceptInv, HoldsOwn, Registered
<1>5. CASE q = p
  <2>1. d \in Apps
    BY AppType, ProcessAssumption
  <2>2. /\ held'[p][d] = IF d \in DOMAIN m.services THEN m.services[d] ELSE held[p][d]
        /\ link'[p] = Tail(link[p])
    BY <1>1, <1>2, <2>1
  <2>3. Gives(link[p], d) => d \in DOMAIN m.services \/ Gives(Tail(link[p]), d)
    BY <1>1, GivesLess DEF m
  <2> QED BY <1>3, <1>4, <1>5, <2>2, <2>3
<1>6. CASE q # p
  BY <1>1, <1>2, <1>4, <1>6
<1> QED BY <1>5, <1>6

LEMMA StepHolds == AcceptInv /\ [Next]_vars => HoldsOwn'
<1> SUFFICES ASSUME AcceptInv, [Next]_vars PROVE HoldsOwn'
  OBVIOUS
<1>1. CASE UNCHANGED <<conn, link, idServices, held>>
  BY <1>1 DEF AcceptInv, HoldsOwn, Registered
<1>2. ASSUME NEW p \in Conns, Hello(p) PROVE HoldsOwn'
  <2>1. /\ conn[p] = "none" /\ conn' = [conn EXCEPT ![p] = "open"]
        /\ conn \in [Conns -> {"none", "open", "closed"}]
        /\ UNCHANGED <<link, idServices, held>>
    BY <1>2 DEF Hello, AcceptInv, AgreeInv, HelloInv, TablesInv, TypeOK, tableVars,
                processVars
  <2>2. idServices[AppOf(p)] # p
    BY <2>1, RegisteredIsKnown DEF AcceptInv, AgreeInv
  <2>3. \A q \in Conns : Registered(q)' => Registered(q)
    BY <2>1, <2>2 DEF Registered
  <2> QED BY <2>1, <2>3 DEF AcceptInv, HoldsOwn
<1>3. ASSUME NEW p \in Conns, ConnectionEnds(p) PROVE HoldsOwn'
  <2>1. /\ link \in [Conns -> Seq(Messages)] /\ link' = [link EXCEPT ![p] = <<>>]
        /\ conn \in [Conns -> {"none", "open", "closed"}]
        /\ conn' = [conn EXCEPT ![p] = "closed"]
        /\ UNCHANGED <<idServices, held>>
    BY <1>3 DEF ConnectionEnds, AcceptInv, AgreeInv, HelloInv, TablesInv, TypeOK,
                tableVars, processVars
  <2>2. \A q \in Conns : Registered(q)' => Registered(q) /\ link'[q] = link[q]
    BY <2>1 DEF Registered
  <2> QED BY <2>1, <2>2 DEF AcceptInv, HoldsOwn
<1>4. CASE PumpMonitor \/ TakeTasks \/ OnInvalidHello \/ OnHelloOfNobody
           \/ UNCHANGED vars
  BY <1>1, <1>4 DEF PumpMonitor, TakeTasks, OnInvalidHello, OnHelloOfNobody,
       ioVars, tableVars, processVars, vars
<1> QED BY <1>2, <1>3, <1>4, HoldsClose, HoldsValid, HoldsReceive DEF Next, Center

\* When nothing is on its way, agreement on tokens is acceptance of calls.
LEMMA AcceptInvGives == AcceptInv => AcceptsExactly
<1> SUFFICES ASSUME AcceptInv, NEW p \in Conns, NEW q \in Conns,
                    AppOf(q) \in Depends[AppOf(p)], Registered(q), link[q] = <<>>
             PROVE  /\ CheckAuth(q, p) => idServices[AppOf(p)] = p
                    /\ Registered(p) /\ link[p] = <<>> => CheckAuth(q, p)
  BY DEF AcceptsExactly
<1>1. AppOf(p) \in Provides(AppOf(q)) /\ AppOf(q) \in Apps
  BY AppType DEF Provides
<1>2. Accepts(link[q], sessions[q][AppOf(p)], AppOf(p), idServices[AppOf(p)])
  BY <1>1 DEF AcceptInv, AgreeInv, TokensAgree
<1>3. sessions[q][AppOf(p)] = idServices[AppOf(p)]
  <2>1. Mentions(link[q], AppOf(p)) = {}
    BY DEF Mentions
  <2> QED BY <1>2, <2>1 DEF Accepts
<1>4. held[p][AppOf(q)] \in {Absent, p}
  BY <1>1 DEF AcceptInv, AgreeInv, TokensAgree
<1>5. ASSUME Registered(p), link[p] = <<>>
      PROVE  held[p][AppOf(q)] = p
  <2>1. ~Gives(link[p], AppOf(q))
    BY <1>5 DEF Gives
  <2> QED BY <1>5, <2>1 DEF AcceptInv, HoldsOwn
<1>6. p # Absent
  BY AbsentAssumption
<1> QED BY <1>3, <1>4, <1>5, <1>6 DEF CheckAuth, Registered

\* When the keys of different applications differ, a server and a
\* client that have handled what the center sent them agree about each call:
\* it is accepted from the registered process of the client's application and
\* from no other.
THEOREM AcceptCorrect ==
  ASSUME KeysDistinct
  PROVE  Spec => []AcceptsExactly
<1>1. Init => AcceptInv
  <2> SUFFICES ASSUME Init PROVE HoldsOwn
    BY InitAgree DEF AcceptInv
  <2>1. \A q \in Conns : ~Registered(q)
    BY DEF Init, Registered
  <2> QED BY <2>1 DEF HoldsOwn
<1>2. AcceptInv /\ [Next]_vars => AcceptInv'
  BY StepAgree, StepHolds DEF AcceptInv
<1> QED BY <1>1, <1>2, AcceptInvGives, PTL DEF Spec

=============================================================================
