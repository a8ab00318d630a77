----------------------------- MODULE NameCenter -----------------------------
(***************************************************************************)
(* The name center (src/name_center: ServiceManager, NameServerApp) and    *)
(* what it keeps in the processes that say hello to it: the tokens of a    *)
(* client (CallerManager::OnHelloResponse) and the tokens a server asks of *)
(* its callers (MethodAuth).                                               *)
(*                                                                         *)
(* A process connects once and says hello once, as DoInit of the           *)
(* applications does; when it is started again it has a new connection,    *)
(* which the center may see before the end of the old one.  The I/O thread *)
(* of the center accepts, queues hellos and notices the end of             *)
(* connections; its application thread goes round the monitor's list and   *)
(* the hellos, as in Server.  A TcpPeer* is named by its connection, and   *)
(* so is the token made of it: (int64_t)peer + hash of the application's   *)
(* own token.  Privileges go with the tokens and are left out.             *)
(***************************************************************************)
EXTENDS Naturals, Sequences, FiniteSets, Functions

CONSTANTS
  Apps,     \* application ids of service_config.cfg
  Depends,  \* Depends[a]: the applications whose methods a calls
  Runs,     \* Runs[a]: how many times the process of a is started at most
  Word,     \* 2^32: ids are shifted in this many values
  Absent    \* no entry in a table, or a null pointer

ASSUME IdsAssumption ==
  /\ Apps \subseteq Nat /\ Word \in Nat \ {0}
  /\ \A a \in Apps : a < Word \div 2
ASSUME ProcessAssumption ==
  Depends \in [Apps -> SUBSET Apps] /\ Runs \in [Apps -> Nat]

\* The connections to the center, one for each run of a process.
Conns == UNION {{a} \X (1..Runs[a]) : a \in Apps}
AppOf(p) == p[1]

ASSUME AbsentAssumption == Absent \notin Conns \cup Apps

Provides(a) == {c \in Apps : a \in Depends[c]}   \* GetProvideIds

\* (int64_t)((uint32_t)appId << 31) | depencyId: the shift is made in 32 bits,
\* of which only the lowest of the id remains.
Key(a, d) == ((a * (Word \div 2)) % Word) + d

Keys == {Key(a, d) : a \in Apps, d \in Apps}

VARIABLES
  conn,          \* a connection as the center's I/O thread sees it
  asked,         \* connections that CloseConnection was called for
  alive,         \* does the center's process run?
  tasks,         \* the connections whose hellos are in m_specThreadCallee
  closeList,     \* m_closeList of the connection monitor
  pumping,       \* the closed peers that PumpMonitorMessage has taken
  batch,         \* the hellos that PumpMessage has taken
  round,         \* where the application thread is in PumpMessage
  peerServices,  \* m_connectedPeerServices
  idServices,    \* m_connectedIdServices
  tokens,        \* m_sessionTokens
  sessionKeys,   \* m_sessionKeys
  link,          \* what the center has sent to a process and it has not handled
  held,          \* the tokens a process was given for the servers it depends on
  sessions       \* MethodAuth::m_peerSessions of a process

ioVars      == <<conn, asked, tasks, closeList>>
threadVars  == <<alive, pumping, batch, round>>
tableVars   == <<peerServices, idServices, tokens, sessionKeys>>
processVars == <<held, sessions>>
vars == <<ioVars, threadVars, tableVars, link, processVars>>

NoTokens == [a \in Apps |-> Absent]

Init ==
  /\ conn = [p \in Conns |-> "none"] /\ asked = {} /\ alive = TRUE
  /\ tasks = <<>> /\ closeList = <<>>
  /\ pumping = <<>> /\ batch = <<>> /\ round = "hellos"
  /\ peerServices = [p \in Conns |-> Absent]
  /\ idServices = NoTokens
  /\ tokens = [k \in Keys |-> Absent]
  /\ sessionKeys = [a \in Apps |-> {}]
  /\ link = [p \in Conns |-> <<>>]
  /\ held = [p \in Conns |-> NoTokens]
  /\ sessions = [p \in Conns |-> NoTokens]

-----------------------------------------------------------------------------
(* The I/O thread of the center.                                           *)

\* A process is started, connects and says hello, which OnCall queues for the
\* application thread.
Hello(p) ==
  /\ alive /\ conn[p] = "none"
  /\ p[2] > 1 => conn[<<p[1], p[2] - 1>>] # "none"
  /\ conn' = [conn EXCEPT ![p] = "open"]
  /\ tasks' = Append(tasks, p)
  /\ UNCHANGED <<asked, closeList, threadVars, tableVars, link, processVars>>

\* A connection ends, by the network, its process, or as it was asked to.
\* UnRegisterTransport hands the peer to the monitor's list.  What is on its
\* way is lost, or handled by a process that the center knows no more.
ConnectionEnds(p) ==
  /\ alive /\ conn[p] = "open"
  /\ conn' = [conn EXCEPT ![p] = "closed"]
  /\ closeList' = Append(closeList, p)
  /\ link' = [link EXCEPT ![p] = <<>>]
  /\ UNCHANGED <<asked, tasks, threadVars, tableVars, processVars>>

-----------------------------------------------------------------------------
(* The application thread of the center: the monitor first, then hellos.   *)

PumpMonitor ==
  /\ alive /\ round = "hellos" /\ batch = <<>>
  /\ pumping' = closeList /\ closeList' = <<>>
  /\ round' = "closes"
  /\ UNCHANGED <<conn, asked, tasks, alive, batch, tableVars, link, processVars>>

TakeTasks ==
  /\ alive /\ round = "closes" /\ pumping = <<>>
  /\ batch' = tasks /\ tasks' = <<>>
  /\ round' = "hellos"
  /\ UNCHANGED <<conn, asked, closeList, alive, pumping, tableVars, link,
                 processVars>>

\* What a message gives: tokens for servers and tokens of clients, of which
\* Absent is that of a client that has gone.
Message(services, clients) == [services |-> services, clients |-> clients]
Nothing == [a \in {} |-> Absent]

\* FireOnClientConnect and FireOnClientDisConnect: every server that is
\* registered and that application a depends on is told a's token for it.  A
\* peer is registered for its own application only; SendData on a closed
\* connection does nothing.
Fired(id, a, tokenFor) ==
  [q \in Conns |->
     IF AppOf(q) \in Depends[a] /\ id[AppOf(q)] = q /\ conn[q] = "open"
     THEN <<Message(Nothing, [c \in {a} |-> tokenFor[AppOf(q)]])>>
     ELSE <<>>]

\* Mutant: the servers are not told.
FarewellToNobody(a) == [q \in Conns |-> <<>>]

Farewell(a) == Fired(idServices, a, NoTokens)

\* Mutant: the entry of the peer goes, that of the application stays.
KeepId(a) == idServices

Unregistered(a) == [idServices EXCEPT ![a] = Absent]

\* ServiceManager::OnCloseConnection; a peer that never said hello is unknown.
OnCloseConnection ==
  /\ alive /\ round = "closes" /\ pumping # <<>>
  /\ pumping' = Tail(pumping)
  /\ LET p == Head(pumping)
         a == peerServices[p]
     IN  IF a = Absent
         THEN UNCHANGED <<tableVars, link>>
         ELSE /\ link' = [q \in Conns |-> link[q] \o Farewell(a)[q]]
              /\ idServices' = Unregistered(a)
              /\ tokens' = [k \in Keys |->
                              IF k \in sessionKeys[a] THEN Absent ELSE tokens[k]]
              /\ sessionKeys' = [sessionKeys EXCEPT ![a] = {}]
              /\ peerServices' = [peerServices EXCEPT ![p] = Absent]
  /\ UNCHANGED <<ioVars, alive, batch, round, processVars>>

\* Mutant: the ids of the key are exchanged.
ServerKey(c, a) == Key(a, c)

\* FillClientInfo looks a client's token up under this key.
ClientKey(c, a) == Key(c, a)

NextHello == alive /\ round = "hellos" /\ batch # <<>>

\* Mutant: an application has keys for those that call it.
CallersKeys(a) == {Key(a, d) : d \in Provides(a)}

OwnKeys(a) == {Key(a, d) : d \in Depends[a]}

\* The tables of ids and of tokens once p is registered.
IdsWith(p) == [idServices EXCEPT ![AppOf(p)] = p]
TokensWith(p) ==
  [k \in Keys |-> IF k \in OwnKeys(AppOf(p)) THEN p ELSE tokens[k]]

\* The answer to p lists the tokens for the servers it calls and, when it is a
\* server, those of the clients that are registered.
Answer(p) ==
  Message([d \in Depends[AppOf(p)] |-> TokensWith(p)[Key(AppOf(p), d)]],
          [c \in {x \in Provides(AppOf(p)) : IdsWith(p)[x] # Absent} |->
             TokensWith(p)[ClientKey(c, AppOf(p))]])

Welcome(p) ==
  Fired(IdsWith(p), AppOf(p), [d \in Apps |-> TokensWith(p)[Key(AppOf(p), d)]])

\* OnClientHello, and OnServerHello with FillClientInfo, which for an
\* application that provides nothing is the same: the tables are written, the
\* servers are told, and the answer is sent.
OnValidHello ==
  /\ NextHello
  /\ LET p == Head(batch)
     IN  /\ conn[p] = "open"
         /\ peerServices' = [peerServices EXCEPT ![p] = AppOf(p)]
         /\ idServices' = IdsWith(p)
         /\ tokens' = TokensWith(p)
         /\ sessionKeys' = [sessionKeys EXCEPT ![AppOf(p)] =
                              @ \cup OwnKeys(AppOf(p))]
         /\ link' = [q \in Conns |-> link[q] \o Welcome(p)[q] \o
                       (IF q = p THEN <<Answer(p)>> ELSE <<>>)]
  /\ batch' = Tail(batch)
  /\ UNCHANGED <<ioVars, alive, pumping, round, processVars>>

\* An unknown application or a wrong token, which any hello may have:
\* CloseConnection is queued before the answer, which is therefore never sent.
OnInvalidHello ==
  /\ NextHello
  /\ conn[Head(batch)] = "open"
  /\ asked' = asked \cup {Head(batch)}
  /\ batch' = Tail(batch)
  /\ UNCHANGED <<conn, tasks, closeList, alive, pumping, round, tableVars, link,
                 processVars>>

\* The connection was unregistered meanwhile: NameServerApp takes the address
\* of a null peer, and the process ends.
OnHelloOfNobody ==
  /\ NextHello
  /\ conn[Head(batch)] = "closed"
  /\ alive' = FALSE
  /\ UNCHANGED <<ioVars, pumping, batch, round, tableVars, link, processVars>>

-----------------------------------------------------------------------------
(* A process: OnHelloResponse in DoInit, and OnClientConnected and         *)
(* OnClientDisconnected from PumpMessage, all on its application thread.   *)

Receive(p) ==
  /\ link[p] # <<>>
  /\ LET message == Head(link[p])
     IN  /\ held' = [held EXCEPT ![p] =
              [d \in Apps |-> IF d \in DOMAIN message.services
                              THEN message.services[d] ELSE held[p][d]]]
         /\ sessions' = [sessions EXCEPT ![p] =
              [c \in Apps |-> IF c \in DOMAIN message.clients
                              THEN message.clients[c] ELSE sessions[p][c]]]
  /\ link' = [link EXCEPT ![p] = Tail(@)]
  /\ UNCHANGED <<ioVars, threadVars, tableVars>>

Center == PumpMonitor \/ OnCloseConnection \/ TakeTasks \/ OnValidHello
            \/ OnInvalidHello \/ OnHelloOfNobody

Next ==
  \/ \E p \in Conns : Hello(p) \/ ConnectionEnds(p) \/ Receive(p)
  \/ Center

Spec == Init /\ [][Next]_vars

\* The application thread goes round, what is sent arrives, and a connection
\* that CloseConnection was called for ends.
Fairness ==
  /\ WF_vars(Center)
  /\ \A p \in Conns : /\ WF_vars(Receive(p))
                      /\ WF_vars(p \in asked /\ ConnectionEnds(p))

FairSpec == Spec /\ Fairness

-----------------------------------------------------------------------------
(* Properties.                                                             *)

InSeq(x, s) == \E i \in DOMAIN s : s[i] = x

Lists == UNION {[S -> Conns \cup {Absent}] : S \in SUBSET Apps}
Messages == [services : Lists, clients : Lists]

\* The tables, the lists and the processes' tokens keep their types.
TypeOK ==
  /\ conn \in [Conns -> {"none", "open", "closed"}] /\ asked \subseteq Conns
  /\ alive \in BOOLEAN /\ round \in {"closes", "hellos"}
  /\ tasks \in Seq(Conns) /\ batch \in Seq(Conns)
  /\ closeList \in Seq(Conns) /\ pumping \in Seq(Conns)
  /\ peerServices \in [Conns -> Apps \cup {Absent}]
  /\ idServices \in [Apps -> Conns \cup {Absent}]
  /\ tokens \in [Keys -> Conns \cup {Absent}]
  /\ sessionKeys \in [Apps -> SUBSET Keys]
  /\ link \in [Conns -> Seq(Messages)]
  /\ held \in [Conns -> [Apps -> Conns \cup {Absent}]]
  /\ sessions \in [Conns -> [Apps -> Conns \cup {Absent}]]

\* The raw TcpPeer* in the tables: the one registered for an application is
\* that of a connection which registered as that application, and its object
\* lives, for the connection is open or its end is still to be told.
PeersAlive ==
  /\ \A a \in Apps : \A p \in Conns :
       idServices[a] = p => peerServices[p] = a
  /\ \A p \in Conns : peerServices[p] # Absent =>
       conn[p] = "open" \/ InSeq(p, closeList) \/ InSeq(p, pumping)

TablesOK == TypeOK /\ PeersAlive

Registered(q) == conn[q] = "open" /\ idServices[AppOf(q)] = q

\* A process with the messages s on its way, which now accepts the token given
\* from client c, accepts token from it once it has handled them.
Mentions(s, c) == {i \in DOMAIN s : c \in DOMAIN s[i].clients}

Accepts(s, given, c, token) ==
  IF Mentions(s, c) = {} THEN given = token
  ELSE \E i \in Mentions(s, c) :
         (\A j \in Mentions(s, c) : j <= i) /\ s[i].clients[c] = token

\* A registered server accepts, of each client that depends on it, the token
\* made for the client's registered connection and no other, and nothing of a
\* client that has gone, as soon as it has handled what was sent to it,
\* whichever of them starts first, goes or comes again; a process is given
\* the tokens made for itself.
TokensAgree ==
  /\ \A q \in Conns : Registered(q) =>
       \A c \in Provides(AppOf(q)) :
         Accepts(link[q], sessions[q][c], c, idServices[c])
  /\ \A p \in Conns : \A d \in Apps : held[p][d] \in {Absent, p}

\* MethodAuth::CheckAuth for a call that process p makes to server q.
CheckAuth(q, p) ==
  sessions[q][AppOf(p)] # Absent /\ held[p][AppOf(q)] = sessions[q][AppOf(p)]

\* A call is accepted exactly when it should be: a registered server that has
\* handled what was sent to it accepts a process only if that is the one the
\* center has for its application, and not one that has gone or that another
\* run has replaced; and it does accept a registered process that has handled
\* what was sent to it, whichever of the two said hello first.
AcceptsExactly ==
  \A p, q \in Conns :
    AppOf(q) \in Depends[AppOf(p)] /\ Registered(q) /\ link[q] = <<>> =>
      /\ CheckAuth(q, p) => idServices[AppOf(p)] = p
      /\ Registered(p) /\ link[p] = <<>> => CheckAuth(q, p)

\* A server that stays registered comes to accept the calls of each client
\* that stays registered, and forgets a client whose connection has ended.
ServersLearn ==
  \A p, q \in Conns : AppOf(q) \in Depends[AppOf(p)] =>
    /\ Registered(p) /\ Registered(q)
         ~> CheckAuth(q, p) \/ ~Registered(p) \/ ~Registered(q)
    /\ conn[p] = "closed" /\ Registered(q)
         ~> sessions[q][AppOf(p)] # p \/ ~Registered(q) \/ ~alive

=============================================================================
