------------------------------ MODULE RdrServer ------------------------------
(***************************************************************************)
(* The renderer's server: the clients of the Unix socket and of the web    *)
(* socket, the endpoint each of them is given, the list of endpoints not   *)
(* yet authenticated, the table of endpoint names, the tree of living      *)
(* endpoints, and the checks made when the user interface is idle          *)
(* (renderer/server.c, endpoint.c, and the accept, read and close paths of *)
(* unixsocket.c and websocket.c).                                          *)
(*                                                                         *)
(* Everything runs on the thread of the user interface, inside the idle    *)
(* hook check_server_on_idle, one epoll event after another: each event is *)
(* one action here, and clients and the clock act between any two events.  *)
(***************************************************************************)
EXTENDS Integers, FiniteSets, Sequences

CONSTANTS
  Clients,        \* connections; a slot is reused after its connection ended
  WSClients,      \* those of the web socket, the others use the Unix socket
  Endpoints,      \* addresses of Endpoint structures: calloc fails when none is left
  Names,          \* normalised endpoint names
  None,           \* NULL
  MaxClients,     \* MAX_CLIENTS_EACH
  PingTime,       \* PCRDR_MAX_PING_TIME, in seconds
  NoRespTime,     \* PCRDR_MAX_NO_RESPONDING_TIME, in seconds
  NoRespEvery,    \* check_no_responding_endpoints runs at its multiples (10)
  DanglingEvery,  \* check_dangling_endpoints runs at its other multiples (5)
  IdleEverySecond,\* the user interface is idle at least once in every second
  MayFail,        \* kvlist_set or the calloc of a SessionInfo may fail
  Ops             \* bound: the operations the clients of an instance use

ASSUME ClientsAssumption == WSClients \subseteq Clients /\ IsFiniteSet(Clients)
ASSUME EndpointsAssumption == IsFiniteSet(Endpoints) /\ IsFiniteSet(Names)
ASSUME NoneAssumption == None \notin Clients \cup Endpoints \cup Names
ASSUME TimesAssumption ==
  /\ MaxClients \in Nat /\ PingTime \in Nat /\ NoRespTime \in Nat
  /\ NoRespEvery \in Nat \ {0} /\ DanglingEvery \in Nat \ {0}
ASSUME FlagsAssumption == IdleEverySecond \in BOOLEAN /\ MayFail \in BOOLEAN

VARIABLES
  srv,         \* "running", "stopped", or how the process died
  conn,        \* [Clients -> {"closed", "backlog", "open"}]
  alive,       \* [Clients -> BOOLEAN]: the peer has not closed its end
  inbox,       \* [Clients -> Msgs]: what the peer sent and nobody read yet
  hs,          \* [Clients -> BOOLEAN]: web socket, the handshake is over
  entity,      \* [Clients -> Endpoints \cup {None}]: SockClient.entity
  nrClients,   \* [Kinds -> Int]: nr_clients of USServer and WSServer
  alloc,       \* the Endpoint structures in use
  client,      \* [Endpoints -> Clients \cup {None}]: entity.client
  name,        \* [Endpoints -> Names \cup {None}]: what assemble_endpoint_name yields
  sess,        \* [Endpoints -> BOOLEAN]: session_info is not NULL
  age,         \* seconds since t_created or, once ready, since t_living
  pinged,      \* endpoints pinged since t_living was last set (auxiliary)
  dangling,    \* the list dangling_endpoints
  list,        \* [Names -> Endpoints \cup {None}]: endpoint_list
  living,      \* the endpoints in living_avl
  nrEndpoints, \* nr_endpoints
  phase,       \* t_elapsed modulo NoRespEvery
  checked      \* t_elapsed = t_elapsed_last

clientVars == <<conn, alive, inbox, hs, entity, nrClients>>
endpointVars == <<alloc, client, name, sess, age, pinged>>
tableVars == <<dangling, list, living, nrEndpoints>>
clockVars == <<phase, checked>>
vars == <<srv, clientVars, endpointVars, tableVars, clockVars>>

-----------------------------------------------------------------------------
Kinds == {"us", "ws"}
KindOf(c) == IF c \in WSClients THEN "ws" ELSE "us"

\* startSession names an endpoint; the name is None when authenticate_endpoint
\* finds the protocol, the version or one of the names unacceptable.
StartMsgs == [op : {"startSession"}, name : Names \cup {None}]
\* "window" stands for every request whose handler uses session_info,
\* "unknown" for a request that is only answered, "event" for a message that
\* is not, "garbage" for a packet that cannot be parsed or is binary.
OtherMsgs == [op : {"endSession", "window", "unknown", "event", "garbage",
                    "pong", "close"}, name : {None}]
\* A piece of the HTTP upgrade request: not the last, the last, unacceptable.
HsOps == {"hsPart", "hsEnd", "hsBad"}
HsMsgs == [op : HsOps, name : {None}]
NoMsg == [op |-> "none", name |-> None]
Msgs == StartMsgs \cup OtherMsgs \cup HsMsgs \cup {NoMsg}

Replied == {"startSession", "endSession", "window", "unknown"}
Packets == Replied \cup {"event", "garbage"}

\* Ages need not grow beyond the bound every check compares them with.
MaxAge == NoRespTime + 1

InDangling(e) == \E i \in DOMAIN dangling : dangling[i] = e

\* The elements of the sequence s that are in S, in their order.
Keep(s, S) ==
  LET kept == {i \in DOMAIN s : s[i] \in S}
  IN  [k \in 1..Cardinality(kept) |->
         s[CHOOSE i \in kept : Cardinality({j \in kept : j <= i}) = k]]

\* gslist_insert_append inserts AFTER the node it is given and returns the new
\* node, which store_dangling_endpoint makes the head of the list.
StoreDangling(l, e) == IF l = <<>> THEN <<e>> ELSE <<e>> \o Tail(l)

Readable(c) == conn[c] = "backlog"
            \/ (conn[c] = "open" /\ (inbox[c] # NoMsg \/ ~alive[c]))

Running == srv = "running"

Init ==
  /\ srv = "running"
  /\ conn = [c \in Clients |-> "closed"]
  /\ alive = [c \in Clients |-> FALSE]
  /\ inbox = [c \in Clients |-> NoMsg]
  /\ hs = [c \in Clients |-> FALSE]
  /\ entity = [c \in Clients |-> None]
  /\ nrClients = [k \in Kinds |-> 0]
  /\ alloc = {}
  /\ client = [e \in Endpoints |-> None]
  /\ name = [e \in Endpoints |-> None]
  /\ sess = [e \in Endpoints |-> FALSE]
  /\ age = [e \in Endpoints |-> 0]
  /\ pinged = {}
  /\ dangling = <<>>
  /\ list = [n \in Names |-> None]
  /\ living = {}
  /\ nrEndpoints = 0
  /\ phase = 0
  /\ checked = TRUE

-----------------------------------------------------------------------------
(* What a client does on its own, and the clock.                           *)

Connect(c) ==
  /\ Running
  /\ conn[c] = "closed"
  /\ conn' = [conn EXCEPT ![c] = "backlog"]
  /\ alive' = [alive EXCEPT ![c] = TRUE]
  /\ UNCHANGED <<srv, inbox, hs, entity, nrClients, endpointVars, tableVars, clockVars>>

PeerClose(c) ==
  /\ Running
  /\ conn[c] # "closed" /\ alive[c]
  /\ alive' = [alive EXCEPT ![c] = FALSE]
  /\ UNCHANGED <<srv, conn, inbox, hs, entity, nrClients, endpointVars, tableVars, clockVars>>

\* A web socket client sends its request in pieces, then frames.
Send(c, m) ==
  /\ Running
  /\ conn[c] # "closed" /\ alive[c] /\ inbox[c] = NoMsg
  /\ m.op \in Ops
  /\ m \in (IF c \in WSClients /\ ~hs[c] THEN HsMsgs ELSE StartMsgs \cup OtherMsgs)
  /\ inbox' = [inbox EXCEPT ![c] = m]
  /\ UNCHANGED <<srv, conn, alive, hs, entity, nrClients, endpointVars, tableVars, clockVars>>

\* Mutant: the phase is never reduced.
TickNoModulo ==
  /\ Running
  /\ phase' = phase + 1
  /\ checked' = FALSE
  /\ UNCHANGED <<srv, clientVars, endpointVars, tableVars>>

\* A second of the clock passes; MaxAge bounds the ages.
Tick ==
  /\ Running
  /\ IdleEverySecond => checked
  /\ phase' = (phase + 1) % NoRespEvery
  /\ checked' = FALSE
  /\ age' = [e \in Endpoints |->
               IF e \in alloc /\ age[e] < MaxAge THEN age[e] + 1 ELSE age[e]]
  /\ UNCHANGED <<srv, clientVars, alloc, client, name, sess, pinged, tableVars>>

-----------------------------------------------------------------------------
(* Pieces of the handlers.                                                 *)

\* us_cleanup_client and ws_cleanup_client of the clients in C, on_close apart.
HangUp(C) ==
  /\ conn' = [c \in Clients |-> IF c \in C THEN "closed" ELSE conn[c]]
  /\ alive' = [c \in Clients |-> alive[c] /\ c \notin C]
  /\ inbox' = [c \in Clients |-> IF c \in C THEN NoMsg ELSE inbox[c]]
  /\ hs' = [c \in Clients |-> hs[c] /\ c \notin C]
  /\ entity' = [c \in Clients |-> IF c \in C THEN None ELSE entity[c]]
  /\ nrClients' = [k \in Kinds |->
                     nrClients[k] - Cardinality({c \in C : KindOf(c) = k})]

\* del_endpoint of the endpoints in E: the session, the living tree, the memory.
Forget(E) ==
  /\ living' = living \ E
  /\ alloc' = alloc \ E
  /\ client' = [e \in Endpoints |-> IF e \in E THEN None ELSE client[e]]
  /\ name' = [e \in Endpoints |-> IF e \in E THEN None ELSE name[e]]
  /\ sess' = [e \in Endpoints |-> sess[e] /\ e \notin E]
  /\ age' = [e \in Endpoints |-> IF e \in E THEN 0 ELSE age[e]]

\* The names under which kvlist_delete finds an entry for an endpoint of E.
NamesOf(E) == {n \in Names : list[n] # None /\ \E e \in E : name[e] = n}

\* Mutant: the name of an endpoint that goes stays in the table.
UnlistNothing(E) == list' = list

Unlist(E) == list' = [n \in Names |-> IF n \in NamesOf(E) THEN None ELSE list[n]]

\* Mutant: on_close forgets the dangling list.
DisconnectKeepsDangling(c) ==
  LET E == {entity[c]} \ {None}
  IN  /\ HangUp({c})
      /\ Forget(E)
      /\ pinged' = pinged \ E
      /\ Unlist(E)
      /\ nrEndpoints' = nrEndpoints - Cardinality(NamesOf(E))
      /\ UNCHANGED <<srv, dangling, clockVars>>

\* on_close: an endpoint with a name leaves the table, and is counted only if
\* the table had it; one without leaves the dangling list.
Disconnect(c) ==
  LET E == {entity[c]} \ {None}
  IN  /\ HangUp({c})
      /\ Forget(E)
      /\ pinged' = pinged \ E
      /\ Unlist(E)
      /\ nrEndpoints' = nrEndpoints - Cardinality(NamesOf(E))
      /\ dangling' = Keep(dangling, Endpoints \ {e \in E : name[e] = None})
      /\ UNCHANGED <<srv, clockVars>>

\* new_endpoint and, when the peer reads it, the initial response: entity
\* now refers to e, whatever it referred to before.
NewEndpoint(c, e) ==
  /\ e \in Endpoints \ alloc
  /\ alloc' = alloc \cup {e}
  /\ client' = [client EXCEPT ![e] = c]
  /\ age' = [age EXCEPT ![e] = 0]
  /\ entity' = [entity EXCEPT ![c] = e]
  /\ dangling' = StoreDangling(dangling, e)
  /\ UNCHANGED <<name, sess, pinged, list, living, nrEndpoints>>

\* update_endpoint_living_time, before anything is read.
Touched(c) == {entity[c]} \cap living
Touch(c) ==
  /\ age' = [e \in Endpoints |-> IF e \in Touched(c) THEN 0 ELSE age[e]]
  /\ pinged' = pinged \ Touched(c)

Consume(c) == inbox' = [inbox EXCEPT ![c] = NoMsg]

-----------------------------------------------------------------------------
(* Connections: us_handle_accept, ws_handle_accept, the WebSocket upgrade. *)

\* Mutant: a refused client stays counted.
RefuseCounted(c) ==
  /\ Running
  /\ conn[c] = "backlog"
  /\ conn' = [conn EXCEPT ![c] = "closed"]
  /\ alive' = [alive EXCEPT ![c] = FALSE]
  /\ inbox' = [inbox EXCEPT ![c] = NoMsg]
  /\ nrClients' = [nrClients EXCEPT ![KindOf(c)] = @ + 1]
  /\ UNCHANGED <<srv, hs, entity, endpointVars, tableVars, clockVars>>

\* The connection is closed at once: bad credentials of a Unix socket peer, no
\* memory, too many clients, no endpoint to be had.  nr_clients ends unchanged.
Refuse(c) ==
  /\ Running
  /\ conn[c] = "backlog"
  /\ \/ c \notin WSClients
     \/ nrClients[KindOf(c)] + 1 > MaxClients
  /\ conn' = [conn EXCEPT ![c] = "closed"]
  /\ alive' = [alive EXCEPT ![c] = FALSE]
  /\ inbox' = [inbox EXCEPT ![c] = NoMsg]
  /\ UNCHANGED <<srv, hs, entity, nrClients, endpointVars, tableVars, clockVars>>

AcceptUS(c, e) ==
  /\ Running
  /\ conn[c] = "backlog" /\ c \notin WSClients /\ alive[c]
  /\ nrClients["us"] + 1 <= MaxClients
  /\ NewEndpoint(c, e)
  /\ conn' = [conn EXCEPT ![c] = "open"]
  /\ nrClients' = [nrClients EXCEPT !["us"] = @ + 1]
  /\ UNCHANGED <<srv, alive, inbox, hs, clockVars>>

\* The peer is gone when the initial response is sent (EPIPE): the endpoint is
\* stored, then removed by on_close, and the head it replaced stays lost.
AcceptDeadUS(c) ==
  /\ Running
  /\ conn[c] = "backlog" /\ c \notin WSClients /\ ~alive[c]
  /\ nrClients["us"] + 1 <= MaxClients
  /\ Endpoints \ alloc # {}
  /\ conn' = [conn EXCEPT ![c] = "closed"]
  /\ inbox' = [inbox EXCEPT ![c] = NoMsg]
  /\ dangling' = IF dangling = <<>> THEN <<>> ELSE Tail(dangling)
  /\ UNCHANGED <<srv, alive, hs, entity, nrClients, endpointVars, list, living,
                 nrEndpoints, clockVars>>

AcceptWS(c) ==
  /\ Running
  /\ conn[c] = "backlog" /\ c \in WSClients
  /\ nrClients["ws"] + 1 <= MaxClients
  /\ conn' = [conn EXCEPT ![c] = "open"]
  /\ nrClients' = [nrClients EXCEPT !["ws"] = @ + 1]
  /\ UNCHANGED <<srv, alive, inbox, hs, entity, endpointVars, tableVars, clockVars>>

HasMsg(c, ops) == Running /\ conn[c] = "open" /\ inbox[c].op \in ops

\* read_client_data calls on_accepted after every piece of the upgrade request
\* that leaves the connection open, the last one or not.
Upgrade(c, e) ==
  /\ HasMsg(c, {"hsPart", "hsEnd"})
  /\ hs' = [hs EXCEPT ![c] = inbox[c].op = "hsEnd"]
  /\ Consume(c)
  /\ NewEndpoint(c, e)
  /\ UNCHANGED <<srv, conn, alive, nrClients, clockVars>>

\* new_endpoint fails: the status becomes WS_READING and the connection stays.
UpgradeNoEndpoint(c) ==
  /\ HasMsg(c, {"hsPart", "hsEnd"})
  /\ Endpoints \subseteq alloc
  /\ hs' = [hs EXCEPT ![c] = inbox[c].op = "hsEnd"]
  /\ Consume(c)
  /\ UNCHANGED <<srv, conn, alive, entity, nrClients, endpointVars, tableVars, clockVars>>

-----------------------------------------------------------------------------
(* Messages: on_packet, on_got_message and the session's two handlers.     *)

\* A reply goes out: the peer reads it, or it is a web socket peer whose
\* closing the kernel has not noticed yet.
Answerable(c) == alive[c] \/ c \in WSClients

Bound(c) == entity[c] # None

\* on_start_session drops the old session_info before it knows the outcome.
StartSession(c) ==
  /\ HasMsg(c, {"startSession"}) /\ Bound(c)
  /\ Consume(c)
  /\ UNCHANGED <<srv, conn, alive, hs, entity, nrClients, alloc, client, clockVars>>

\* Bad request, upgrade required, not acceptable, conflict, or an endpoint that
\* make_endpoint_ready does not find in the dangling list.
StartRefused(c) ==
  LET e == entity[c]
  IN  /\ StartSession(c) /\ Answerable(c)
      /\ inbox[c].name # None => list[inbox[c].name] # None \/ ~InDangling(e)
      /\ sess' = [sess EXCEPT ![e] = FALSE]
      /\ Touch(c)
      /\ UNCHANGED <<name, tableVars>>

\* make_endpoint_ready, then a SessionInfo if memory allows.
StartAccepted(c, n) ==
  LET e == entity[c]
  IN  /\ StartSession(c) /\ Answerable(c)
      /\ n = inbox[c].name /\ list[n] = None /\ InDangling(e)
      /\ dangling' = Keep(dangling, Endpoints \ {e})
      /\ list' = [list EXCEPT ![n] = e]
      /\ living' = living \cup {e}
      /\ nrEndpoints' = nrEndpoints + 1
      /\ name' = [name EXCEPT ![e] = n]
      /\ age' = [age EXCEPT ![e] = 0]
      /\ \E ok \in (IF MayFail THEN BOOLEAN ELSE {TRUE}) : sess' = [sess EXCEPT ![e] = ok]
      /\ UNCHANGED pinged

\* kvlist_set fails after the endpoint has left the dangling list.
StartNotStored(c) ==
  LET e == entity[c]
  IN  /\ MayFail
      /\ StartSession(c) /\ Answerable(c)
      /\ inbox[c].name # None /\ list[inbox[c].name] = None /\ InDangling(e)
      /\ dangling' = Keep(dangling, Endpoints \ {e})
      /\ sess' = [sess EXCEPT ![e] = FALSE]
      /\ UNCHANGED <<name, age, pinged, list, living, nrEndpoints>>

\* Mutant: the end of the session gives the name back as well.
EndSessionLogsOff(c) ==
  LET e == entity[c]
  IN  /\ HasMsg(c, {"endSession"}) /\ Bound(c) /\ Answerable(c)
      /\ sess' = [sess EXCEPT ![e] = FALSE]
      /\ name' = [name EXCEPT ![e] = None]
      /\ list' = [n \in Names |-> IF list[n] = e THEN None ELSE list[n]]
      /\ living' = living \ {e}
      /\ nrEndpoints' = Cardinality(living \ {e})
      /\ Consume(c)
      /\ UNCHANGED <<srv, conn, alive, hs, entity, nrClients, alloc, client, age,
                     pinged, dangling, clockVars>>

EndSession(c) ==
  /\ HasMsg(c, {"endSession"}) /\ Bound(c) /\ Answerable(c)
  /\ sess' = [sess EXCEPT ![entity[c]] = FALSE]
  /\ Touch(c) /\ Consume(c)
  /\ UNCHANGED <<srv, conn, alive, hs, entity, nrClients, alloc, client, name,
                 tableVars, clockVars>>

\* Everything that leaves the registry alone: a request that is served or just
\* answered, an event, a pong; a bad packet, which only the web socket forgives.
OtherMessage(c) ==
  /\ \/ HasMsg(c, {"window"}) /\ Bound(c) /\ sess[entity[c]] /\ Answerable(c)
     \/ HasMsg(c, {"unknown"}) /\ Bound(c) /\ Answerable(c)
     \/ HasMsg(c, {"event"}) /\ Bound(c)
     \/ HasMsg(c, {"garbage"}) /\ Bound(c) /\ c \in WSClients
     \/ HasMsg(c, {"pong"})
  /\ Touch(c) /\ Consume(c)
  /\ UNCHANGED <<srv, conn, alive, hs, entity, nrClients, alloc, client, name,
                 sess, tableVars, clockVars>>

\* The handler follows session_info, which is NULL.
WindowWithoutSession(c) ==
  /\ HasMsg(c, {"window"}) /\ Bound(c) /\ ~sess[entity[c]]
  /\ srv' = "crashed"
  /\ UNCHANGED <<clientVars, endpointVars, tableVars, clockVars>>

\* assert (client->entity) in on_packet.
PacketWithoutEntity(c) ==
  /\ HasMsg(c, Packets) /\ ~Bound(c)
  /\ srv' = "aborted"
  /\ UNCHANGED <<clientVars, endpointVars, tableVars, clockVars>>

\* The connection ends after this read: end of file, a close frame, a bad
\* upgrade request, a bad packet on the Unix socket, or a reply that nobody reads.
ReadEnds(c) ==
  /\ Running
  /\ conn[c] = "open"
  /\ \/ inbox[c] = NoMsg /\ ~alive[c]
     \/ inbox[c].op \in {"close", "hsBad"}
     \/ inbox[c].op = "garbage" /\ c \notin WSClients
     \/ /\ ~alive[c] /\ inbox[c].op \in Replied /\ Bound(c)
        /\ inbox[c].op = "window" => sess[entity[c]]
  /\ Disconnect(c)

-----------------------------------------------------------------------------
(* The branch of check_server_on_idle taken when no descriptor is ready.   *)

Quiet == \A c \in Clients : ~Readable(c)
Idle == Running /\ Quiet /\ ~checked

\* Mutant: the endpoints removed are still counted.
CheckNoRespondingUncounted ==
  LET E == {e \in living : age[e] > NoRespTime}
      P == {e \in living \ E : age[e] > PingTime}
  IN  /\ Idle /\ phase = 0
      /\ HangUp({client[e] : e \in E})
      /\ Unlist(E)
      /\ nrEndpoints' = nrEndpoints
      /\ Forget(E)
      /\ pinged' = (pinged \cup P) \ E
      /\ checked' = TRUE
      /\ UNCHANGED <<srv, dangling, phase>>

\* Mutant: nobody is ever pinged.
CheckNoRespondingNoPing ==
  LET E == {e \in living : age[e] > NoRespTime}
      P == {}
  IN  /\ Idle /\ phase = 0
      /\ HangUp({client[e] : e \in E})
      /\ Unlist(E)
      /\ nrEndpoints' = nrEndpoints - Cardinality(E)
      /\ Forget(E)
      /\ pinged' = (pinged \cup P) \ E
      /\ checked' = TRUE
      /\ UNCHANGED <<srv, dangling, phase>>

\* Mutant: the two limits are compared in the wrong order.
CheckNoRespondingPingFirst ==
  LET E == {e \in living : age[e] > NoRespTime /\ age[e] <= PingTime}
      P == {e \in living \ E : age[e] > PingTime}
  IN  /\ Idle /\ phase = 0
      /\ HangUp({client[e] : e \in E})
      /\ Unlist(E)
      /\ nrEndpoints' = nrEndpoints - Cardinality(E)
      /\ Forget(E)
      /\ pinged' = (pinged \cup P) \ E
      /\ checked' = TRUE
      /\ UNCHANGED <<srv, dangling, phase>>

\* cleanup_endpoint_client sets entity to NULL before it closes the
\* connection, so that on_close finds nothing to do.
CheckNoResponding ==
  LET E == {e \in living : age[e] > NoRespTime}
      P == {e \in living \ E : age[e] > PingTime}
  IN  /\ Idle /\ phase = 0
      /\ HangUp({client[e] : e \in E})
      /\ Unlist(E)
      /\ nrEndpoints' = nrEndpoints - Cardinality(E)
      /\ Forget(E)
      /\ pinged' = (pinged \cup P) \ E
      /\ checked' = TRUE
      /\ UNCHANGED <<srv, dangling, phase>>

\* Mutant: the endpoints removed stay in the list.
CheckDanglingKeeps ==
  LET E == {e \in Endpoints : InDangling(e) /\ age[e] > NoRespTime}
  IN  /\ Idle /\ phase # 0 /\ phase % DanglingEvery = 0
      /\ HangUp({client[e] : e \in E} \ {None})
      /\ Forget(E)
      /\ pinged' = pinged \ E
      /\ checked' = TRUE
      /\ UNCHANGED <<srv, dangling, list, nrEndpoints, phase>>

CheckDangling ==
  LET E == {e \in Endpoints : InDangling(e) /\ age[e] > NoRespTime}
  IN  /\ Idle /\ phase # 0 /\ phase % DanglingEvery = 0
      /\ HangUp({client[e] : e \in E})
      /\ Forget(E)
      /\ pinged' = pinged \ E
      /\ dangling' = Keep(dangling, Endpoints \ E)
      /\ checked' = TRUE
      /\ UNCHANGED <<srv, list, nrEndpoints, phase>>

CheckNothing ==
  /\ Idle /\ phase # 0 /\ phase % DanglingEvery # 0
  /\ checked' = TRUE
  /\ UNCHANGED <<srv, clientVars, endpointVars, tableVars, phase>>

\* deinit_server: the listed and the dangling endpoints go, whatever else is
\* allocated is left to the end of the process; then the assertion.
Shutdown ==
  LET L == {list[n] : n \in Names} \ {None}
      D == {e \in Endpoints : InDangling(e)}
      left == nrEndpoints - Cardinality({n \in Names : list[n] # None})
  IN  /\ Running
      /\ HangUp({client[e] : e \in L \cup D} \ {None})
      /\ Forget(L \cup D)
      /\ pinged' = {}
      /\ list' = [n \in Names |-> None]
      /\ dangling' = <<>>
      /\ nrEndpoints' = left
      /\ srv' = IF left = 0 THEN "stopped" ELSE "leftover"
      /\ UNCHANGED clockVars

-----------------------------------------------------------------------------
Accept(c) == Refuse(c) \/ AcceptDeadUS(c) \/ AcceptWS(c)
             \/ \E e \in Endpoints : AcceptUS(c, e)

Read(c) ==
  \/ UpgradeNoEndpoint(c)
  \/ \E e \in Endpoints : Upgrade(c, e)
  \/ StartRefused(c)
  \/ \E n \in Names : StartAccepted(c, n)
  \/ StartNotStored(c)
  \/ EndSession(c)
  \/ OtherMessage(c)
  \/ WindowWithoutSession(c)
  \/ PacketWithoutEntity(c)
  \/ ReadEnds(c)

IdlePoll == CheckNoResponding \/ CheckDangling \/ CheckNothing

Next ==
  \/ \E c \in Clients : Connect(c) \/ PeerClose(c) \/ Accept(c) \/ Read(c)
  \/ \E c \in Clients, m \in Msgs : Send(c, m)
  \/ Tick
  \/ IdlePoll
  \/ Shutdown

Spec == Init /\ [][Next]_vars

\* Events are served and the clock runs; the idle hook is called again and
\* again, and the clients leave moments without a readable socket: those that
\* never do keep check_server_on_idle from its timers.
Fairness ==
  /\ \A c \in Clients : WF_vars(Accept(c) \/ Read(c))
  /\ WF_vars(Tick)
  /\ SF_vars(IdlePoll)
  /\ []<>(Quiet \/ ~Running)

FairSpec == Spec /\ Fairness

-----------------------------------------------------------------------------
(* Safety.                                                                 *)

ClientTypes ==
  /\ conn \in [Clients -> {"closed", "backlog", "open"}]
  /\ alive \in [Clients -> BOOLEAN]
  /\ inbox \in [Clients -> Msgs]
  /\ hs \in [Clients -> BOOLEAN]
  /\ entity \in [Clients -> Endpoints \cup {None}]
  /\ nrClients \in [Kinds -> Int]

EndpointTypes ==
  /\ alloc \subseteq Endpoints
  /\ client \in [Endpoints -> Clients \cup {None}]
  /\ name \in [Endpoints -> Names \cup {None}]
  /\ sess \in [Endpoints -> BOOLEAN]
  /\ age \in [Endpoints -> 0..MaxAge]
  /\ pinged \subseteq Endpoints

TableTypes ==
  /\ dangling \in Seq(Endpoints)
  /\ list \in [Names -> Endpoints \cup {None}]
  /\ living \subseteq Endpoints
  /\ nrEndpoints \in Int

\* The types of all variables: what each field of the structures may hold.
TypeOK ==
  /\ srv \in {"running", "stopped", "crashed", "aborted", "leftover"}
  /\ ClientTypes /\ EndpointTypes /\ TableTypes
  /\ phase \in 0..(NoRespEvery - 1)
  /\ checked \in BOOLEAN

\* No stale pointer can be followed: a client's entity is an allocated endpoint
\* that points back at this client, whose connection is open; and every endpoint
\* the timers walk over (dangling_endpoints, living_avl) or that a name leads
\* to is still the entity of its client.  cleanup_endpoint_client follows these
\* pointers without looking.
PointersSound ==
  /\ \A c \in Clients : entity[c] # None =>
       conn[c] = "open" /\ entity[c] \in alloc /\ client[entity[c]] = c
  /\ \A e \in Endpoints :
       InDangling(e) \/ e \in living \/ (\E n \in Names : list[n] = e) =>
         e \in alloc /\ client[e] # None /\ entity[client[e]] = e

\* The table of names, the endpoints' own names and the tree of living endpoints
\* say the same, and no endpoint is both authenticated and waiting to be.
TablesAgree ==
  /\ \A e \in Endpoints, n \in Names : name[e] = n <=> list[n] = e
  /\ living = {e \in Endpoints : name[e] # None}
  /\ \A e \in living : ~InDangling(e)

\* nr_endpoints counts the authenticated endpoints and nr_clients the open
\* connections of each kind, never more than the limit.
CountsRight ==
  /\ nrEndpoints = Cardinality(living)
  /\ \A k \in Kinds :
       /\ nrClients[k] = Cardinality({c \in Clients : conn[c] = "open" /\ KindOf(c) = k})
       /\ nrClients[k] <= MaxClients

\* assert (the_server.nr_endpoints == 0) at the end of deinit_server holds.
ShutdownClean == srv # "leftover"

-----------------------------------------------------------------------------
(* Steps.                                                                  *)

\* An authenticated endpoint dropped as not responding has been pinged since it
\* was last heard: PCRDR_MAX_PING_TIME and the period of the check leave room
\* for a ping before PCRDR_MAX_NO_RESPONDING_TIME (true when the user interface
\* is idle in every second).
DroppedWasPinged ==
  [][\A e \in living : CheckNoResponding /\ e \notin living' => e \in pinged]_vars

\* The implementation of the abstract registry of names.
Registry == INSTANCE NameRegistry WITH
  connected <- {c \in Clients : conn[c] = "open"},
  holder <- [n \in Names |-> IF list[n] = None THEN None ELSE client[list[n]]]

RegistrySpec == Registry!Spec

-----------------------------------------------------------------------------
(* Liveness, under FairSpec.                                               *)

\* An authenticated endpoint that stays silent beyond the limit is removed.
SilentRemoved ==
  \A e \in Endpoints :
    (e \in living /\ age[e] > NoRespTime)
      ~> (e \notin living \/ age[e] = 0 \/ srv # "running")

\* An endpoint in the dangling list is authenticated or removed, never forgotten
\* while it is the list's.
DanglingResolved ==
  \A e \in Endpoints : InDangling(e) ~> (~InDangling(e) \/ srv # "running")

-----------------------------------------------------------------------------
(* What the sources say and the code does not do.                          *)

\* server.h: dangling_endpoints holds "The accepted endpoints but waiting for
\* authentification".
DanglingHoldsAuthing ==
  \A c \in Clients : Bound(c) /\ name[entity[c]] = None => InDangling(entity[c])

=============================================================================
