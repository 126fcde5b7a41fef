---------------------------- MODULE TunnelsProofs ----------------------------
(***************************************************************************)
(* What holds of the tunnels of edge environments for every number of      *)
(* environments, ports and requests: the types, that a cached response is  *)
(* current (CacheIsCurrent), and that a proxy leads to the open tunnel     *)
(* (ProxiesFollowTunnels), each with the crossings it names.               *)
(***************************************************************************)
EXTENDS Tunnels, TablesTheorems

-----------------------------------------------------------------------------
(* Types.  TypeOK is not inductive by itself: a request or the loop that   *)
(* has an environment in hand uses it as a key, and the port of a proxy is *)
(* one at which somebody listened.                                         *)

ClientInHand(c) ==
  /\ clients[c].pc # "idle" => clients[c].env \in Envs
  /\ clients[c].pc = "store" => clients[c].port \in Ports

TypeInv ==
  /\ TypeOK
  /\ \A c \in Clients : ClientInHand(c)
  /\ loop.pc # "idle" => loop.env \in Envs

LEMMA InitTypes == Init => TypeInv
<1> SUFFICES ASSUME Init PROVE TypeInv
  OBVIOUS
<1> USE BoundsAssumption
<1>4. Waiting \in Loop /\ Waiting.pc = "idle"
  BY DEF Waiting, Loop
<1>5. NoRequest \in Client /\ NoRequest.pc = "idle"
  BY DEF NoRequest, Client
<1>6. TypeOK
  <2>1. /\ IsTable(tunnels, Envs, Tunnel)
        /\ IsTable(proxies, Envs, Ports)
        /\ IsTable(etag, Envs, Response)
    BY EmptyIsTable DEF Init
  <2> QED BY <1>4, <1>5, <2>1 DEF Init, TypeOK
<1> QED BY <1>4, <1>5, <1>6 DEF Init, TypeInv, ClientInHand

\* What Config answers is a response.
LEMMA ConfigIsResponse ==
  ASSUME TypeOK, NEW e
  PROVE  Config(e) \in Response
<1> USE BoundsAssumption
<1>1. CASE IsOpen(e)
  <2>1. tunnels[e] \in Tunnel
    BY <1>1 DEF IsOpen, TypeOK, IsTable
  <2> QED BY <1>1, <2>1 DEF Config, Tunnel, Response
<1>2. CASE ~IsOpen(e)
  BY <1>2 DEF Config, Idle, Response, NoPort
<1> QED BY <1>1, <1>2

\* Somebody listens only at real ports.
LEMMA ListeningArePorts ==
  ASSUME TypeOK
  PROVE  Listening \subseteq Ports
<1>1. \A e \in Envs : told[e].response \in Response
  BY BoundsAssumption DEF TypeOK, Never, Answer, Idle, Response, NoPort
<1> QED BY <1>1 DEF Listening, Response

LEMMA ForgetTypes ==
  ASSUME TypeOK, NEW e \in Envs, Forget(e)
  PROVE  IsTable(etag', Envs, Response) /\ crossed' \subseteq Envs
<1>1. IsTable(etag', Envs, Response)
  BY DropTable DEF Forget, TypeOK
<1>2. crossed' \subseteq Envs
  BY DEF Forget, TypeOK
<1> QED BY <1>1, <1>2

LEMMA OpenTypes ==
  ASSUME TypeOK, NEW e \in Envs, Open(e)
  PROVE  /\ IsTable(tunnels', Envs, Tunnel)
         /\ IsTable(etag', Envs, Response)
         /\ crossed' \subseteq Envs
         /\ opens' \in 0..MaxOpens
<1>1. CASE IsOpen(e) /\ UNCHANGED <<tunnels, etag, crossed, opens>>
  BY <1>1 DEF TypeOK
<1>2. CASE /\ ~IsOpen(e) /\ opens < MaxOpens
           /\ opens' = opens + 1
           /\ \E p \in unusedPorts :
                tunnels' = Put(tunnels, e, [port |-> p, tunnel |-> opens + 1,
                                            fresh |-> TRUE, snapshot |-> FALSE])
           /\ Forget(e)
  <2>1. opens \in 0..MaxOpens /\ opens' \in 1..MaxOpens /\ opens' = opens + 1
    BY <1>2, BoundsAssumption DEF TypeOK
  <2>2. PICK p \in unusedPorts :
          tunnels' = Put(tunnels, e, [port |-> p, tunnel |-> opens + 1,
                                      fresh |-> TRUE, snapshot |-> FALSE])
    BY <1>2
  <2>3. [port |-> p, tunnel |-> opens + 1, fresh |-> TRUE, snapshot |-> FALSE] \in Tunnel
    BY <2>1 DEF Tunnel, unusedPorts
  <2>4. IsTable(tunnels', Envs, Tunnel)
    BY <2>2, <2>3, PutTable DEF TypeOK
  <2> QED BY <1>2, <2>1, <2>4, ForgetTypes
<1> QED BY <1>1, <1>2 DEF Open

LEMMA TouchTypes ==
  ASSUME TypeOK, NEW e, UpdateLastActivity(e)
  PROVE  IsTable(tunnels', Envs, Tunnel)
<1>1. CASE IsOpen(e)
  <2>1. tunnels[e] \in Tunnel
    BY <1>1 DEF IsOpen, TypeOK, IsTable
  <2>2. [tunnels[e] EXCEPT !.fresh = TRUE] \in Tunnel
    BY <2>1 DEF Tunnel
  <2> QED BY <1>1, <2>2, ExceptTable DEF UpdateLastActivity, TypeOK, IsOpen
<1>2. CASE ~IsOpen(e)
  BY <1>2 DEF UpdateLastActivity, TypeOK
<1> QED BY <1>1, <1>2

\* A request whose record changes as far as it may.
LEMMA ClientMoves ==
  ASSUME TypeInv, NEW c \in Clients, NEW r \in Client,
         clients' = [clients EXCEPT ![c] = r],
         r.pc # "idle" => r.env \in Envs,
         r.pc = "store" => r.port \in Ports
  PROVE  clients' \in [Clients -> Client] /\ \A d \in Clients : ClientInHand(d)'
BY DEF TypeInv, TypeOK, ClientInHand

LEMMA RequestTypes ==
  ASSUME TypeInv, NEW c \in Clients, Request(c)
  PROVE  TypeInv'
<1>1. PICK e \in envs :
        /\ Open(e)
        /\ clients' = [clients EXCEPT ![c] = [NoRequest EXCEPT !.pc = "config", !.env = e]]
  BY DEF Request
<1>2. e \in Envs /\ TypeOK
  BY DEF TypeInv, TypeOK
<1> DEFINE r == [NoRequest EXCEPT !.pc = "config", !.env = e]
<1>3. r \in Client /\ r.pc = "config" /\ r.env = e
  BY <1>2 DEF NoRequest, Client
<1>4. clients' \in [Clients -> Client] /\ \A d \in Clients : ClientInHand(d)'
  <2> HIDE DEF r
  <2> QED BY <1>1, <1>2, <1>3, ClientMoves DEF r
<1>5. /\ IsTable(tunnels', Envs, Tunnel) /\ IsTable(etag', Envs, Response)
      /\ crossed' \subseteq Envs /\ opens' \in 0..MaxOpens
  BY <1>1, <1>2, OpenTypes
<1> QED BY <1>4, <1>5 DEF Request, TypeInv, TypeOK

LEMMA ReadConfigTypes ==
  ASSUME TypeInv, NEW c \in Clients, ReadConfig(c)
  PROVE  TypeInv'
<1>1. clients[c] \in Client /\ clients[c].env \in Envs
  BY DEF ReadConfig, TypeInv, TypeOK, ClientInHand
<1>2. Config(clients[c].env).port \in Ports \cup {NoPort}
  BY ConfigIsResponse DEF TypeInv, Response
<1> DEFINE p == Config(clients[c].env).port
           r == [clients[c] EXCEPT !.pc = "dial", !.port = p]
<1> HIDE DEF p
<1>3. r \in Client /\ r.pc = "dial" /\ r.env = clients[c].env
  BY <1>1, <1>2 DEF Client, p
<1>4. clients' = [clients EXCEPT ![c] = r]
  BY DEF ReadConfig, p
<1> HIDE DEF r
<1>5. clients' \in [Clients -> Client] /\ \A d \in Clients : ClientInHand(d)'
  BY <1>1, <1>3, <1>4, ClientMoves
<1> QED BY <1>5 DEF ReadConfig, TypeInv, TypeOK

LEMMA DialedTypes ==
  ASSUME TypeInv, NEW c \in Clients, Dialed(c)
  PROVE  TypeInv'
<1> DEFINE e == clients[c].env
<1>1. /\ TypeOK /\ clients[c] \in Client /\ e \in Envs
      /\ clients[c].port \in Ports
  BY ListeningArePorts DEF Dialed, TypeInv, TypeOK, ClientInHand
<1> DEFINE Tables == /\ IsTable(tunnels', Envs, Tunnel) /\ IsTable(etag', Envs, Response)
                     /\ crossed' \subseteq Envs /\ opens' \in 0..MaxOpens
           Requests == clients' \in [Clients -> Client] /\ \A d \in Clients : ClientInHand(d)'
<1>2. Tables /\ Requests
  <2>1. CASE /\ clients[c].building
             /\ UpdateLastActivity(e)
             /\ Goes(c, "store")
             /\ UNCHANGED <<etag, crossed, opens>>
    <3> DEFINE r == [clients[c] EXCEPT !.pc = "store"]
    <3>1. r \in Client /\ r.env = e /\ r.port \in Ports /\ clients' = [clients EXCEPT ![c] = r]
      BY <1>1, <2>1 DEF Client, Goes
    <3>2. Requests
      <4> HIDE DEF r
      <4> QED BY <1>1, <3>1, ClientMoves
    <3>3. Tables
      BY <1>1, <2>1, TouchTypes DEF TypeOK
    <3> QED BY <3>2, <3>3
  <2>2. CASE /\ ~clients[c].building /\ e \in DOMAIN proxies
             /\ UpdateLastActivity(e)
             /\ clients' = [clients EXCEPT ![c].pc = "serve", ![c].port = proxies[e]]
             /\ UNCHANGED <<etag, crossed, opens>>
    <3> DEFINE r == [clients[c] EXCEPT !.pc = "serve", !.port = proxies[e]]
    <3>1. proxies[e] \in Ports
      BY <1>1, <2>2 DEF TypeOK, IsTable
    <3>2. r \in Client /\ r.env = e /\ r.pc = "serve" /\ clients' = [clients EXCEPT ![c] = r]
      BY <1>1, <2>2, <3>1 DEF Client
    <3>3. Requests
      <4> HIDE DEF r
      <4> QED BY <1>1, <3>2, ClientMoves
    <3>4. Tables
      BY <1>1, <2>2, TouchTypes DEF TypeOK
    <3> QED BY <3>3, <3>4
  <2>3. CASE /\ ~clients[c].building /\ e \notin DOMAIN proxies
             /\ \/ /\ IsOpen(e) /\ UpdateLastActivity(e)
                   /\ UNCHANGED <<etag, crossed, opens>>
                \/ ~IsOpen(e) /\ Open(e)
             /\ clients' = [clients EXCEPT ![c].pc = "config", ![c].building = TRUE]
    <3> DEFINE r == [clients[c] EXCEPT !.pc = "config", !.building = TRUE]
    <3>1. r \in Client /\ r.env = e /\ r.pc = "config" /\ clients' = [clients EXCEPT ![c] = r]
      BY <1>1, <2>3 DEF Client
    <3>2. Requests
      <4> HIDE DEF r
      <4> QED BY <1>1, <3>1, ClientMoves
    <3>3. CASE /\ IsOpen(e) /\ UpdateLastActivity(e)
               /\ UNCHANGED <<etag, crossed, opens>>
      <4>1. Tables
        BY <1>1, <3>3, TouchTypes DEF TypeOK
      <4> QED BY <3>2, <4>1
    <3>4. CASE Open(e)
      <4>1. Tables
        BY <1>1, <3>4, OpenTypes
      <4> QED BY <3>2, <4>1
    <3> QED BY <2>3, <3>3, <3>4
  <2> QED BY <2>1, <2>2, <2>3 DEF Dialed
<1> QED BY <1>2 DEF Dialed, TypeInv, TypeOK

LEMMA TimedOutTypes ==
  ASSUME TypeInv, NEW c \in Clients, TimedOut(c)
  PROVE  TypeInv'
<1>1. NoRequest \in Client /\ NoRequest.pc = "idle"
  BY DEF NoRequest, Client
<1>2. clients' \in [Clients -> Client] /\ \A d \in Clients : ClientInHand(d)'
  BY <1>1, ClientMoves DEF TimedOut
<1> QED BY <1>2 DEF TimedOut, TypeInv, TypeOK

LEMMA RegisterTypes ==
  ASSUME TypeInv, NEW c \in Clients, RegisterProxy(c)
  PROVE  TypeInv'
<1>1. clients[c] \in Client /\ clients[c].env \in Envs /\ clients[c].port \in Ports
  BY DEF RegisterProxy, TypeInv, TypeOK, ClientInHand
<1> DEFINE r == [clients[c] EXCEPT !.pc = "serve", !.building = FALSE]
<1>2. r \in Client /\ r.env = clients[c].env /\ r.pc = "serve" /\ clients' = [clients EXCEPT ![c] = r]
  BY <1>1 DEF Client, RegisterProxy
<1>3. clients' \in [Clients -> Client] /\ \A d \in Clients : ClientInHand(d)'
  <2> HIDE DEF r
  <2> QED BY <1>1, <1>2, ClientMoves
<1>4. IsTable(proxies', Envs, Ports)
  BY <1>1, PutTable DEF RegisterProxy, TypeInv, TypeOK
<1> QED BY <1>3, <1>4 DEF RegisterProxy, TypeInv, TypeOK

LEMMA ServeTypes ==
  ASSUME TypeInv, NEW c \in Clients, Serve(c)
  PROVE  TypeInv'
<1>1. NoRequest \in Client /\ NoRequest.pc = "idle"
  BY DEF NoRequest, Client
<1>2. clients' \in [Clients -> Client] /\ \A d \in Clients : ClientInHand(d)'
  BY <1>1, ClientMoves DEF Serve
<1>3. IsTable(tunnels', Envs, Tunnel)
  BY TouchTypes DEF Serve, TypeInv, TypeOK
<1> QED BY <1>2, <1>3 DEF Serve, TypeInv, TypeOK

LEMMA PollStartTypes ==
  ASSUME TypeInv, NEW e \in Envs, PollStart(e)
  PROVE  TypeInv'
<1>1. /\ IsTable(tunnels', Envs, Tunnel) /\ IsTable(etag', Envs, Response)
      /\ crossed' \subseteq Envs /\ opens' \in 0..MaxOpens
  <2>1. CASE Open(e)
    BY <2>1, OpenTypes DEF TypeInv
  <2>2. CASE etag' = Drop(etag, {e}) /\ crossed' = crossed \ {e} /\ UNCHANGED <<tunnels, opens>>
    <3>1. IsTable(etag', Envs, Response)
      BY <2>2, DropTable DEF TypeInv, TypeOK
    <3> QED BY <2>2, <3>1 DEF TypeInv, TypeOK
  <2> QED BY <2>1, <2>2 DEF PollStart
<1>2. Config(e)' \in Response
  <2>1. CASE e \in DOMAIN tunnels'
    <3>1. tunnels'[e] \in Tunnel
      BY <1>1, <2>1 DEF IsTable
    <3> QED BY <2>1, <3>1, BoundsAssumption DEF Config, IsOpen, Tunnel, Response
  <2>2. CASE e \notin DOMAIN tunnels'
    BY <2>2, BoundsAssumption DEF Config, IsOpen, Idle, Response, NoPort
  <2> QED BY <2>1, <2>2
<1>3. poll' \in [Envs -> {NoPoll} \cup Answer]
  BY <1>2 DEF PollStart, At, Answer, TypeInv, TypeOK
<1> QED BY <1>1, <1>3 DEF PollStart, TypeInv, TypeOK, ClientInHand

LEMMA CacheTypes ==
  ASSUME TypeInv, NEW e \in Envs, cacheResponse(e)
  PROVE  TypeInv'
<1>1. poll[e] \in Answer /\ poll[e].response \in Response
  BY DEF cacheResponse, TypeInv, TypeOK, Answer
<1>2. IsTable(etag', Envs, Response)
  BY <1>1, PutTable DEF cacheResponse, TypeInv, TypeOK
<1>3. /\ told' \in [Envs -> {Never} \cup Answer]
      /\ poll' \in [Envs -> {NoPoll} \cup Answer]
  BY <1>1 DEF cacheResponse, TypeInv, TypeOK
<1> QED BY <1>2, <1>3 DEF cacheResponse, TypeInv, TypeOK, ClientInHand

\* The loop takes up an open tunnel.
LEMMA CheckTypes ==
  ASSUME TypeInv, NEW e \in Envs, checkTunnels(e)
  PROVE  TypeInv'
<1>1. tunnels[e] \in Tunnel
  BY DEF checkTunnels, IsOpen, TypeInv, TypeOK, IsTable
<1>2. [tunnels[e] EXCEPT !.snapshot = TRUE] \in Tunnel
  BY <1>1 DEF Tunnel
<1>3. IsTable(tunnels', Envs, Tunnel)
  <2>1. CASE tunnels' = [tunnels EXCEPT ![e].snapshot = TRUE]
    BY <1>2, <2>1, ExceptTable DEF checkTunnels, IsOpen, TypeInv, TypeOK
  <2>2. CASE UNCHANGED tunnels
    BY <2>2 DEF TypeInv, TypeOK
  <2> QED BY <2>1, <2>2 DEF checkTunnels
<1>4. loop' \in Loop /\ (loop'.pc # "idle" => loop'.env \in Envs)
  BY DEF checkTunnels, Loop, Waiting, TypeInv, TypeOK
<1> QED BY <1>3, <1>4 DEF checkTunnels, TypeInv, TypeOK, ClientInHand

\* What the loop becomes, in each of its steps.
LEMMA LoopMoves ==
  ASSUME TypeInv, loop.pc # "idle", NEW pc \in {"cleanup", "again"}, NEW g \in BOOLEAN,
         loop' \in {Waiting, [loop EXCEPT !.pc = pc], [loop EXCEPT !.pc = pc, !.gone = g]}
  PROVE  loop' \in Loop /\ (loop'.pc # "idle" => loop'.env \in Envs)
<1>1. Waiting \in Loop /\ Waiting.pc = "idle"
  BY DEF Waiting, Loop
<1>2. loop \in Loop /\ loop.env \in Envs
  BY DEF TypeInv, TypeOK
<1>3. /\ [loop EXCEPT !.pc = pc] \in Loop
      /\ [loop EXCEPT !.pc = pc].env = loop.env
      /\ [loop EXCEPT !.pc = pc, !.gone = g] \in Loop
      /\ [loop EXCEPT !.pc = pc, !.gone = g].env = loop.env
  BY <1>2 DEF Loop
<1> QED BY <1>1, <1>2, <1>3

LEMMA LoopsTypes ==
  ASSUME TypeInv, Loops
  PROVE  TypeInv'
<1>1. loop.pc # "idle" /\ loop.env \in Envs /\ TypeOK
  BY DEF Loops, SnapshotTaken, SnapshotFailed, CloseIdle, CloseGone, Cleanup,
         CloseAgain, TypeInv
<1>2. loop' \in Loop /\ (loop'.pc # "idle" => loop'.env \in Envs)
  BY <1>1, LoopMoves DEF Loops, SnapshotTaken, SnapshotFailed, CloseIdle, CloseGone,
         Cleanup, CloseAgain, close, TypeOK, Loop
<1>3. IsTable(tunnels', Envs, Tunnel)
  <2>1. CASE SnapshotTaken /\ IsOpen(loop.env)
    <3>1. tunnels[loop.env] \in Tunnel
      BY <2>1, <1>1 DEF IsOpen, TypeOK, IsTable
    <3>2. [tunnels[loop.env] EXCEPT !.fresh = TRUE, !.snapshot = TRUE] \in Tunnel
      BY <3>1 DEF Tunnel
    <3> DEFINE t == [tunnels[loop.env] EXCEPT !.fresh = TRUE, !.snapshot = TRUE]
    <3>3. tunnels' = [tunnels EXCEPT ![loop.env] = t]
      BY <2>1 DEF SnapshotTaken
    <3> HIDE DEF t
    <3>4. t \in Tunnel
      BY <3>2 DEF t
    <3>5. loop.env \in DOMAIN tunnels /\ IsTable(tunnels, Envs, Tunnel)
      BY <2>1, <1>1 DEF IsOpen, TypeOK
    <3> QED BY <3>3, <3>4, <3>5, ExceptTable
  <2>2. CASE tunnels' = Drop(tunnels, {loop.env})
    BY <2>2, <1>1, DropTable DEF TypeOK
  <2>3. CASE UNCHANGED tunnels
    BY <2>3, <1>1 DEF TypeOK
  <2> QED BY <2>1, <2>2, <2>3 DEF Loops, SnapshotTaken, SnapshotFailed, CloseIdle,
         CloseGone, Cleanup, CloseAgain, close
<1>4. IsTable(etag', Envs, Response) /\ crossed' \subseteq Envs
  <2>1. CASE Forget(loop.env)
    BY <2>1, <1>1, ForgetTypes
  <2>2. CASE UNCHANGED <<etag, crossed>>
    BY <2>2, <1>1 DEF TypeOK
  <2> QED BY <2>1, <2>2 DEF Loops, SnapshotTaken, SnapshotFailed, CloseIdle,
         CloseGone, Cleanup, CloseAgain, close
<1>5. IsTable(proxies', Envs, Ports) /\ overtaken' \subseteq Envs
  <2>1. CASE DeleteEndpointProxy(loop.env)
    BY <2>1, <1>1, DropTable DEF DeleteEndpointProxy, TypeOK
  <2>2. CASE UNCHANGED <<proxies, overtaken>>
    BY <2>2, <1>1 DEF TypeOK
  <2> QED BY <2>1, <2>2 DEF Loops, SnapshotTaken, SnapshotFailed, CloseIdle, CloseGone,
         Cleanup, CloseAgain, DeleteEndpointProxy, TypeOK
<1>6. snapshots' \subseteq Envs
  BY <1>1 DEF Loops, SnapshotTaken, SnapshotFailed, CloseIdle, CloseGone, Cleanup,
         CloseAgain, TypeOK
<1>7. UNCHANGED <<told, poll, clients, envs, opens>>
  BY DEF Loops, SnapshotTaken, SnapshotFailed, CloseIdle, CloseGone, Cleanup,
         CloseAgain
<1> QED BY <1>2, <1>3, <1>4, <1>5, <1>6, <1>7 DEF TypeInv, TypeOK, ClientInHand

LEMMA ElapsesTypes ==
  ASSUME TypeInv, NEW e \in Envs, Elapses(e)
  PROVE  TypeInv'
<1>1. tunnels[e] \in Tunnel
  BY DEF Elapses, IsOpen, TypeInv, TypeOK, IsTable
<1>2. [tunnels[e] EXCEPT !.fresh = FALSE] \in Tunnel
  BY <1>1 DEF Tunnel
<1>3. IsTable(tunnels', Envs, Tunnel)
  BY <1>2, ExceptTable DEF Elapses, IsOpen, TypeInv, TypeOK
<1> QED BY <1>3 DEF Elapses, TypeInv, TypeOK, ClientInHand

LEMMA DeleteTypes ==
  ASSUME TypeInv, NEW e \in Envs, deleteEndpoint(e)
  PROVE  TypeInv'
<1>1. IsTable(etag', Envs, Response) /\ crossed' \subseteq Envs
  BY ForgetTypes DEF deleteEndpoint, TypeInv
<1>2. IsTable(proxies', Envs, Ports) /\ overtaken' \subseteq Envs
  BY DropTable DEF deleteEndpoint, DeleteEndpointProxy, TypeInv, TypeOK
<1>3. envs' \subseteq Envs /\ snapshots' \subseteq Envs
  BY DEF deleteEndpoint, TypeInv, TypeOK
<1> QED BY <1>1, <1>2, <1>3 DEF deleteEndpoint, TypeInv, TypeOK, ClientInHand

LEMMA NextTypes ==
  ASSUME TypeInv, [Next]_vars
  PROVE  TypeInv'
<1>1. CASE Next
  BY <1>1, RequestTypes, ReadConfigTypes, DialedTypes, TimedOutTypes, RegisterTypes,
     ServeTypes, PollStartTypes, CacheTypes, CheckTypes, LoopsTypes, ElapsesTypes,
     DeleteTypes DEF Next, Handles, Polls
<1>2. CASE UNCHANGED vars
  BY <1>2 DEF vars, TypeInv, TypeOK, ClientInHand
<1> QED BY <1>1, <1>2

LEMMA TypesHold == Spec => []TypeInv
<1> QED BY InitTypes, NextTypes, PTL DEF Spec

\* Tunnels, proxies, cached responses, requests and the loop keep their types:
\* ports are real ones, and keys are environments (chisel/service.go).
THEOREM TunnelTypes == Spec => []TypeOK
<1>1. TypeInv => TypeOK
  BY DEF TypeInv
<1> QED BY <1>1, TypesHold, PTL

-----------------------------------------------------------------------------
(* The cache.  CacheIsCurrent has to know of the response on its way into  *)
(* the cache as well; both compare it with what Config would answer.       *)

Current(e) ==
  /\ e \in DOMAIN etag => etag[e] = Config(e) \/ e \in crossed
  /\ poll[e] # NoPoll => poll[e].response = Config(e) \/ e \in crossed

CacheInv == \A e \in Envs : Current(e)

\* A tunnel of e changes only when Config answers the same before and after,
\* or what was cached of e is forgotten.
LEMMA SameConfigKeeps ==
  ASSUME NEW e, Current(e), Config(e)' = Config(e),
         e \in crossed => e \in crossed',
         e \in DOMAIN etag' => e \in DOMAIN etag /\ etag'[e] = etag[e],
         poll'[e] \in {poll[e], NoPoll}
  PROVE  Current(e)'
BY DEF Current

LEMMA ForgetKeeps ==
  ASSUME TypeOK, NEW e \in Envs, Forget(e), UNCHANGED poll
  PROVE  Current(e)'
<1>1. e \notin DOMAIN etag'
  BY DEF Forget, Drop
<1> QED BY <1>1 DEF Forget, Current, TypeOK

\* Forgetting one environment leaves the others alone.
LEMMA ForgetOthers ==
  ASSUME TypeOK, NEW e, NEW d, d # e, Forget(e)
  PROVE  /\ d \in crossed <=> d \in crossed'
         /\ d \in DOMAIN etag' => d \in DOMAIN etag /\ etag'[d] = etag[d]
BY DEF Forget, Drop, TypeOK

\* Config reads one record, and of it neither the age nor the snapshot.
LEMMA RenewedSameConfig ==
  ASSUME TypeOK, NEW e \in DOMAIN tunnels, NEW f \in BOOLEAN, NEW s \in BOOLEAN,
         tunnels' = [tunnels EXCEPT ![e] = [tunnels[e] EXCEPT !.fresh = f, !.snapshot = s]],
         NEW d
  PROVE  Config(d)' = Config(d)
<1>1. tunnels[e] \in Tunnel /\ tunnels \in [DOMAIN tunnels -> Tunnel]
  BY DEF TypeOK, IsTable
<1> DEFINE t == [tunnels[e] EXCEPT !.fresh = f, !.snapshot = s]
<1>2. t.port = tunnels[e].port /\ t.tunnel = tunnels[e].tunnel
  BY <1>1 DEF Tunnel
<1> HIDE DEF t
<1>3. /\ DOMAIN tunnels' = DOMAIN tunnels
      /\ tunnels'[e] = t
      /\ \A x \in DOMAIN tunnels : x # e => tunnels'[x] = tunnels[x]
  BY <1>1 DEF t
<1> QED BY <1>2, <1>3 DEF Config, IsOpen

LEMMA TouchSameConfig ==
  ASSUME TypeOK, NEW e, UpdateLastActivity(e), NEW d
  PROVE  Config(d)' = Config(d)
<1>1. CASE IsOpen(e)
  <2>1. tunnels[e] \in Tunnel /\ e \in DOMAIN tunnels
    BY <1>1 DEF IsOpen, TypeOK, IsTable
  <2>2. [tunnels[e] EXCEPT !.fresh = TRUE]
          = [tunnels[e] EXCEPT !.fresh = TRUE, !.snapshot = tunnels[e].snapshot]
    BY <2>1 DEF Tunnel
  <2>3. tunnels' = [tunnels EXCEPT ![e] = [tunnels[e] EXCEPT !.fresh = TRUE]]
    BY <1>1 DEF UpdateLastActivity
  <2>4. tunnels[e].snapshot \in BOOLEAN
    BY <2>1 DEF Tunnel
  <2> QED BY <2>1, <2>2, <2>3, <2>4, RenewedSameConfig
<1>2. CASE ~IsOpen(e)
  BY <1>2 DEF UpdateLastActivity, Config, IsOpen
<1> QED BY <1>1, <1>2

\* Neither the look of the loop nor the passing of time shows in Config.
LEMMA CheckSameConfig ==
  ASSUME TypeInv, NEW e \in Envs, checkTunnels(e) \/ Elapses(e), NEW d
  PROVE  Config(d)' = Config(d)
<1>1. e \in DOMAIN tunnels /\ tunnels[e] \in Tunnel /\ TypeOK
  BY DEF checkTunnels, Elapses, IsOpen, TypeInv, TypeOK, IsTable
<1>2. /\ [tunnels[e] EXCEPT !.snapshot = TRUE]
           = [tunnels[e] EXCEPT !.fresh = tunnels[e].fresh, !.snapshot = TRUE]
      /\ [tunnels[e] EXCEPT !.fresh = FALSE]
           = [tunnels[e] EXCEPT !.fresh = FALSE, !.snapshot = tunnels[e].snapshot]
      /\ tunnels[e].fresh \in BOOLEAN /\ tunnels[e].snapshot \in BOOLEAN
  BY <1>1 DEF Tunnel
<1>3. CASE tunnels' = [tunnels EXCEPT ![e] = [tunnels[e] EXCEPT !.snapshot = TRUE]]
  BY <1>1, <1>2, <1>3, RenewedSameConfig
<1>4. CASE tunnels' = [tunnels EXCEPT ![e] = [tunnels[e] EXCEPT !.fresh = FALSE]]
  BY <1>1, <1>2, <1>4, RenewedSameConfig
<1>5. CASE UNCHANGED tunnels
  BY <1>5 DEF Config, IsOpen
<1> QED BY <1>3, <1>4, <1>5 DEF checkTunnels, Elapses

LEMMA SnapshotSameConfig ==
  ASSUME TypeInv, SnapshotTaken, NEW d
  PROVE  Config(d)' = Config(d)
<1>1. CASE IsOpen(loop.env)
  <2>1. tunnels' = [tunnels EXCEPT ![loop.env] =
                      [tunnels[loop.env] EXCEPT !.fresh = TRUE, !.snapshot = TRUE]]
    BY <1>1 DEF SnapshotTaken
  <2>2. loop.env \in DOMAIN tunnels /\ TypeOK
    BY <1>1 DEF IsOpen, TypeInv
  <2> QED BY <2>1, <2>2, RenewedSameConfig
<1>2. CASE ~IsOpen(loop.env)
  BY <1>2 DEF SnapshotTaken, Config, IsOpen
<1> QED BY <1>1, <1>2

LEMMA OpenOthers ==
  ASSUME TypeOK, NEW e \in Envs, Open(e), NEW d, d # e
  PROVE  /\ Config(d)' = Config(d)
         /\ d \in crossed <=> d \in crossed'
         /\ d \in DOMAIN etag' => d \in DOMAIN etag /\ etag'[d] = etag[d]
<1>1. CASE UNCHANGED <<tunnels, etag, crossed, opens>>
  BY <1>1 DEF Config, IsOpen
<1>2. CASE /\ \E p \in unusedPorts :
                tunnels' = Put(tunnels, e, [port |-> p, tunnel |-> opens + 1,
                                            fresh |-> TRUE, snapshot |-> FALSE])
           /\ Forget(e)
  <2>1. Config(d)' = Config(d)
    BY <1>2 DEF Put, Config, IsOpen
  <2> QED BY <1>2, <2>1, ForgetOthers
<1> QED BY <1>1, <1>2 DEF Open

LEMMA QuietCache ==
  ASSUME CacheInv, UNCHANGED <<etag, crossed, poll>>,
         \A d \in Envs : Config(d)' = Config(d)
  PROVE  CacheInv'
BY SameConfigKeeps DEF CacheInv

LEMMA OpenCache ==
  ASSUME TypeOK, CacheInv, NEW e \in Envs, Open(e), UNCHANGED poll
  PROVE  CacheInv'
<1>1. ASSUME NEW d \in Envs, d # e PROVE Current(d)'
  BY <1>1, OpenOthers, SameConfigKeeps DEF CacheInv
<1>2. Current(e)'
  <2>1. CASE UNCHANGED <<tunnels, etag, crossed, opens>>
    BY <2>1, SameConfigKeeps DEF CacheInv, Config, IsOpen
  <2>2. CASE Forget(e)
    BY <2>2, ForgetKeeps
  <2> QED BY <2>1, <2>2 DEF Open
<1> QED BY <1>1, <1>2 DEF CacheInv

\* A tunnel that is removed, or stays, while its cached response is forgotten.
LEMMA CloseCache ==
  ASSUME TypeOK, CacheInv, NEW e \in Envs, Forget(e), UNCHANGED poll,
         tunnels' \in {tunnels, Drop(tunnels, {e})}
  PROVE  CacheInv'
<1>1. ASSUME NEW d \in Envs, d # e PROVE Current(d)'
  <2>1. Config(d)' = Config(d)
    BY <1>1 DEF Drop, Config, IsOpen
  <2> QED BY <1>1, <2>1, ForgetOthers, SameConfigKeeps DEF CacheInv
<1> QED BY <1>1, ForgetKeeps DEF CacheInv

LEMMA HandlesCache ==
  ASSUME TypeInv, CacheInv, NEW c \in Clients, Handles(c)
  PROVE  CacheInv'
<1>1. TypeOK /\ (clients[c].pc # "idle" => clients[c].env \in Envs) /\ UNCHANGED poll
  BY DEF TypeInv, ClientInHand, Handles, Request, ReadConfig, Dialed, TimedOut,
         RegisterProxy, Serve
<1>2. CASE \E e \in Envs : Open(e)
  BY <1>1, <1>2, OpenCache
<1>3. CASE UpdateLastActivity(clients[c].env) /\ UNCHANGED <<etag, crossed>>
  BY <1>1, <1>3, TouchSameConfig, QuietCache
<1>4. CASE UNCHANGED <<tunnels, etag, crossed>>
  BY <1>1, <1>4, QuietCache DEF Config, IsOpen
<1>5. Request(c) => \E e \in Envs : Open(e)
  BY <1>1 DEF Request, TypeOK
<1>6. Dialed(c) => \/ \E e \in Envs : Open(e)
                   \/ UpdateLastActivity(clients[c].env) /\ UNCHANGED <<etag, crossed>>
  BY <1>1 DEF Dialed
<1> QED BY <1>2, <1>3, <1>4, <1>5, <1>6 DEF Handles, ReadConfig, TimedOut,
         RegisterProxy, Serve

\* The response is made of what Config answers now, and nothing of the
\* environment is cached until it is.
LEMMA PollStartCache ==
  ASSUME TypeInv, CacheInv, NEW e \in Envs, PollStart(e)
  PROVE  CacheInv'
<1>1. TypeOK /\ poll[e] = NoPoll /\ DOMAIN poll = Envs
  BY DEF PollStart, TypeInv, TypeOK
<1>2. poll'[e].response = Config(e)' /\ \A d \in Envs : d # e => poll'[d] = poll[d]
  BY <1>1 DEF PollStart, At
<1>3. ASSUME NEW d \in Envs, d # e PROVE Current(d)'
  <2>1. CASE Open(e)
    BY <1>1, <1>2, <1>3, <2>1, OpenOthers, SameConfigKeeps DEF CacheInv
  <2>2. CASE etag' = Drop(etag, {e}) /\ crossed' = crossed \ {e} /\ UNCHANGED <<tunnels, opens>>
    <3>1. Config(d)' = Config(d)
      BY <2>2 DEF Config, IsOpen
    <3>2. d \in DOMAIN etag' => d \in DOMAIN etag /\ etag'[d] = etag[d]
      BY <1>3, <2>2 DEF Drop
    <3> QED BY <1>2, <1>3, <2>2, <3>1, <3>2, SameConfigKeeps DEF CacheInv
  <2> QED BY <2>1, <2>2 DEF PollStart
<1>4. Current(e)'
  <2>1. e \in DOMAIN etag' => etag'[e] = Config(e)' \/ e \in crossed'
    <3>1. CASE UNCHANGED <<tunnels, etag, crossed, opens>>
      BY <3>1 DEF CacheInv, Current, Config, IsOpen
    <3>2. CASE etag' = Drop(etag, {e})
      BY <3>2 DEF Drop
    <3> QED BY <3>1, <3>2 DEF PollStart, Open, Forget
  <2> QED BY <1>2, <2>1 DEF Current
<1> QED BY <1>3, <1>4 DEF CacheInv

LEMMA CacheCache ==
  ASSUME TypeInv, CacheInv, NEW e \in Envs, cacheResponse(e)
  PROVE  CacheInv'
<1>1. /\ poll[e] # NoPoll /\ DOMAIN poll = Envs
      /\ etag' = Put(etag, e, poll[e].response)
      /\ poll' = [poll EXCEPT ![e] = NoPoll]
      /\ UNCHANGED <<tunnels, crossed>>
  BY DEF cacheResponse, TypeInv, TypeOK
<1>2. \A d \in Envs : Config(d)' = Config(d)
  BY <1>1 DEF Config, IsOpen
<1>3. ASSUME NEW d \in Envs, d # e PROVE Current(d)'
  <2>1. d \in DOMAIN etag' => d \in DOMAIN etag /\ etag'[d] = etag[d]
    BY <1>1, <1>3 DEF Put
  <2>2. poll'[d] = poll[d]
    BY <1>1, <1>3
  <2> QED BY <1>1, <1>2, <2>1, <2>2, SameConfigKeeps DEF CacheInv
<1>4. Current(e)'
  <2>1. etag'[e] = poll[e].response /\ poll'[e] = NoPoll
    BY <1>1 DEF Put
  <2>2. poll[e].response = Config(e) \/ e \in crossed
    BY <1>1 DEF CacheInv, Current
  <2> QED BY <1>1, <1>2, <2>1, <2>2 DEF Current
<1> QED BY <1>3, <1>4 DEF CacheInv

LEMMA LoopsCache ==
  ASSUME TypeInv, CacheInv, Loops
  PROVE  CacheInv'
<1>1. TypeOK /\ loop.env \in Envs /\ UNCHANGED poll
  BY DEF Loops, SnapshotTaken, SnapshotFailed, CloseIdle, CloseGone, Cleanup,
         CloseAgain, TypeInv
<1>2. CASE Forget(loop.env) /\ tunnels' = Drop(tunnels, {loop.env})
  BY <1>1, <1>2, CloseCache
<1>3. CASE SnapshotTaken
  BY <1>3, SnapshotSameConfig, QuietCache DEF SnapshotTaken
<1>4. CASE UNCHANGED <<tunnels, etag, crossed>>
  BY <1>1, <1>4, QuietCache DEF Config, IsOpen
<1> QED BY <1>2, <1>3, <1>4 DEF Loops, SnapshotTaken, SnapshotFailed, CloseIdle,
         CloseGone, Cleanup, CloseAgain, close

LEMMA NextCache ==
  ASSUME TypeInv, CacheInv, [Next]_vars
  PROVE  CacheInv'
<1>1. ASSUME NEW e \in Envs, checkTunnels(e) \/ Elapses(e)
      PROVE  CacheInv'
  BY <1>1, CheckSameConfig, QuietCache DEF checkTunnels, Elapses
<1>2. ASSUME NEW e \in Envs, deleteEndpoint(e)
      PROVE  CacheInv'
  BY <1>2, CloseCache DEF deleteEndpoint, TypeInv
<1>3. CASE UNCHANGED vars
  BY <1>3, QuietCache DEF vars, Config, IsOpen
<1> QED BY <1>1, <1>2, <1>3, HandlesCache, PollStartCache, CacheCache, LoopsCache
         DEF Next, Polls

\* A cached response that keeps an agent from asking again says what Config
\* would answer, unless a tunnel changed while the response was prepared
\* (endpoint_edgestatus_inspect.go, chisel/tunnel.go's cache.Del).
THEOREM CachedResponsesAreCurrent == Spec => []CacheIsCurrent
<1>1. Init => CacheInv
  BY EmptyIsTable DEF Init, CacheInv, Current, EmptyTable
<1>2. TypeInv /\ CacheInv => CacheIsCurrent
  BY DEF TypeInv, TypeOK, IsTable, CacheInv, Current, CacheIsCurrent
<1>3. TypeInv /\ CacheInv /\ [Next]_vars => CacheInv'
  BY NextCache
<1> QED BY <1>1, <1>2, <1>3, TypesHold, PTL DEF Spec

-----------------------------------------------------------------------------
(* The proxies.  A port leads to the tunnel of e if the tunnel is open on  *)
(* it; a close is still to take the proxies of e away (Closing), or has    *)
(* done so while a request was about to register one (overtaken).  A       *)
(* request that builds a proxy and has read the port of a tunnel must be   *)
(* on the right one too, for it registers what it read.                    *)

Leads(e, p) ==
  \/ IsOpen(e) /\ p = tunnels[e].port
  \/ loop.pc = "cleanup" /\ loop.env = e
  \/ e \in overtaken

BuildsRight(c) ==
  clients[c].building /\ clients[c].pc \in {"dial", "store"} /\ clients[c].port # NoPort
    => Leads(clients[c].env, clients[c].port)

ProxyInv ==
  /\ \A e \in DOMAIN proxies : Leads(e, proxies[e])
  /\ \A c \in Clients : BuildsRight(c)
  /\ \A c \in Clients : clients[c].pc = "store" => clients[c].building

\* A tunnel that is opened was not the one a port led to.
LEMMA OpenLeads ==
  ASSUME TypeOK, NEW e \in Envs, Open(e), UNCHANGED <<loop, overtaken>>,
         NEW d, NEW p, Leads(d, p)
  PROVE  Leads(d, p)'
<1>1. CASE UNCHANGED <<tunnels, etag, crossed, opens>>
  BY <1>1 DEF Leads, IsOpen
<1>2. CASE ~IsOpen(e) /\ \E q \in unusedPorts :
             tunnels' = Put(tunnels, e, [port |-> q, tunnel |-> opens + 1,
                                         fresh |-> TRUE, snapshot |-> FALSE])
  BY <1>2 DEF Put, Leads, IsOpen
<1> QED BY <1>1, <1>2 DEF Open

\* Where Config answers the same, ports lead where they led.
LEMMA SameConfigLeads ==
  ASSUME TypeOK, NEW d, NEW p \in Ports, Leads(d, p), Config(d)' = Config(d),
         IsTable(tunnels', Envs, Tunnel),
         UNCHANGED overtaken, loop.pc = "cleanup" => UNCHANGED loop
  PROVE  Leads(d, p)'
<1>1. CASE IsOpen(d) /\ p = tunnels[d].port
  <2>1. Config(d).port = p /\ p # NoPort
    BY <1>1, BoundsAssumption DEF Config, NoPort
  <2>2. IsOpen(d)'
    BY <2>1 DEF Config, Idle, IsOpen
  <2> QED BY <2>1, <2>2 DEF Config, Leads, IsOpen
<1>2. CASE ~(IsOpen(d) /\ p = tunnels[d].port)
  BY <1>2 DEF Leads
<1> QED BY <1>1, <1>2

\* A tunnel that is closed leaves its proxies to the clean-up.
LEMMA CloseLeads ==
  ASSUME NEW d, NEW p, Leads(d, p), loop.pc # "cleanup",
         tunnels' = Drop(tunnels, {loop.env}), UNCHANGED overtaken,
         loop'.pc = "cleanup", loop'.env = loop.env
  PROVE  Leads(d, p)'
BY DEF Drop, Leads, IsOpen

\* Steps that take no proxy away lead no port astray.
LEMMA LeadsKept ==
  ASSUME TypeInv, [Next]_vars, ~Cleanup, \A e \in Envs : ~deleteEndpoint(e),
         NEW d, NEW p \in Ports, Leads(d, p)
  PROVE  Leads(d, p)'
<1>1. TypeOK /\ IsTable(tunnels', Envs, Tunnel)
  BY NextTypes DEF TypeInv, TypeOK
<1>2. ASSUME NEW e \in Envs, Open(e), UNCHANGED <<loop, overtaken>>
      PROVE  Leads(d, p)'
  BY <1>1, <1>2, OpenLeads
<1>3. ASSUME Config(d)' = Config(d), UNCHANGED overtaken, loop.pc = "cleanup" => UNCHANGED loop
      PROVE  Leads(d, p)'
  BY <1>1, <1>3, SameConfigLeads
<1>4. ASSUME NEW c \in Clients, Handles(c)
      PROVE  Leads(d, p)'
  <2>1. UNCHANGED <<loop, overtaken>> /\ (clients[c].pc # "idle" => clients[c].env \in Envs)
    BY <1>4 DEF Handles, Request, ReadConfig, Dialed, TimedOut, RegisterProxy, Serve,
           TypeInv, ClientInHand
  <2>2. CASE \E e \in Envs : Open(e)
    BY <1>2, <2>1, <2>2
  <2>3. CASE UpdateLastActivity(clients[c].env)
    BY <1>1, <1>3, <2>1, <2>3, TouchSameConfig
  <2>4. CASE UNCHANGED tunnels
    BY <1>3, <2>1, <2>4 DEF Config, IsOpen
  <2>5. Request(c) => \E e \in Envs : Open(e)
    BY <1>1 DEF Request, TypeOK
  <2>6. Dialed(c) => (\E e \in Envs : Open(e)) \/ UpdateLastActivity(clients[c].env)
    BY <2>1 DEF Dialed
  <2> QED BY <1>4, <2>2, <2>3, <2>4, <2>5, <2>6 DEF Handles, ReadConfig, TimedOut,
           RegisterProxy, Serve
<1>5. ASSUME NEW e \in Envs, Polls(e)
      PROVE  Leads(d, p)'
  <2>1. UNCHANGED <<loop, overtaken>>
    BY <1>5 DEF Polls, PollStart, cacheResponse
  <2>2. CASE Open(e)
    BY <1>2, <2>1, <2>2
  <2>3. CASE UNCHANGED tunnels
    BY <1>3, <2>1, <2>3 DEF Config, IsOpen
  <2> QED BY <1>5, <2>2, <2>3 DEF Polls, PollStart, cacheResponse
<1>6. ASSUME NEW e \in Envs, checkTunnels(e) \/ Elapses(e)
      PROVE  Leads(d, p)'
  <2>1. UNCHANGED overtaken /\ (loop.pc = "cleanup" => UNCHANGED loop)
    BY <1>6 DEF checkTunnels, Elapses
  <2> QED BY <1>3, <1>6, <2>1, CheckSameConfig
<1>7. CASE Loops
  <2>1. loop \in Loop
    BY <1>1 DEF TypeOK
  <2>2. CASE CloseIdle \/ CloseGone \/ (CloseAgain /\ IsOpen(loop.env))
    <3>1. /\ loop.pc # "cleanup"
          /\ tunnels' = Drop(tunnels, {loop.env}) /\ UNCHANGED overtaken
          /\ loop'.pc = "cleanup" /\ loop'.env = loop.env
      BY <2>1, <2>2 DEF CloseIdle, CloseGone, CloseAgain, close, Loop
    <3> QED BY <3>1, CloseLeads
  <2>3. CASE SnapshotTaken
    BY <1>3, <2>3, SnapshotSameConfig DEF SnapshotTaken
  <2>4. CASE SnapshotFailed \/ (CloseAgain /\ ~IsOpen(loop.env))
    <3>1. UNCHANGED <<tunnels, overtaken>> /\ loop.pc # "cleanup"
      BY <2>4 DEF SnapshotFailed, CloseAgain
    <3> QED BY <1>3, <3>1 DEF Config, IsOpen
  <2> QED BY <1>7, <2>2, <2>3, <2>4 DEF Loops
<1>8. CASE UNCHANGED vars
  BY <1>3, <1>8 DEF vars, Config, IsOpen
<1> QED BY <1>4, <1>5, <1>6, <1>7, <1>8 DEF Next

\* A proxy is registered by a request that is on the right port.
LEMMA ProxiesKept ==
  ASSUME TypeInv, ProxyInv, [Next]_vars, ~Cleanup, \A d \in Envs : ~deleteEndpoint(d),
         NEW e \in DOMAIN proxies', NEW p, p = proxies'[e]
  PROVE  Leads(e, p)'
<1>1. /\ \A d \in DOMAIN proxies : proxies[d] \in Ports
      /\ \A c \in Clients : ClientInHand(c)
  BY DEF TypeInv, TypeOK, IsTable
<1>2. CASE e \in DOMAIN proxies /\ p = proxies[e]
  <2>1. p \in Ports /\ Leads(e, p)
    BY <1>1, <1>2 DEF ProxyInv
  <2> QED BY <2>1, LeadsKept
<1>3. ASSUME NEW c \in Clients, RegisterProxy(c)
      PROVE  Leads(e, p)'
  <2>1. /\ clients[c].building /\ clients[c].pc = "store" /\ clients[c].port \in Ports
        /\ proxies' = Put(proxies, clients[c].env, clients[c].port)
    BY <1>1, <1>3 DEF RegisterProxy, ProxyInv, ClientInHand
  <2>2. Leads(clients[c].env, clients[c].port)
    BY <2>1, BoundsAssumption DEF ProxyInv, BuildsRight, NoPort
  <2>3. CASE e = clients[c].env
    <3>1. p = clients[c].port
      BY <2>1, <2>3 DEF Put
    <3>2. p \in Ports /\ Leads(e, p)
      BY <2>1, <2>2, <2>3, <3>1
    <3> QED BY <3>2, LeadsKept
  <2>4. CASE e # clients[c].env
    BY <1>2, <2>1, <2>4 DEF Put
  <2> QED BY <2>3, <2>4
<1>4. UNCHANGED proxies \/ \E c \in Clients : RegisterProxy(c)
  BY DEF Next, vars, Handles, Polls, Loops, Request, ReadConfig, Dialed, TimedOut,
         Serve, PollStart, cacheResponse, checkTunnels, SnapshotTaken, SnapshotFailed,
         CloseIdle, CloseGone, CloseAgain, Elapses
<1> QED BY <1>2, <1>3, <1>4

\* A request moves only by its own steps.
LEMMA OneClient ==
  ASSUME TypeInv, [Next]_vars, NEW c \in Clients
  PROVE  Handles(c) \/ clients'[c] = clients[c]
<1>1. ASSUME NEW d \in Clients, d # c, Handles(d)
      PROVE  clients'[c] = clients[c]
  BY <1>1 DEF Handles, Request, ReadConfig, Dialed, Goes, TimedOut, RegisterProxy,
         Serve, TypeInv, TypeOK
<1> QED BY <1>1 DEF Next, vars, Polls, PollStart, cacheResponse, checkTunnels, Elapses,
         deleteEndpoint, Loops, SnapshotTaken, SnapshotFailed, CloseIdle, CloseGone,
         close, Cleanup, CloseAgain

\* A request is on the right port, since it reads it where it then builds.
LEMMA BuildersKept ==
  ASSUME TypeInv, ProxyInv, [Next]_vars, ~Cleanup, \A d \in Envs : ~deleteEndpoint(d),
         NEW c \in Clients,
         clients'[c].building, clients'[c].pc \in {"dial", "store"},
         clients'[c].port # NoPort
  PROVE  Leads(clients[c].env, clients[c].port)'
<1>1. clients \in [Clients -> Client] /\ clients[c] \in Client /\ ClientInHand(c)
  BY DEF TypeInv, TypeOK
<1> SUFFICES ASSUME NEW e, NEW p, e = clients'[c].env, p = clients'[c].port
             PROVE  Leads(e, p)'
  OBVIOUS
<1>2. CASE /\ clients[c].building /\ clients[c].pc \in {"dial", "store"}
           /\ e = clients[c].env /\ p = clients[c].port
  <2>1. Leads(e, p) /\ p \in Ports
    BY <1>1, <1>2 DEF ProxyInv, BuildsRight, Client
  <2> QED BY <2>1, LeadsKept
<1>3. CASE ReadConfig(c)
  <2>1. e = clients[c].env /\ p = Config(e).port /\ UNCHANGED tunnels
    BY <1>1, <1>3 DEF ReadConfig, Client
  <2>2. IsOpen(e) /\ p = tunnels[e].port
    BY <2>1 DEF Config, Idle
  <2> QED BY <2>1, <2>2 DEF Leads, IsOpen
<1>4. CASE Dialed(c)
  BY <1>1, <1>2, <1>4 DEF Dialed, Goes, Client
<1>5. CASE Request(c) \/ TimedOut(c) \/ RegisterProxy(c) \/ Serve(c)
  <2>1. CASE Request(c)
    BY <1>1, <2>1 DEF Request, NoRequest
  <2>2. CASE TimedOut(c) \/ Serve(c)
    BY <1>1, <2>2 DEF TimedOut, Serve, NoRequest
  <2>3. CASE RegisterProxy(c)
    BY <1>1, <2>3 DEF RegisterProxy, Client
  <2> QED BY <1>5, <2>1, <2>2, <2>3
<1>6. CASE clients'[c] = clients[c]
  BY <1>2, <1>6
<1>7. Handles(c) \/ clients'[c] = clients[c]
  BY OneClient
<1> QED BY <1>3, <1>4, <1>5, <1>6, <1>7 DEF Handles

\* What DeleteEndpointProxy takes away, and what it marks.
LEMMA ProxyTaken ==
  ASSUME TypeInv, ProxyInv, NEW e \in Envs, DeleteEndpointProxy(e),
         UNCHANGED <<tunnels, clients>>,
         loop.pc = "cleanup" => loop.env = e \/ UNCHANGED loop
  PROVE  ProxyInv'
<1>1. ASSUME NEW d, NEW p, d # e, Leads(d, p)
      PROVE  Leads(d, p)'
  <2>1. d \in overtaken => d \in overtaken'
    BY <1>1 DEF DeleteEndpointProxy
  <2> QED BY <1>1, <2>1 DEF Leads, IsOpen
<1>2. ASSUME NEW d \in DOMAIN proxies' PROVE Leads(d, proxies[d])'
  <2>1. d # e /\ d \in DOMAIN proxies /\ proxies'[d] = proxies[d]
    BY <1>2 DEF DeleteEndpointProxy, Drop
  <2>2. Leads(d, proxies[d])
    BY <2>1 DEF ProxyInv
  <2> QED BY <1>1, <2>1, <2>2 DEF Leads
<1>3. ASSUME NEW c \in Clients PROVE BuildsRight(c)'
  <2>1. CASE clients[c].env = e
    <3>1. clients[c].building => e \in overtaken'
      BY <2>1 DEF DeleteEndpointProxy, Building
    <3> QED BY <2>1, <3>1 DEF BuildsRight, Leads
  <2>2. CASE clients[c].env # e
    BY <1>1, <2>2 DEF ProxyInv, BuildsRight, Leads
  <2> QED BY <2>1, <2>2
<1> QED BY <1>2, <1>3 DEF ProxyInv

\* Only a request that builds a proxy comes to register one.
LEMMA StoresBuild ==
  ASSUME TypeInv, ProxyInv, [Next]_vars, NEW c \in Clients, clients'[c].pc = "store"
  PROVE  clients'[c].building
<1>1. /\ clients \in [Clients -> Client] /\ clients[c] \in Client
      /\ clients[c].pc = "store" => clients[c].building
  BY DEF TypeInv, TypeOK, ProxyInv
<1>2. CASE clients'[c] = clients[c]
  BY <1>1, <1>2
<1>3. CASE Dialed(c)
  <2>1. CASE clients[c].building /\ Goes(c, "store")
    BY <1>1, <2>1 DEF Goes, Client
  <2>2. CASE \/ clients' = [clients EXCEPT ![c].pc = "serve", ![c].port = proxies[clients[c].env]]
             \/ clients' = [clients EXCEPT ![c].pc = "config", ![c].building = TRUE]
    BY <1>1, <2>2 DEF Client
  <2> QED BY <1>3, <2>1, <2>2 DEF Dialed
<1>4. CASE Request(c)
  BY <1>1, <1>4 DEF Request, NoRequest
<1>5. CASE ReadConfig(c) \/ RegisterProxy(c)
  BY <1>1, <1>5 DEF ReadConfig, RegisterProxy, Client
<1>6. CASE TimedOut(c) \/ Serve(c)
  BY <1>1, <1>6 DEF TimedOut, Serve, NoRequest
<1> QED BY <1>2, <1>3, <1>4, <1>5, <1>6, OneClient DEF Handles

LEMMA NextProxies ==
  ASSUME TypeInv, ProxyInv, [Next]_vars
  PROVE  ProxyInv'
<1>1. CASE Cleanup
  <2>1. loop.env \in Envs
    BY <1>1 DEF Cleanup, TypeInv
  <2> QED BY <1>1, <2>1, ProxyTaken DEF Cleanup
<1>2. ASSUME NEW e \in Envs, deleteEndpoint(e)
      PROVE  ProxyInv'
  BY <1>2, ProxyTaken DEF deleteEndpoint
<1>3. CASE ~Cleanup /\ \A e \in Envs : ~deleteEndpoint(e)
  <2>1. ASSUME NEW e \in DOMAIN proxies' PROVE Leads(e, proxies[e])'
    BY <1>3, <2>1, ProxiesKept DEF Leads
  <2>2. ASSUME NEW c \in Clients PROVE BuildsRight(c)'
    BY <1>3, <2>2, BuildersKept DEF BuildsRight
  <2>3. ASSUME NEW c \in Clients, clients'[c].pc = "store" PROVE clients'[c].building
    BY <2>3, StoresBuild
  <2> QED BY <2>1, <2>2, <2>3 DEF ProxyInv
<1> QED BY <1>1, <1>2, <1>3

\* A registered proxy leads to its environment's open tunnel, once close is
\* through, unless a tunnel was closed while a request was creating the proxy
\* (chisel/tunnel.go's close and ProxyManager.DeleteEndpointProxy).
THEOREM ProxiesLead == Spec => []ProxiesFollowTunnels
<1>1. Init => ProxyInv
  BY DEF Init, ProxyInv, BuildsRight, NoRequest, EmptyTable
<1>2. ProxyInv => ProxiesFollowTunnels
  BY DEF ProxyInv, Leads, ProxiesFollowTunnels
<1>3. TypeInv /\ ProxyInv /\ [Next]_vars => ProxyInv'
  BY NextProxies
<1> QED BY <1>1, <1>2, <1>3, TypesHold, PTL DEF Spec
=============================================================================
