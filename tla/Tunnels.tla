------------------------------ MODULE Tunnels ------------------------------
(***************************************************************************)
(* The reverse tunnels of edge environments (api/chisel) with what hangs   *)
(* on them: the endpoint proxies, which keep a tunnel's port, and the      *)
(* cached status responses, which keep agents from asking again.  Requests *)
(* for an environment open its tunnel, the agent learns of it when it      *)
(* polls, and one loop closes the tunnels that nobody used for a while.    *)
(*                                                                         *)
(* Time is left to chance: at any moment a tunnel may have been idle for   *)
(* activeTimeout (fresh is then FALSE), and a request may give up.         *)
(***************************************************************************)
EXTENDS Tables, Integers, FiniteSets

CONSTANTS Envs, Ports, Clients,
          Mortal,       \* environments that may be deleted
          MaxOpens      \* tunnels opened

ASSUME BoundsAssumption == MaxOpens \in Nat /\ Ports \subseteq Nat \ {0} /\ Mortal \subseteq Envs

VARIABLES tunnels,      \* activeTunnels
          proxies,      \* endpointProxies, by environment the port
          etag,         \* the cached status response of an environment
          told,         \* by environment, the response its agent acts on
          poll,         \* by environment, the response being prepared
          loop,         \* the verification loop
          clients,      \* the requests
          envs,         \* environments in the datastore
          snapshots,    \* environments with a snapshot in the datastore
          opens,        \* tunnels opened so far
          crossed,      \* for the properties: a status response is out of date
          overtaken     \* or a proxy is, because a tunnel changed meanwhile

vars == <<tunnels, proxies, etag, told, poll, loop, clients, envs, snapshots,
          opens, crossed, overtaken>>

NoPort == 0
\* A status response: the port and, for the credentials, the tunnel's number.
Response == [port: Ports \cup {NoPort}, tunnel: 0..MaxOpens]
Idle == [port |-> NoPort, tunnel |-> 0]
NoPoll == [at |-> "none", response |-> Idle]
Never == [at |-> "never", response |-> Idle]
At(response) == [at |-> "answered", response |-> response]
Answer == [at: {"answered"}, response: Response]

Tunnel == [port: Ports, tunnel: 1..MaxOpens, fresh: BOOLEAN, snapshot: BOOLEAN]

\* gone: the environment of the tunnel was deleted.
Loop == [pc: {"idle", "first", "last", "cleanup", "again"}, env: Envs \cup {"none"},
         gone: BOOLEAN]
Waiting == [pc |-> "idle", env |-> "none", gone |-> FALSE]

\* building: the request creates the proxy, which calls TunnelAddr once more.
Client == [pc: {"idle", "config", "dial", "store", "serve"},
           env: Envs \cup {"none"}, port: Ports \cup {NoPort}, building: BOOLEAN]
NoRequest == [pc |-> "idle", env |-> "none", port |-> NoPort, building |-> FALSE]

TypeOK ==
    /\ IsTable(tunnels, Envs, Tunnel)
    /\ IsTable(proxies, Envs, Ports)
    /\ IsTable(etag, Envs, Response)
    /\ told \in [Envs -> {Never} \cup Answer]
    /\ poll \in [Envs -> {NoPoll} \cup Answer]
    /\ loop \in Loop
    /\ clients \in [Clients -> Client]
    /\ envs \subseteq Envs /\ snapshots \subseteq Envs
    /\ opens \in 0..MaxOpens
    /\ crossed \subseteq Envs /\ overtaken \subseteq Envs

Init ==
    /\ tunnels = EmptyTable /\ proxies = EmptyTable /\ etag = EmptyTable
    /\ told = [e \in Envs |-> Never] /\ poll = [e \in Envs |-> NoPoll]
    /\ loop = Waiting
    /\ clients = [c \in Clients |-> NoRequest]
    /\ envs = Envs /\ snapshots = {}
    /\ opens = 0 /\ crossed = {} /\ overtaken = {}

-----------------------------------------------------------------------------
(* The service, under its lock.                                            *)

IsOpen(e) == e \in DOMAIN tunnels

Config(e) ==
    IF IsOpen(e) THEN [port |-> tunnels[e].port, tunnel |-> tunnels[e].tunnel] ELSE Idle

\* Agents listen on the port they were told of.
Listening == {told[e].response.port : e \in Envs} \ {NoPort}

\* A faulty form: the range of ports begins too early.
unusedPorts_FromZero ==
    ((Ports \cup {NoPort}) \ {tunnels[e].port : e \in DOMAIN tunnels}) \ Listening

unusedPorts == (Ports \ {tunnels[e].port : e \in DOMAIN tunnels}) \ Listening

\* cache.Del.  A response being prepared was read before it.
Forget(e) ==
    /\ etag' = Drop(etag, {e})
    /\ crossed' = IF poll[e] = NoPoll THEN crossed \ {e} ELSE crossed \cup {e}

CanOpen(e) == IsOpen(e) \/ (opens < MaxOpens /\ unusedPorts # {})

\* A faulty form: the cached response of a closed tunnel stays.
Open_KeepsCache(e) ==
    \/ IsOpen(e) /\ UNCHANGED <<tunnels, etag, crossed, opens>>
    \/ /\ ~IsOpen(e) /\ opens < MaxOpens
       /\ opens' = opens + 1
       /\ \E p \in unusedPorts :
            tunnels' = Put(tunnels, e, [port |-> p, tunnel |-> opens + 1,
                                        fresh |-> TRUE, snapshot |-> FALSE])
       /\ UNCHANGED <<etag, crossed>>

Open(e) ==
    \/ IsOpen(e) /\ UNCHANGED <<tunnels, etag, crossed, opens>>
    \/ /\ ~IsOpen(e) /\ opens < MaxOpens
       /\ opens' = opens + 1
       /\ \E p \in unusedPorts :
            tunnels' = Put(tunnels, e, [port |-> p, tunnel |-> opens + 1,
                                        fresh |-> TRUE, snapshot |-> FALSE])
       /\ Forget(e)

UpdateLastActivity(e) ==
    tunnels' = IF IsOpen(e) THEN [tunnels EXCEPT ![e].fresh = TRUE] ELSE tunnels

-----------------------------------------------------------------------------
(* A request for an environment, as proxyRequestsToDockerAPI handles it.   *)

Goes(c, pc) == clients' = [clients EXCEPT ![c].pc = pc]

\* The environment is read, and TunnelAddr opens its tunnel if it is closed.
Request(c) ==
    /\ clients[c].pc = "idle"
    /\ \E e \in envs :
        /\ Open(e)
        /\ clients' = [clients EXCEPT ![c] = [NoRequest EXCEPT !.pc = "config", !.env = e]]
    /\ UNCHANGED <<proxies, told, poll, loop, envs, snapshots, overtaken>>

ReadConfig(c) ==
    /\ clients[c].pc = "config"
    /\ clients' = [clients EXCEPT ![c].pc = "dial", ![c].port = Config(clients[c].env).port]
    /\ UNCHANGED <<tunnels, proxies, etag, told, poll, loop, envs, snapshots, opens,
                   crossed, overtaken>>

\* Something answers at the port: TunnelAddr returns.  Then the environment's
\* proxy serves the request, or a new one is made, for which TunnelAddr runs
\* once more.
Dialed(c) ==
    /\ clients[c].pc = "dial" /\ clients[c].port \in Listening
    /\ LET e == clients[c].env
       IN \/ /\ clients[c].building
             /\ UpdateLastActivity(e)
             /\ Goes(c, "store")
             /\ UNCHANGED <<etag, crossed, opens>>
          \/ /\ ~clients[c].building /\ e \in DOMAIN proxies
             /\ UpdateLastActivity(e)
             /\ clients' = [clients EXCEPT ![c].pc = "serve", ![c].port = proxies[e]]
             /\ UNCHANGED <<etag, crossed, opens>>
          \/ /\ ~clients[c].building /\ e \notin DOMAIN proxies
             /\ \/ /\ IsOpen(e) /\ UpdateLastActivity(e)
                   /\ UNCHANGED <<etag, crossed, opens>>
                \/ ~IsOpen(e) /\ Open(e)
             /\ clients' = [clients EXCEPT ![c].pc = "config", ![c].building = TRUE]
    /\ UNCHANGED <<proxies, told, poll, loop, envs, snapshots, overtaken>>

TimedOut(c) ==
    /\ clients[c].pc = "dial"
    /\ clients' = [clients EXCEPT ![c] = NoRequest]
    /\ UNCHANGED <<tunnels, proxies, etag, told, poll, loop, envs, snapshots, opens,
                   crossed, overtaken>>

RegisterProxy(c) ==
    /\ clients[c].pc = "store"
    /\ proxies' = Put(proxies, clients[c].env, clients[c].port)
    /\ clients' = [clients EXCEPT ![c].pc = "serve", ![c].building = FALSE]
    /\ UNCHANGED <<tunnels, etag, told, poll, loop, envs, snapshots, opens, crossed, overtaken>>

\* The proxied request succeeds, which counts as a use, or fails.
Serve(c) ==
    /\ clients[c].pc = "serve"
    /\ \/ clients[c].port \in Listening /\ UpdateLastActivity(clients[c].env)
       \/ clients[c].port \notin Listening /\ UNCHANGED tunnels
    /\ clients' = [clients EXCEPT ![c] = NoRequest]
    /\ UNCHANGED <<proxies, etag, told, poll, loop, envs, snapshots, opens, crossed, overtaken>>

-----------------------------------------------------------------------------
(* The agent's status request.                                             *)

\* Unless the cache says that nothing changed, the environment is updated,
\* which clears the cache, and the response is made.  The first request of
\* all opens the tunnel; that it could not is ignored.
PollStart(e) ==
    /\ poll[e] = NoPoll /\ e \in envs
    /\ ~(e \in DOMAIN etag /\ told[e] = At(etag[e]))
    /\ IF told[e] = Never /\ CanOpen(e)
         THEN Open(e)
         ELSE etag' = Drop(etag, {e}) /\ crossed' = crossed \ {e} /\ UNCHANGED <<tunnels, opens>>
    /\ poll' = [poll EXCEPT ![e] = At(Config(e)')]
    /\ UNCHANGED <<proxies, told, loop, clients, envs, snapshots, overtaken>>

\* The response is cached and sent; the agent connects or disconnects.
cacheResponse(e) ==
    /\ poll[e] # NoPoll
    /\ etag' = Put(etag, e, poll[e].response)
    /\ told' = [told EXCEPT ![e] = poll[e]]
    /\ poll' = [poll EXCEPT ![e] = NoPoll]
    /\ UNCHANGED <<tunnels, proxies, loop, clients, envs, snapshots, opens, crossed, overtaken>>

-----------------------------------------------------------------------------
(* The verification loop: one tunnel a tick, in an order that is random.   *)

\* An open tunnel without a snapshot gets one, and an idle tunnel is chosen
\* to be closed; the lock is released before either.
checkTunnels(e) ==
    /\ loop.pc = "idle" /\ IsOpen(e)
    /\ \/ /\ ~tunnels[e].snapshot /\ tunnels[e].fresh /\ e \in snapshots
          /\ tunnels' = [tunnels EXCEPT ![e].snapshot = TRUE]
          /\ UNCHANGED loop
       \/ /\ ~tunnels[e].snapshot /\ tunnels[e].fresh /\ e \notin snapshots
          /\ loop' = [Waiting EXCEPT !.pc = "first", !.env = e]
          /\ UNCHANGED tunnels
       \/ /\ ~tunnels[e].fresh
          /\ loop' = [Waiting EXCEPT !.pc = "last", !.env = e]
          /\ UNCHANGED tunnels
    /\ UNCHANGED <<proxies, etag, told, poll, clients, envs, snapshots, opens,
                   crossed, overtaken>>

\* Removes the tunnel from the map; the proxy follows without the lock.
close(e) ==
    /\ tunnels' = Drop(tunnels, {e})
    /\ Forget(e)
    /\ loop' = [loop EXCEPT !.pc = "cleanup"]

\* A snapshot that succeeds uses the tunnel itself, by its TunnelAddr.
SnapshotTaken ==
    /\ loop.pc = "first" /\ loop.env \in envs
    /\ snapshots' = snapshots \cup {loop.env}
    /\ tunnels' = IF IsOpen(loop.env)
                    THEN [tunnels EXCEPT ![loop.env].fresh = TRUE,
                                         ![loop.env].snapshot = TRUE]
                    ELSE tunnels
    /\ loop' = Waiting
    /\ UNCHANGED <<proxies, etag, told, poll, clients, envs, opens, crossed, overtaken>>

SnapshotFailed ==
    /\ loop.pc = "first" /\ loop.env \in envs
    /\ loop' = Waiting
    /\ UNCHANGED <<tunnels, proxies, etag, told, poll, clients, envs, snapshots, opens,
                   crossed, overtaken>>

\* A faulty form: a tunnel whose last snapshot fails stays open.
CloseIdle_IfSnapshot ==
    /\ loop.pc = "last" /\ loop.env \in envs
    /\ \/ snapshots' = snapshots \cup {loop.env} /\ close(loop.env)
       \/ loop' = Waiting /\ UNCHANGED <<tunnels, etag, crossed, snapshots>>
    /\ UNCHANGED <<proxies, told, poll, clients, envs, opens, overtaken>>

\* The last snapshot of an idle tunnel, taken or not, and its end.
CloseIdle ==
    /\ loop.pc = "last" /\ loop.env \in envs
    /\ snapshots' \in {snapshots, snapshots \cup {loop.env}}
    /\ close(loop.env)
    /\ UNCHANGED <<proxies, told, poll, clients, envs, opens, overtaken>>

\* The environment is not in the datastore any more: its tunnel is closed.
CloseGone ==
    /\ loop.pc \in {"first", "last"} /\ loop.env \notin envs
    /\ tunnels' = Drop(tunnels, {loop.env})
    /\ Forget(loop.env)
    /\ loop' = [loop EXCEPT !.pc = "cleanup", !.gone = (loop.pc = "last")]
    /\ UNCHANGED <<proxies, told, poll, clients, envs, snapshots, opens, overtaken>>

Building(e) == \E c \in Clients : clients[c].env = e /\ clients[c].building

\* DeleteEndpointProxy, by close and by the deletion of an environment.
DeleteEndpointProxy(e) ==
    /\ proxies' = Drop(proxies, {e})
    /\ overtaken' = IF Building(e) THEN overtaken \cup {e} ELSE overtaken \ {e}

\* A faulty form: the proxy of a closed tunnel stays.
Cleanup_KeepsProxy ==
    /\ loop.pc = "cleanup"
    /\ UNCHANGED <<proxies, overtaken>>
    /\ loop' = IF loop.gone THEN [loop EXCEPT !.pc = "again"] ELSE Waiting
    /\ UNCHANGED <<tunnels, etag, told, poll, clients, envs, snapshots, opens, crossed>>

Cleanup ==
    /\ loop.pc = "cleanup"
    /\ DeleteEndpointProxy(loop.env)
    /\ loop' = IF loop.gone THEN [loop EXCEPT !.pc = "again"] ELSE Waiting
    /\ UNCHANGED <<tunnels, etag, told, poll, clients, envs, snapshots, opens, crossed>>

\* checkTunnels closes after snapshotAndLog did, in case it was opened again.
CloseAgain ==
    /\ loop.pc = "again"
    /\ \/ /\ IsOpen(loop.env)
          /\ tunnels' = Drop(tunnels, {loop.env})
          /\ Forget(loop.env)
          /\ loop' = [loop EXCEPT !.pc = "cleanup", !.gone = FALSE]
       \/ /\ ~IsOpen(loop.env)
          /\ loop' = Waiting
          /\ UNCHANGED <<tunnels, etag, crossed>>
    /\ UNCHANGED <<proxies, told, poll, clients, envs, snapshots, opens, overtaken>>

-----------------------------------------------------------------------------
\* activeTimeout passed since the tunnel was last used.
Elapses(e) ==
    /\ IsOpen(e) /\ tunnels[e].fresh
    /\ tunnels' = [tunnels EXCEPT ![e].fresh = FALSE]
    /\ UNCHANGED <<proxies, etag, told, poll, loop, clients, envs, snapshots, opens,
                   crossed, overtaken>>

\* The environment is deleted with its snapshot and proxy; its tunnel stays.
deleteEndpoint(e) ==
    /\ e \in envs \cap Mortal
    /\ envs' = envs \ {e} /\ snapshots' = snapshots \ {e}
    /\ DeleteEndpointProxy(e)
    /\ Forget(e)
    /\ UNCHANGED <<tunnels, told, poll, loop, clients, opens>>

Handles(c) == \/ Request(c) \/ ReadConfig(c) \/ Dialed(c) \/ TimedOut(c)
              \/ RegisterProxy(c) \/ Serve(c)
Polls(e) == PollStart(e) \/ cacheResponse(e)
Loops == SnapshotTaken \/ SnapshotFailed \/ CloseIdle \/ CloseGone \/ Cleanup \/ CloseAgain

Next ==
    \/ \E c \in Clients : Handles(c)
    \/ \E e \in Envs : Polls(e) \/ checkTunnels(e) \/ Elapses(e) \/ deleteEndpoint(e)
    \/ Loops

\* Agents poll and the loop ticks.  Which tunnel a tick takes is random, so a
\* tunnel that could be taken again and again is taken at last.
Fairness ==
    /\ \A e \in Envs : WF_vars(Polls(e)) /\ SF_vars(checkTunnels(e))
    /\ WF_vars(Loops)

Spec == Init /\ [][Next]_vars /\ Fairness

-----------------------------------------------------------------------------
(* Properties.                                                             *)

\* A cached response that keeps an agent from asking again says what Config
\* would: every change of a tunnel clears it.  The exception is a change while
\* a response was between Config and cacheResponse, which outlives the change.
CacheIsCurrent ==
    \A e \in DOMAIN etag : etag[e] = Config(e) \/ e \in crossed

\* A registered proxy leads to its environment's open tunnel, once close is
\* through.  The exception is a close while a request was creating the proxy,
\* which then registers the port of a tunnel that is gone.
ProxiesFollowTunnels ==
    \A e \in DOMAIN proxies :
        \/ IsOpen(e) /\ proxies[e] = tunnels[e].port
        \/ loop.pc = "cleanup" /\ loop.env = e
        \/ e \in overtaken

\* The agent of an open tunnel hears of it, or the tunnel goes, or a response
\* crosses the opening.
OpenTunnelsAreHeard ==
    \A e \in Envs \ Mortal :
        IsOpen(e) ~> (~IsOpen(e) \/ e \in crossed \/ told[e] = At(Config(e)))

\* A tunnel that nobody uses is closed, whatever the other tunnels need and
\* whether or not its environment can be reached or still exists (so it is
\* stated of the environments that may be deleted).
IdleTunnelsClose ==
    \A e \in Mortal : (IsOpen(e) /\ ~tunnels[e].fresh) ~> (~IsOpen(e) \/ tunnels[e].fresh)
=============================================================================
