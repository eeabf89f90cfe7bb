------------------------------- MODULE McProxy -------------------------------
(***************************************************************************)
(* The proxy that shares the one TCP connection of a MeshCore node among   *)
(* several clients (proxy/mc-proxy/mc_proxy.py): upstream_loop, the        *)
(* watchdog of each handshake, keepalive_loop and one handle_client per    *)
(* client, all on one event loop, so an action runs from await to await.   *)
(*                                                                         *)
(* Timers are choices: a wait may end at any moment.  A frame is either    *)
(* SELF_INFO or another one.  Writing to the node never waits; writing to  *)
(* a client may, for as long as it does not read.  The allow-list, the     *)
(* status page, the parsing of frames and the pace of reconnecting are     *)
(* left out.                                                               *)
(***************************************************************************)
EXTENDS Integers, FiniteSets

CONSTANTS
  Conns,      \* identities of connections to the node, reused once forgotten
  Clients,
  MaxClients, \* MAX_CLIENTS
  MaxSilent,  \* MAX_SILENT_ROUNDS
  None

ASSUME ProxyAssumption ==
  /\ MaxClients \in Nat \ {0} /\ MaxSilent \in Nat \ {0} /\ None \notin Conns

VARIABLES
  \* the connection to the node
  up,         \* up_writer, or None
  loop,       \* where upstream_loop is: "down", "read", or "cast" in broadcast
  open,       \* connections the proxy has not closed
  alive,      \* _node_alive: it sent something on the last connection
  silent,     \* _silent_rounds, told apart up to MaxSilent
  since,      \* _node_down_since is set
  watch,      \* connection -> what its watchdog waits for: 0 nothing, 1, 2
  keep,       \* keepalive_loop: "sleep", "lock" or "listen"
  heard,      \* while keepalive_loop waits: _last_node_rx is newer than "before"
  recent,     \* _last_upstream_tx is less than KEEPALIVE_S ago
  info,       \* self_info_frame is there
  \* the clients
  clients,    \* the keys of clients
  phase,      \* client -> its handle_client: "off", "read", "queue" or "pace"
  ended,      \* clients whose connection was closed, by either side
  todo,       \* clients broadcast still has to write to
  dead,       \* "dead" of broadcast
  casting,    \* the frame being broadcast is SELF_INFO
  grip,       \* the connection _exchange writes to while it holds cmd_lock
  \* history, read by no action:
  waiting     \* clients that sent APP_START and were not sent SELF_INFO since

nodeVars   == <<up, loop, open, alive, silent, since, watch, info>>
keepVars   == <<keep, heard>>
clientVars == <<clients, phase, ended, grip, waiting>>
castVars   == <<todo, dead, casting>>
vars == <<nodeVars, keepVars, recent, clientVars, castVars>>
-----------------------------------------------------------------------------
ProxyTypeOK ==
  /\ up \in Conns \cup {None} /\ loop \in {"down", "read", "cast"}
  /\ (up = None) = (loop = "down")
  /\ open \subseteq Conns /\ watch \in [Conns -> 0 .. 2]
  /\ {alive, since, heard, recent, info, casting} \subseteq BOOLEAN
  /\ silent \in 0 .. MaxSilent /\ keep \in {"sleep", "lock", "listen"}
  /\ phase \in [Clients -> {"off", "read", "queue", "pace"}]
  /\ clients \subseteq Clients /\ Cardinality(clients) <= MaxClients
  /\ \A S \in {ended, todo, dead, waiting} : S \subseteq Clients
  /\ grip \in Conns \cup {None}
  /\ Cardinality({c \in Clients : phase[c] = "pace"}) <= 1

Init ==
  /\ up = None /\ loop = "down" /\ open = {}
  /\ alive = FALSE /\ silent = 0 /\ since = FALSE /\ watch = [g \in Conns |-> 0]
  /\ keep = "sleep" /\ heard = FALSE /\ recent = FALSE /\ info = FALSE
  /\ clients = {} /\ phase = [c \in Clients |-> "off"] /\ ended = {}
  /\ todo = {} /\ dead = {} /\ casting = FALSE /\ grip = None
  /\ waiting = {}
-----------------------------------------------------------------------------
(* upstream_loop                                                           *)

\* Somebody still holds this connection: its watchdog or an exchange.
Known(g) == g = up \/ watch[g] > 0 \/ grip = g

\* A connection is there: the handshake goes out and gets a watchdog.
Connect(g) ==
  /\ loop = "down" /\ ~Known(g)
  /\ up' = g /\ loop' = "read" /\ open' = open \cup {g}
  /\ alive' = FALSE /\ since' = FALSE /\ recent' = TRUE
  /\ watch' = [watch EXCEPT ![g] = 1]
  /\ UNCHANGED <<silent, info, keepVars, clientVars, castVars>>

\* Clients are let go of without closing their connections.
Away_NoClose(drop) ==
  /\ drop => since
  /\ since' = TRUE
  /\ clients' = IF drop THEN {} ELSE clients
  /\ UNCHANGED <<ended, phase, grip, waiting>>

\* The rest of the except branch: how long the node is away is counted from
\* the first failure, and once it is too long the clients are let go (drop).
Away(drop) ==
  /\ drop => since
  /\ since' = TRUE
  /\ ended'   = IF drop THEN ended \cup clients ELSE ended
  /\ clients' = IF drop THEN {} ELSE clients
  /\ UNCHANGED <<phase, grip, waiting>>

\* open_connection fails.
ConnectFails ==
  /\ loop = "down" /\ \E drop \in BOOLEAN : Away(drop)
  /\ UNCHANGED <<up, loop, open, alive, silent, watch, info,
                 keepVars, recent, castVars>>

\* dispatch that swallows SELF_INFO, as an answer to the proxy itself.
NodeFrame_Swallows(isInfo) ==
  /\ loop = "read"
  /\ loop' = "cast" /\ todo' = (IF isInfo THEN {} ELSE clients)
  /\ dead' = {} /\ casting' = isInfo
  /\ alive' = TRUE /\ silent' = 0 /\ heard' = (keep # "sleep")
  /\ info' = (info \/ isInfo)
  /\ UNCHANGED <<up, open, since, watch, keep, recent, clientVars>>

\* A frame from the node: noted, kept when it is SELF_INFO, and broadcast.
NodeFrame(isInfo) ==
  /\ loop = "read"
  /\ loop' = "cast" /\ todo' = clients /\ dead' = {} /\ casting' = isInfo
  /\ alive' = TRUE /\ silent' = 0 /\ heard' = (keep # "sleep")
  /\ info' = (info \/ isInfo)
  /\ UNCHANGED <<up, open, since, watch, keep, recent, clientVars>>

\* broadcast comes to one of its clients, and drain ends; writing to a connection
\* that was closed may raise.
CastTo(c) ==
  /\ loop = "cast" /\ c \in todo /\ todo' = todo \ {c}
  /\ IF phase[c] = "off" \/ c \in ended
     THEN dead' \in {dead, dead \cup {c}} /\ UNCHANGED waiting
     ELSE waiting' = (IF casting THEN waiting \ {c} ELSE waiting) /\ UNCHANGED dead
  /\ UNCHANGED <<nodeVars, keepVars, recent, clients, phase, ended, grip, casting>>

CastDone ==
  /\ loop = "cast" /\ todo = {} /\ loop' = "read"
  /\ clients' = clients \ dead /\ dead' = {} /\ casting' = FALSE
  /\ UNCHANGED <<up, open, alive, silent, since, watch, info, keepVars,
                 recent, phase, ended, grip, waiting, todo>>

\* A connection that is lost stays open at this end.
ConnectionLost_NoClose ==
  /\ loop = "read" /\ loop' = "down" /\ up' = None /\ Away(FALSE)
  /\ UNCHANGED <<open, alive, silent, watch, info, keepVars, recent, castVars>>

\* The node closes the connection, or the proxy did: read returns nothing.
ConnectionLost ==
  /\ loop = "read" /\ loop' = "down" /\ up' = None /\ open' = open \ {up}
  /\ Away(FALSE)
  /\ UNCHANGED <<alive, silent, watch, info, keepVars, recent, castVars>>
-----------------------------------------------------------------------------
(* _handshake_watchdog and keepalive_loop                                  *)

\* A watchdog that looks at the health of the proxy and not at whose.
Minds_Any(g) == ~alive /\ up # None

\* The connection a watchdog was started for is still there, and silent.
Minds(g) == ~alive /\ up = g

\* Half the term is over: ask once more.
WatchAgain(g) ==
  /\ watch[g] = 1
  /\ watch' = [watch EXCEPT ![g] = IF Minds(g) THEN 2 ELSE 0]
  /\ recent' = (recent \/ Minds(g))
  /\ UNCHANGED <<up, loop, open, alive, silent, since, info,
                 keepVars, clientVars, castVars>>

\* The term is over: close the connection.
WatchEnds(g) ==
  /\ watch[g] = 2
  /\ watch' = [watch EXCEPT ![g] = 0]
  /\ open' = IF Minds(g) THEN open \ {up} ELSE open
  /\ UNCHANGED <<up, loop, alive, silent, since, info,
                 keepVars, recent, clientVars, castVars>>

\* keepalive_loop finds the connection quiet, and first lets go of the
\* clients that were idle long enough.
KeepCheck ==
  /\ keep = "sleep" /\ up # None /\ ~recent /\ grip = None
  /\ keep' = "lock" /\ heard' = FALSE
  /\ \E S \in SUBSET clients : clients' = clients \ S /\ ended' = ended \cup S
  /\ UNCHANGED <<nodeVars, recent, phase, grip, waiting, castVars>>

\* It gets cmd_lock, and sends.
KeepSend ==
  /\ keep = "lock" /\ grip = None
  /\ keep' = "listen" /\ recent' = (recent \/ up # None)
  /\ UNCHANGED <<nodeVars, heard, clientVars, castVars>>

\* HANDSHAKE_TIMEOUT_S later: one silent round more, or the last one.
KeepListen ==
  /\ keep = "listen" /\ keep' = "sleep" /\ heard' = FALSE
  /\ LET rounds == silent + 1
         close  == ~heard /\ rounds >= MaxSilent /\ up # None
     IN /\ silent' = IF heard THEN silent
                     ELSE IF close THEN 0
                     ELSE IF rounds > MaxSilent THEN MaxSilent ELSE rounds
        /\ open' = IF close THEN open \ {up} ELSE open
  /\ UNCHANGED <<up, loop, alive, since, watch, info, recent, clientVars, castVars>>

\* KEEPALIVE_S without a frame to the node; no exchange takes that long.
Quiet ==
  /\ recent /\ grip = None /\ recent' = FALSE
  /\ UNCHANGED <<nodeVars, keepVars, clientVars, castVars>>
-----------------------------------------------------------------------------
(* handle_client and _exchange                                             *)

\* A client connects; when there are MaxClients, one that sent nothing for
\* IDLE_EVICT_S makes room for it, and without such a client it is refused.
Accept(c) ==
  /\ phase[c] = "off" /\ c \notin todo \cup dead
  /\ \/ /\ Cardinality(clients) < MaxClients
        /\ clients' = clients \cup {c} /\ ended' = ended \ {c}
     \/ /\ Cardinality(clients) >= MaxClients
        /\ \E v \in clients :
             clients' = (clients \ {v}) \cup {c} /\ ended' = (ended \cup {v}) \ {c}
  /\ phase' = [phase EXCEPT ![c] = "read"]
  /\ UNCHANGED <<nodeVars, keepVars, recent, grip, waiting, castVars>>

\* A frame of a client: APP_START is answered from the cache when there is one,
\* everything else waits for cmd_lock.
ClientFrame(c, isStart) ==
  /\ phase[c] = "read"
  /\ IF isStart /\ info
     THEN waiting' = waiting \ {c} /\ UNCHANGED phase
     ELSE /\ waiting' = IF isStart THEN waiting \cup {c} ELSE waiting
          /\ phase' = [phase EXCEPT ![c] = "queue"]
  /\ UNCHANGED <<nodeVars, keepVars, recent, clients, ended, grip, castVars>>

\* _exchange without cmd_lock.
ExchangeStart_NoLock(c) ==
  /\ phase[c] = "queue"
  /\ grip' = up
  /\ phase' = [phase EXCEPT ![c] = IF up = None THEN "read" ELSE "pace"]
  /\ UNCHANGED <<nodeVars, keepVars, recent, clients, ended, waiting, castVars>>

\* It gets cmd_lock and waits its time; without a connection the frame is gone.
ExchangeStart(c) ==
  /\ phase[c] = "queue" /\ grip = None
  /\ grip' = up
  /\ phase' = [phase EXCEPT ![c] = IF up = None THEN "read" ELSE "pace"]
  /\ UNCHANGED <<nodeVars, keepVars, recent, clients, ended, waiting, castVars>>

\* It writes to the connection it found, whatever became of that, and lets go of
\* cmd_lock.
ExchangeWrite(c) ==
  /\ phase[c] = "pace" /\ grip' = None /\ recent' = TRUE
  /\ phase' = [phase EXCEPT ![c] = "read"]
  /\ UNCHANGED <<nodeVars, keepVars, clients, ended, waiting, castVars>>

\* A client closes its connection.
ClientCloses(c) ==
  /\ phase[c] # "off" /\ c \notin ended /\ ended' = ended \cup {c}
  /\ UNCHANGED <<nodeVars, keepVars, recent, clients, phase, grip, waiting, castVars>>

\* read returns nothing: the end of handle_client.
ClientEnds(c) ==
  /\ phase[c] = "read" /\ c \in ended
  /\ phase' = [phase EXCEPT ![c] = "off"] /\ clients' = clients \ {c}
  /\ ended' = ended \ {c} /\ waiting' = waiting \ {c}
  /\ UNCHANGED <<nodeVars, keepVars, recent, grip, castVars>>
-----------------------------------------------------------------------------
Upstream ==
  \/ \E g \in Conns : Connect(g)
  \/ \E isInfo \in BOOLEAN : NodeFrame(isInfo)
  \/ \E c \in Clients : CastTo(c)
  \/ ConnectFails \/ CastDone \/ ConnectionLost

Timers ==
  \/ \E g \in Conns : WatchAgain(g) \/ WatchEnds(g)
  \/ KeepCheck \/ KeepSend \/ KeepListen \/ Quiet

Client(c) ==
  \/ Accept(c) \/ ExchangeStart(c) \/ ExchangeWrite(c)
  \/ \E isStart \in BOOLEAN : ClientFrame(c, isStart)
  \/ ClientCloses(c) \/ ClientEnds(c)

Next == Upstream \/ Timers \/ \E c \in Clients : Client(c)

Spec == Init /\ [][Next]_vars
-----------------------------------------------------------------------------
\* "The MeshCore companion firmware accepts only ONE TCP client at a time": the
\* proxy never holds two connections to the node, however it lost the first.
OneConnection == open \subseteq {up}

\* "een watchdog van een oudere poging mag nooit een nieuwe, gezonde verbinding
\* afbreken": apart from one that was lost, a connection is closed only when it
\* had both its own chances to answer the handshake and answered neither, or by
\* the keepalive at the end of a row of silent rounds.
OwnWatchdogOnly ==
  [][\A g \in open \ open' :
        \/ loop' = "down"
        \/ ~alive /\ watch[g] = 2
        \/ keep = "listen" /\ ~heard /\ silent + 1 >= MaxSilent]_vars

\* Every client with a connection gets the frames of the node: whoever is taken
\* from the list, by drop_clients, by a newcomer, by keepalive_loop or by
\* broadcast, has a connection that is closed, so that it connects again.
NoForgottenClient ==
  \A c \in Clients : phase[c] # "off" /\ c \notin ended => c \in clients

\* "It caches the node's SELF_INFO reply and answers every client's handshake
\* from the cache": a client that sent APP_START before the cache was filled,
\* and so to a node that ignores it, is in the broadcast that fills it.
HandshakeAnswered ==
  \A c \in Clients :
    info /\ phase[c] # "off" /\ c \notin ended /\ c \in waiting =>
      loop = "cast" /\ casting /\ c \in todo
=============================================================================
