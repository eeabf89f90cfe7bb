----------------------------- MODULE ProxyProofs -----------------------------
(***************************************************************************)
(* McProxy: the proxy holds one connection to the node, forgets no client, *)
(* leaves no handshake unanswered, and closes no connection that works,    *)
(* for any number of clients and of connections, and all settings.         *)
(***************************************************************************)
EXTENDS McProxy, FiniteSetTheorems, TLAPS

\* What is kept of the types.
Sorts ==
  /\ up \in Conns \cup {None} /\ open \subseteq Conns
  /\ info \in BOOLEAN /\ casting \in BOOLEAN
  /\ phase \in [Clients -> {"off", "read", "queue", "pace"}]
  /\ clients \subseteq Clients /\ waiting \subseteq Clients /\ ended \subseteq Clients

\* Without a connection there is nothing to read.
Upright == up = None <=> loop = "down"

\* broadcast takes from the list only clients whose connection was closed, and
\* only while it runs.
DeadGone == \A c \in dead : c \in Clients => phase[c] = "off" \/ c \in ended

\* SELF_INFO is kept before it is broadcast, and a client that is not there does
\* not wait for it.
Cached == (casting => info) /\ \A c \in waiting : phase[c] # "off"

ProxyInv ==
  /\ Sorts /\ Upright /\ DeadGone /\ Cached
  /\ OneConnection /\ NoForgottenClient /\ HandshakeAnswered

LEMMA ProxyInit == Init => ProxyInv
BY ProxyAssumption DEF Init, ProxyInv, Sorts, Upright, DeadGone, Cached,
     OneConnection, NoForgottenClient, HandshakeAnswered

LEMMA ProxyStep == ProxyInv /\ [Next]_vars => ProxyInv'
<1> SUFFICES ASSUME ProxyInv, [Next]_vars PROVE ProxyInv'
  OBVIOUS
<1> USE ProxyAssumption DEF ProxyInv, Sorts, Upright, DeadGone, Cached,
     OneConnection, NoForgottenClient, HandshakeAnswered,
     nodeVars, keepVars, clientVars, castVars
<1>1. ASSUME NEW g \in Conns, Connect(g) PROVE ProxyInv'
  BY <1>1 DEF Connect
<1>2. ASSUME NEW isInfo \in BOOLEAN, NodeFrame(isInfo) PROVE ProxyInv'
  BY <1>2 DEF NodeFrame
<1>3. ASSUME NEW c \in Clients, CastTo(c) PROVE ProxyInv'
  BY <1>3 DEF CastTo
<1>4. CASE ConnectFails
  BY <1>4 DEF ConnectFails, Away
<1>5. CASE CastDone
  BY <1>5 DEF CastDone
<1>6. CASE ConnectionLost
  BY <1>6 DEF ConnectionLost, Away
<1>7. ASSUME NEW g \in Conns, WatchAgain(g) \/ WatchEnds(g) PROVE ProxyInv'
  BY <1>7 DEF WatchAgain, WatchEnds
<1>8. CASE KeepCheck
  BY <1>8 DEF KeepCheck
<1>9. CASE KeepSend \/ KeepListen \/ Quiet
  BY <1>9 DEF KeepSend, KeepListen, Quiet
<1>10. ASSUME NEW c \in Clients, Accept(c) PROVE ProxyInv'
  BY <1>10 DEF Accept
<1>11. ASSUME NEW c \in Clients, NEW isStart \in BOOLEAN, ClientFrame(c, isStart)
       PROVE ProxyInv'
  BY <1>11 DEF ClientFrame
<1>12. ASSUME NEW c \in Clients, ExchangeStart(c) PROVE ProxyInv'
  BY <1>12 DEF ExchangeStart
<1>13. ASSUME NEW c \in Clients, ExchangeWrite(c) PROVE ProxyInv'
  BY <1>13 DEF ExchangeWrite
<1>14. ASSUME NEW c \in Clients, ClientCloses(c) PROVE ProxyInv'
  BY <1>14 DEF ClientCloses
<1>15. ASSUME NEW c \in Clients, ClientEnds(c) PROVE ProxyInv'
  BY <1>15 DEF ClientEnds
<1>16. CASE UNCHANGED vars
  BY <1>16 DEF vars
<1> QED
  BY <1>1, <1>2, <1>3, <1>4, <1>5, <1>6, <1>7, <1>8, <1>9, <1>10, <1>11, <1>12,
     <1>13, <1>14, <1>15, <1>16 DEF Next, Upstream, Timers, Client

\* The proxy never holds two connections to the node (upstream_loop).
THEOREM ProxyOneConnection == Spec => []OneConnection
<1>1. ProxyInv => OneConnection
  BY DEF ProxyInv
<1> QED
  BY ProxyInit, ProxyStep, <1>1, PTL DEF Spec

\* No client with a connection is missing from the list that broadcast writes to
\* (drop_clients, handle_client, keepalive_loop, broadcast).
THEOREM ProxyForgetsNobody == Spec => []NoForgottenClient
<1>1. ProxyInv => NoForgottenClient
  BY DEF ProxyInv
<1> QED
  BY ProxyInit, ProxyStep, <1>1, PTL DEF Spec

\* Every client that sent APP_START has SELF_INFO or is about to get it, once the
\* proxy has it (dispatch, handle_client).
THEOREM ProxyAnswers == Spec => []HandshakeAnswered
<1>1. ProxyInv => HandshakeAnswered
  BY DEF ProxyInv
<1> QED
  BY ProxyInit, ProxyStep, <1>1, PTL DEF Spec
-----------------------------------------------------------------------------
\* The rest of the types.
MoreSorts ==
  /\ loop \in {"down", "read", "cast"} /\ watch \in [Conns -> 0 .. 2]
  /\ alive \in BOOLEAN /\ since \in BOOLEAN /\ heard \in BOOLEAN /\ recent \in BOOLEAN
  /\ silent \in 0 .. MaxSilent /\ keep \in {"sleep", "lock", "listen"}
  /\ todo \subseteq Clients /\ dead \subseteq Clients
  /\ grip \in Conns \cup {None}

\* cmd_lock: who waits its time in _exchange holds it, and so it is the only one.
LockHeld ==
  /\ \A c \in Clients : phase[c] = "pace" => grip # None
  /\ \A c, d \in Clients : phase[c] = "pace" /\ phase[d] = "pace" => c = d

\* A newcomer finds room or takes that of another (handle_client).
Room == IsFiniteSet(clients) /\ Cardinality(clients) <= MaxClients

LEMMA MoreSortsStep == ProxyInv /\ MoreSorts /\ [Next]_vars => MoreSorts'
<1> SUFFICES ASSUME ProxyInv, MoreSorts, [Next]_vars PROVE MoreSorts'
  OBVIOUS
<1> USE ProxyAssumption DEF ProxyInv, Sorts, MoreSorts,
     nodeVars, keepVars, clientVars, castVars
<1>1. ASSUME NEW g \in Conns, Connect(g) PROVE MoreSorts'
  <2>1. watch' \in [Conns -> 0 .. 2]
    BY <1>1 DEF Connect
  <2>. QED  BY <1>1, <2>1 DEF Connect
<1>2. ASSUME NEW isInfo \in BOOLEAN, NodeFrame(isInfo) PROVE MoreSorts'
  BY <1>2 DEF NodeFrame
<1>3. ASSUME NEW c \in Clients, CastTo(c) PROVE MoreSorts'
  <2>1. todo' \subseteq Clients /\ dead' \subseteq Clients
    BY <1>3 DEF CastTo
  <2>. QED  BY <1>3, <2>1 DEF CastTo
<1>4. CASE ConnectFails
  BY <1>4 DEF ConnectFails, Away
<1>5. CASE CastDone
  BY <1>5 DEF CastDone
<1>6. CASE ConnectionLost
  BY <1>6 DEF ConnectionLost, Away
<1>7. ASSUME NEW g \in Conns, WatchAgain(g) \/ WatchEnds(g) PROVE MoreSorts'
  <2>1. watch' \in [Conns -> 0 .. 2]
    BY <1>7 DEF WatchAgain, WatchEnds
  <2>. QED  BY <1>7, <2>1 DEF WatchAgain, WatchEnds
<1>8. CASE KeepCheck
  BY <1>8 DEF KeepCheck
<1>9. CASE KeepSend \/ Quiet
  BY <1>9 DEF KeepSend, Quiet
<1>a. CASE KeepListen
  <2>1. silent' \in 0 .. MaxSilent
    BY <1>a DEF KeepListen
  <2>. QED  BY <1>a, <2>1 DEF KeepListen
<1>10. ASSUME NEW c \in Clients, Accept(c) PROVE MoreSorts'
  BY <1>10 DEF Accept
<1>11. ASSUME NEW c \in Clients, NEW isStart \in BOOLEAN, ClientFrame(c, isStart)
       PROVE MoreSorts'
  BY <1>11 DEF ClientFrame
<1>12. ASSUME NEW c \in Clients, ExchangeStart(c) PROVE MoreSorts'
  BY <1>12 DEF ExchangeStart
<1>13. ASSUME NEW c \in Clients, ExchangeWrite(c) PROVE MoreSorts'
  BY <1>13 DEF ExchangeWrite
<1>14. ASSUME NEW c \in Clients, ClientCloses(c) PROVE MoreSorts'
  BY <1>14 DEF ClientCloses
<1>15. ASSUME NEW c \in Clients, ClientEnds(c) PROVE MoreSorts'
  BY <1>15 DEF ClientEnds
<1>16. CASE UNCHANGED vars
  BY <1>16 DEF vars
<1> QED
  BY <1>1, <1>2, <1>3, <1>4, <1>5, <1>6, <1>7, <1>8, <1>9, <1>a, <1>10, <1>11, <1>12,
     <1>13, <1>14, <1>15, <1>16 DEF Next, Upstream, Timers, Client

\* Who holds cmd_lock, and how many clients there are, are matters of handle_client
\* and of those that let clients go.
LEMMA OthersKeep ==
  ASSUME [Next]_vars, ~ \E c \in Clients : Client(c)
  PROVE  /\ phase' = phase /\ grip' = grip
         /\ clients' \subseteq clients
BY DEF Next, vars, nodeVars, keepVars, clientVars, castVars, Upstream, Timers,
   Connect, NodeFrame, CastTo, ConnectFails, Away, CastDone, ConnectionLost,
   WatchAgain, WatchEnds, KeepCheck, KeepSend, KeepListen, Quiet

LEMMA LockStep == ProxyInv /\ LockHeld /\ [Next]_vars => LockHeld'
<1> SUFFICES ASSUME ProxyInv, LockHeld, [Next]_vars PROVE LockHeld'
  OBVIOUS
<1>0. phase \in [Clients -> {"off", "read", "queue", "pace"}]
  BY DEF ProxyInv, Sorts
<1>1. CASE ~ \E c \in Clients : Client(c)
  BY <1>1, OthersKeep DEF LockHeld
<1>2. ASSUME NEW c \in Clients, ExchangeStart(c) PROVE LockHeld'
  <2>1. /\ grip = None /\ grip' = up
        /\ phase' = [phase EXCEPT ![c] = IF up = None THEN "read" ELSE "pace"]
    BY <1>2 DEF ExchangeStart
  <2>2. \A d \in Clients : phase[d] # "pace"
    BY <2>1 DEF LockHeld
  <2>. QED  BY <1>0, <2>1, <2>2 DEF LockHeld
<1>3. ASSUME NEW c \in Clients, ExchangeWrite(c) PROVE LockHeld'
  <2>1. phase[c] = "pace" /\ phase' = [phase EXCEPT ![c] = "read"]
    BY <1>3 DEF ExchangeWrite
  <2>2. \A d \in Clients : phase'[d] # "pace"
    BY <1>0, <2>1 DEF LockHeld
  <2>. QED  BY <2>2 DEF LockHeld
<1>4. ASSUME NEW c \in Clients,
             Accept(c) \/ ClientCloses(c) \/ ClientEnds(c) \/ \E b \in BOOLEAN : ClientFrame(c, b)
      PROVE  LockHeld'
  <2>1. grip' = grip /\ \A d \in Clients : phase'[d] = "pace" => phase[d] = "pace"
    BY <1>0, <1>4 DEF Accept, ClientCloses, ClientEnds, ClientFrame
  <2>. QED  BY <2>1 DEF LockHeld
<1> QED
  BY <1>1, <1>2, <1>3, <1>4 DEF Client

LEMMA RoomStep == Room /\ [Next]_vars => Room'
<1> SUFFICES ASSUME Room, [Next]_vars PROVE Room'
  OBVIOUS
<1>0. Cardinality(clients) \in Nat /\ MaxClients \in Nat
  BY FS_CardinalityType, ProxyAssumption DEF Room
<1>1. ASSUME clients' \subseteq clients PROVE Room'
  <2>1. IsFiniteSet(clients') /\ Cardinality(clients') <= Cardinality(clients)
    BY <1>1, FS_Subset DEF Room
  <2>2. Cardinality(clients') \in Nat
    BY <2>1, FS_CardinalityType
  <2>. QED  BY <1>0, <2>1, <2>2 DEF Room
<1>2. ASSUME NEW c \in Clients, Accept(c) PROVE Room'
  <2>1. CASE Cardinality(clients) < MaxClients /\ clients' = clients \cup {c}
    <3>1. IsFiniteSet(clients') /\ Cardinality(clients') <= Cardinality(clients) + 1
      BY <1>0, <2>1, FS_AddElement DEF Room
    <3>2. Cardinality(clients') \in Nat
      BY <3>1, FS_CardinalityType
    <3>. QED  BY <1>0, <2>1, <3>1, <3>2 DEF Room
  <2>2. ASSUME NEW v \in clients, clients' = (clients \ {v}) \cup {c} PROVE Room'
    <3>. DEFINE rest == clients \ {v}
    <3>1. IsFiniteSet(rest) /\ Cardinality(rest) = Cardinality(clients) - 1
      BY FS_RemoveElement DEF Room
    <3>2. clients' = rest \cup {c}
      BY <2>2
    <3>. HIDE DEF rest
    <3>3. Cardinality(rest) \in Nat
      BY <3>1, FS_CardinalityType
    <3>4. IsFiniteSet(clients') /\ Cardinality(clients') <= Cardinality(rest) + 1
      <4>1. /\ IsFiniteSet(rest \cup {c})
            /\ Cardinality(rest \cup {c}) = IF c \in rest THEN Cardinality(rest) ELSE Cardinality(rest) + 1
        BY <3>1, FS_AddElement
      <4>. QED  BY <3>2, <3>3, <4>1
    <3>5. Cardinality(clients') \in Nat
      BY <3>4, FS_CardinalityType
    <3>. QED  BY <1>0, <3>1, <3>3, <3>4, <3>5 DEF Room
  <2>. QED  BY <1>2, <2>1, <2>2 DEF Accept
<1>3. ASSUME NEW c \in Clients, Client(c), ~Accept(c) PROVE clients' \subseteq clients
  BY <1>3 DEF Client, ExchangeStart, ExchangeWrite, ClientFrame, ClientCloses, ClientEnds
<1> QED
  BY <1>1, <1>2, <1>3, OthersKeep

\* ProxyTypeOK: among the rest, never more than MAX_CLIENTS clients, and never two
\* of them in the time that _exchange keeps the node to itself (cmd_lock).
THEOREM ProxyTyped == Spec => []ProxyTypeOK
<1>1. Init => ProxyInv /\ MoreSorts /\ LockHeld /\ Room
  <2> SUFFICES ASSUME Init PROVE MoreSorts /\ LockHeld /\ Room
    BY ProxyInit
  <2>0. 0 \in 0 .. MaxSilent /\ watch \in [Conns -> 0 .. 2]
    BY ProxyAssumption DEF Init
  <2>1. MoreSorts /\ LockHeld
    BY <2>0 DEF Init, MoreSorts, LockHeld
  <2>2. IsFiniteSet({}) /\ Cardinality({}) = 0
    BY FS_EmptySet
  <2>. QED  BY <2>1, <2>2, ProxyAssumption DEF Init, Room
<1>2. ProxyInv /\ MoreSorts /\ LockHeld /\ Room => ProxyTypeOK
  <2> SUFFICES ASSUME ProxyInv, MoreSorts, LockHeld, Room PROVE ProxyTypeOK
    OBVIOUS
  <2>. DEFINE pacing == {c \in Clients : phase[c] = "pace"}
  <2>1. Cardinality(pacing) <= 1
    <3>1. CASE pacing = {}
      BY <3>1, FS_EmptySet
    <3>2. ASSUME NEW c \in pacing PROVE Cardinality(pacing) <= 1
      <4>1. pacing = {c}
        BY DEF LockHeld
      <4>2. Cardinality({c}) = 1
        BY FS_Singleton
      <4>. QED  BY <4>1, <4>2
    <3>. QED  BY <3>1, <3>2
  <2>2. {alive, since, heard, recent, info, casting} \subseteq BOOLEAN
    BY Zenon DEF ProxyInv, Sorts, MoreSorts
  <2>3. \A S \in {ended, todo, dead, waiting} : S \subseteq Clients
    BY DEF ProxyInv, Sorts, MoreSorts
  <2>4. (up = None) = (loop = "down")
    BY DEF ProxyInv, Upright
  <2>. QED  BY <2>1, <2>2, <2>3, <2>4 DEF ProxyInv, Sorts, MoreSorts, Room, ProxyTypeOK
<1> QED
  BY ProxyStep, MoreSortsStep, LockStep, RoomStep, <1>1, <1>2, PTL DEF Spec

\* A connection that was not lost is closed only by its own watchdog, when it
\* answered nothing, or at the end of a row of silent rounds (_handshake_watchdog,
\* keepalive_loop).
THEOREM ProxyOwnWatchdog == Spec => OwnWatchdogOnly
<1>. DEFINE Step ==
       \A g \in open \ open' :
          \/ loop' = "down"
          \/ ~alive /\ watch[g] = 2
          \/ keep = "listen" /\ ~heard /\ silent + 1 >= MaxSilent
<1>1. ASSUME [Next]_vars PROVE Step \/ UNCHANGED vars
  <2>1. CASE open \subseteq open'
    BY <2>1
  <2>2. CASE ConnectionLost
    BY <2>2 DEF ConnectionLost
  <2>3. ASSUME NEW g \in Conns, WatchEnds(g) PROVE Step
    BY <2>3 DEF WatchEnds, Minds
  <2>4. CASE KeepListen
    BY <2>4 DEF KeepListen
  <2>5. CASE ~ConnectionLost /\ ~KeepListen /\ ~ \E g \in Conns : WatchEnds(g)
    <3>1. open \subseteq open'
      BY <1>1, <2>5 DEF Next, vars, nodeVars, keepVars, clientVars, castVars, Upstream,
         Timers, Client, Connect, NodeFrame, CastTo, ConnectFails, Away, CastDone,
         WatchAgain, KeepCheck, KeepSend, Quiet, Accept, ExchangeStart, ExchangeWrite,
         ClientFrame, ClientCloses, ClientEnds
    <3>. QED  BY <2>1, <3>1
  <2>. QED  BY <2>2, <2>3, <2>4, <2>5
<1>2. [Next]_vars => [Step]_vars
  BY <1>1
<1>. HIDE DEF Step
<1>3. Spec => [][Step]_vars
  BY <1>2, PTL DEF Spec
<1>. QED  BY <1>3 DEF OwnWatchdogOnly, Step
=============================================================================
