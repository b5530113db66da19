-------------------------- MODULE WSConnectorProofs --------------------------
(***************************************************************************)
(* The safety of the connector, for any number of connections, requests    *)
(* and channels, and for the sockets of browsers and of Node.js.           *)
(***************************************************************************)
EXTENDS WSConnector, TLAPS

States == {"none", "connecting", "open", "aborting", "closing", "closed"}

\* handlers do not look at the socket they come from, so that what holds of
\* open sockets must be known to hold of the current one
OpenIsConnected == \A i \in Ids : socket[i] = "open" => connected

HandlersAreSent == channelHandlers \subseteq subscribed \cup carried

AskedBefore == \A r \in Requests : asked[r] <= attempts

IInv == /\ TypeOK
        /\ ConnectedHasSocket
        /\ NoOrphanSocket
        /\ OpenIsConnected
        /\ HeartbeatNeedsConnection
        /\ HandlersAreSent
        /\ SubscriptionSent
        /\ AskedBefore
        /\ PendingHasHandler

-----------------------------------------------------------------------------
(* close() of the current socket                                            *)

LEMMA ClosedStates ==
    ASSUME NEW state \in States
    PROVE  /\ Closed(state) \in States
           /\ Closed(state) \notin {"connecting", "open"}
<1>1. CASE state = "connecting"
  BY <1>1 DEF Closed, States
<1>2. CASE state = "open"
  BY <1>2 DEF Closed, States
<1>3. CASE state \in States \ {"connecting", "open"}
  <2>1. Closed(state) = state
    BY <1>3 DEF Closed
  <2> QED  BY <1>3, <2>1
<1> QED  BY <1>1, <1>2, <1>3

\* no socket that lives is left
LEMMA ClosesCurrent ==
    ASSUME TypeOK, NoOrphanSocket
    PROVE  /\ CloseCurrent(socket) \in [Ids -> States]
           /\ \A i \in Ids : CloseCurrent(socket)[i] \notin {"connecting", "open"}
<1>1. socket \in [Ids -> States] /\ websocket \in Ids \cup {Null}
  BY DEF TypeOK, States
<1>2. CASE websocket = Null
  <2>1. Null \notin Ids
    BY DEF Null, Ids
  <2> QED  BY <1>1, <1>2, <2>1 DEF CloseCurrent, NoOrphanSocket
<1>3. CASE websocket # Null
  <2>1. CloseCurrent(socket) = [socket EXCEPT ![websocket] = Closed(socket[websocket])]
    BY <1>3 DEF CloseCurrent
  <2>2. websocket \in Ids /\ socket[websocket] \in States
    BY <1>1, <1>3
  <2>3. \A i \in Ids : CloseCurrent(socket)[i] =
            IF i = websocket THEN Closed(socket[websocket]) ELSE socket[i]
    BY <1>1, <2>1, <2>2
  <2>4. CloseCurrent(socket) \in [Ids -> States]
    BY <1>1, <2>1, <2>2, ClosedStates
  <2> QED  BY <2>2, <2>3, <2>4, ClosedStates DEF NoOrphanSocket
<1> QED  BY <1>2, <1>3

\* the connection of the current socket ends: connect(), disconnect(), a
\* missed heartbeat and every close event
LEMMA Releases ==
    ASSUME IInv, ReleaseConnection
    PROVE  /\ connected' = FALSE /\ heartbeatTimeout' = FALSE
           /\ channelHandlers' \subseteq Channels /\ wanted' \subseteq Channels
           /\ subscribed' \subseteq Channels /\ carried' \subseteq Channels
           /\ HandlersAreSent' /\ SubscriptionSent'
  BY DEF IInv, TypeOK, ReleaseConnection, EndSubscriptions, HandlersAreSent,
         SubscriptionSent

-----------------------------------------------------------------------------
(* The steps                                                                *)

LEMMA InitInvariant == Init => IInv
<1> SUFFICES ASSUME Init PROVE IInv
  OBVIOUS
<1>1. TypeOK
  <2>1. 0 \in 0 .. MaxConnects
    BY ConnectorAssumption
  <2>2. /\ asked \in [Requests -> 0 .. MaxConnects]
        /\ reply \in [Requests -> {"none", "pending", "resolved", "rejected"}]
    BY <2>1 DEF Init
  <2>3. /\ socket \in [Ids -> {"none", "connecting", "open", "aborting",
                              "closing", "closed"}]
        /\ promise \in [Ids -> {"none", "pending", "resolved", "rejected"}]
    BY DEF Init
  <2> QED  BY <2>1, <2>2, <2>3 DEF Init, TypeOK
<1>2. NoOrphanSocket /\ OpenIsConnected
  BY DEF Init, NoOrphanSocket, OpenIsConnected
<1>3. AskedBefore /\ PendingHasHandler
  BY DEF Init, AskedBefore, PendingHasHandler
<1> QED  BY <1>1, <1>2, <1>3
         DEF Init, IInv, ConnectedHasSocket, HeartbeatNeedsConnection,
             HandlersAreSent, SubscriptionSent

\* what is left to show when a step releases the connection
LEMMA ReleaseKeeps ==
    ASSUME IInv, TypeOK', ReleaseConnection,
           \A i \in Ids : socket'[i] # "open",
           NoOrphanSocket', AskedBefore', PendingHasHandler'
    PROVE  IInv'
<1>1. ~connected' /\ ~heartbeatTimeout' /\ HandlersAreSent' /\ SubscriptionSent'
  BY Releases
<1> QED  BY <1>1 DEF IInv, ConnectedHasSocket, OpenIsConnected,
                     HeartbeatNeedsConnection

LEMMA ConnectKeeps == ASSUME IInv, Connect PROVE IInv'
<1> DEFINE n == attempts + 1
<1>1. n \in Ids /\ n \in 0 .. MaxConnects /\ attempts \in Nat
  BY ConnectorAssumption DEF IInv, TypeOK, Connect, Ids
<1>2. /\ socket' \in [Ids -> States] /\ websocket' = n
      /\ \A i \in Ids : /\ socket'[i] # "open"
                        /\ socket'[i] = "connecting" => i = n
  <2>1. socket' = [CloseCurrent(socket) EXCEPT ![n] = "connecting"] /\ websocket' = n
    BY DEF Connect
  <2>2. "connecting" \in States
    BY DEF States
  <2> QED  BY <1>1, <2>1, <2>2, ClosesCurrent DEF IInv
<1>3. promise' \in [Ids -> {"none", "pending", "resolved", "rejected"}]
      /\ abandoned' \subseteq Ids
  BY DEF IInv, TypeOK, Connect, Pending
<1>4. TypeOK'
  BY <1>1, <1>2, <1>3, Releases DEF IInv, TypeOK, Connect, States
<1>5. AskedBefore' /\ PendingHasHandler'
  BY <1>1 DEF IInv, TypeOK, Connect, AskedBefore, PendingHasHandler
<1> QED  BY <1>2, <1>4, <1>5, ReleaseKeeps DEF Connect, NoOrphanSocket

LEMMA RejectPendingTypes ==
    ASSUME TypeOK
    PROVE  RejectPending(promise) \in
               [Ids -> {"none", "pending", "resolved", "rejected"}]
  BY DEF TypeOK, RejectPending

LEMMA ConnectThrowsKeeps == ASSUME IInv, ConnectThrows PROVE IInv'
<1> DEFINE n == attempts + 1
<1>1. n \in Ids /\ n \in 0 .. MaxConnects /\ attempts \in Nat
  BY ConnectorAssumption DEF IInv, TypeOK, ConnectThrows, Ids
<1>2. /\ socket' \in [Ids -> States] /\ websocket' = Null
      /\ \A i \in Ids : socket'[i] \notin {"open", "connecting"}
  BY ClosesCurrent DEF IInv, ConnectThrows
<1>3. promise' \in [Ids -> {"none", "pending", "resolved", "rejected"}]
      /\ abandoned' \subseteq Ids
  BY <1>1, RejectPendingTypes DEF IInv, TypeOK, ConnectThrows, Pending
<1>4. TypeOK'
  BY <1>1, <1>2, <1>3, Releases
     DEF IInv, TypeOK, ConnectThrows, States, requestVars
<1>5. AskedBefore' /\ PendingHasHandler'
  BY <1>1 DEF IInv, TypeOK, ConnectThrows, AskedBefore, PendingHasHandler,
              requestVars
<1> QED  BY <1>2, <1>4, <1>5, ReleaseKeeps DEF ConnectThrows, NoOrphanSocket

LEMMA DisconnectKeeps == ASSUME IInv, Disconnect \/ HeartbeatTimeout PROVE IInv'
<1>1. /\ socket' \in [Ids -> States] /\ websocket' = Null
      /\ \A i \in Ids : socket'[i] \notin {"open", "connecting"}
  BY ClosesCurrent DEF IInv, Disconnect, HeartbeatTimeout
<1>2. ReleaseConnection
  BY DEF Disconnect, HeartbeatTimeout
<1>3. TypeOK'
  BY <1>1, <1>2, Releases
     DEF IInv, TypeOK, Disconnect, HeartbeatTimeout, States, requestVars
<1>4. AskedBefore' /\ PendingHasHandler'
  BY DEF IInv, Disconnect, HeartbeatTimeout, AskedBefore, PendingHasHandler,
         requestVars
<1> QED  BY <1>1, <1>2, <1>3, <1>4, ReleaseKeeps DEF NoOrphanSocket

LEMMA InitTimeoutKeeps == ASSUME IInv, NEW i \in Ids, InitTimeout(i) PROVE IInv'
<1>1. TypeOK'
  BY RejectPendingTypes
     DEF IInv, TypeOK, InitTimeout, socketVars, requestVars, channelVars
<1> QED  BY <1>1
         DEF IInv, InitTimeout, socketVars, requestVars, channelVars,
             ConnectedHasSocket, NoOrphanSocket, OpenIsConnected,
             HeartbeatNeedsConnection, HandlersAreSent, SubscriptionSent,
             AskedBefore, PendingHasHandler

LEMMA OnOpenKeeps == ASSUME IInv, NEW i \in Ids, OnOpen(i) PROVE IInv'
<1>1. i = websocket /\ i # Null
  BY DEF IInv, NoOrphanSocket, OnOpen, Ids, Null
<1>2. socket' = [socket EXCEPT ![i] = "open"] /\ connected' /\ websocket' = i
  BY <1>1 DEF OnOpen
<1>3. TypeOK'
  BY DEF IInv, TypeOK, OnOpen, requestVars, channelVars
<1>4. /\ NoOrphanSocket' /\ OpenIsConnected' /\ ConnectedHasSocket'
      /\ HeartbeatNeedsConnection'
  BY <1>1, <1>2 DEF IInv, TypeOK, NoOrphanSocket, OpenIsConnected,
                    ConnectedHasSocket, HeartbeatNeedsConnection
<1> QED  BY <1>3, <1>4
         DEF IInv, OnOpen, requestVars, channelVars, HandlersAreSent,
             SubscriptionSent, AskedBefore, PendingHasHandler

LEMMA OnErrorKeeps == ASSUME IInv, NEW i \in Ids, OnError(i) PROVE IInv'
<1>1. TypeOK'
  BY DEF IInv, TypeOK, OnError, connectVars, channelVars
<1>2. /\ NoOrphanSocket' /\ OpenIsConnected' /\ ConnectedHasSocket'
      /\ HeartbeatNeedsConnection'
  BY DEF IInv, TypeOK, OnError, NoOrphanSocket, OpenIsConnected,
         ConnectedHasSocket, HeartbeatNeedsConnection, Null
<1>3. PendingHasHandler' /\ AskedBefore'
  BY DEF IInv, TypeOK, OnError, connectVars, PendingHasHandler, AskedBefore
<1> QED  BY <1>1, <1>2, <1>3
         DEF IInv, OnError, channelVars, HandlersAreSent, SubscriptionSent

LEMMA OnCloseKeeps == ASSUME IInv, NEW i \in Ids, OnClose(i) PROVE IInv'
<1>1. /\ socket' \in [Ids -> States] /\ websocket' = Null
      /\ \A j \in Ids : socket'[j] \notin {"open", "connecting"}
  <2>1. socket' = [CloseCurrent(socket) EXCEPT ![i] = "closed"] /\ websocket' = Null
    BY DEF OnClose
  <2>2. "closed" \in States
    BY DEF States
  <2> QED  BY <2>1, <2>2, ClosesCurrent DEF IInv
<1>2. TypeOK'
  BY <1>1, Releases DEF IInv, TypeOK, OnClose, States, connectVars, requestVars
<1>3. AskedBefore' /\ PendingHasHandler'
  BY DEF IInv, OnClose, AskedBefore, PendingHasHandler, connectVars, requestVars
<1> QED  BY <1>1, <1>2, <1>3, ReleaseKeeps DEF OnClose, NoOrphanSocket

LEMMA OnMessageKeeps ==
    ASSUME IInv, NEW i \in Ids,
           OnPong(i) \/ \E r \in Requests : OnReply(i, r)
    PROVE  IInv'
<1>1. CASE OnPong(i)
  <2>1. TypeOK'
    BY <1>1 DEF IInv, TypeOK, OnPong, connectVars, requestVars, channelVars
  <2>2. HeartbeatNeedsConnection'
    BY <1>1 DEF IInv, OnPong, Delivers, OpenIsConnected, HeartbeatNeedsConnection
  <2> QED  BY <1>1, <2>1, <2>2
           DEF IInv, OnPong, connectVars, requestVars, channelVars,
               ConnectedHasSocket, NoOrphanSocket, OpenIsConnected,
               HandlersAreSent, SubscriptionSent, AskedBefore, PendingHasHandler
<1>2. ASSUME NEW r \in Requests, OnReply(i, r) PROVE IInv'
  <2>1. TypeOK'
    BY <1>2 DEF IInv, TypeOK, OnReply, connectVars, socketVars, channelVars
  <2>2. PendingHasHandler'
    BY <1>2 DEF IInv, TypeOK, OnReply, connectVars, PendingHasHandler
  <2> QED  BY <1>2, <2>1, <2>2
           DEF IInv, OnReply, connectVars, socketVars, channelVars,
               ConnectedHasSocket, NoOrphanSocket, OpenIsConnected,
               HeartbeatNeedsConnection, HandlersAreSent, SubscriptionSent,
               AskedBefore
<1> QED  BY <1>1, <1>2

LEMMA RequestKeeps ==
    ASSUME IInv, NEW r \in Requests, Request(r) \/ RequestThrows(r) PROVE IInv'
<1>1. TypeOK'
  BY DEF IInv, TypeOK, Request, RequestThrows, ConnectedHasSocket, connectVars,
         socketVars, channelVars
<1>2. PendingHasHandler' /\ AskedBefore'
  BY DEF IInv, TypeOK, Request, RequestThrows, connectVars, PendingHasHandler,
         AskedBefore
<1> QED  BY <1>1, <1>2
         DEF IInv, Request, RequestThrows, connectVars, socketVars, channelVars,
             ConnectedHasSocket, NoOrphanSocket, OpenIsConnected,
             HeartbeatNeedsConnection, HandlersAreSent, SubscriptionSent

LEMMA SubscribeKeeps ==
    ASSUME IInv, NEW c \in Channels, Subscribe(c) \/ Unsubscribe(c) PROVE IInv'
<1>1. TypeOK'
  BY DEF IInv, TypeOK, Subscribe, Unsubscribe, connectVars, socketVars,
         requestVars
<1>2. HandlersAreSent' /\ SubscriptionSent'
  BY DEF IInv, Subscribe, Unsubscribe, HandlersAreSent, SubscriptionSent
<1> QED  BY <1>1, <1>2
         DEF IInv, Subscribe, Unsubscribe, connectVars, socketVars, requestVars,
             ConnectedHasSocket, NoOrphanSocket, OpenIsConnected,
             HeartbeatNeedsConnection, AskedBefore, PendingHasHandler

LEMMA NextInvariant == ASSUME IInv, [Next]_vars PROVE IInv'
<1>1. CASE UNCHANGED vars
  BY <1>1 DEF IInv, vars, connectVars, socketVars, requestVars, channelVars,
              TypeOK, ConnectedHasSocket, NoOrphanSocket, OpenIsConnected,
              HeartbeatNeedsConnection, HandlersAreSent, SubscriptionSent,
              AskedBefore, PendingHasHandler
<1> QED  BY <1>1, ConnectKeeps, ConnectThrowsKeeps, DisconnectKeeps,
            InitTimeoutKeeps, OnOpenKeeps, OnErrorKeeps, OnCloseKeeps,
            OnMessageKeeps, RequestKeeps, SubscribeKeeps
         DEF Next, SocketEvent

LEMMA Invariance == Spec => []IInv
<1> QED  BY InitInvariant, NextInvariant, PTL DEF Spec

-----------------------------------------------------------------------------
\* Sockets, timers, handlers and promises stay in their domains.
THEOREM Typing == Spec => []TypeOK
<1>1. IInv => TypeOK
  BY DEF IInv
<1> QED  BY <1>1, Invariance, PTL

\* getSocket(): a connector that says it is connected has a socket whose
\* handshake succeeded, whatever late events of other sockets arrive.
THEOREM ConnectedHasSocketHolds == Spec => []ConnectedHasSocket
<1>1. IInv => ConnectedHasSocket
  BY DEF IInv
<1> QED  BY <1>1, Invariance, PTL

\* disconnectWebsocket(): no live socket is left without a reference to it.
THEOREM NoOrphanSocketHolds == Spec => []NoOrphanSocket
<1>1. IInv => NoOrphanSocket
  BY DEF IInv
<1> QED  BY <1>1, Invariance, PTL

\* restartHeartbeatTimeout(): in a browser the timer ends with its connection.
THEOREM HeartbeatNeedsConnectionHolds == Spec => []HeartbeatNeedsConnection
<1>1. IInv => HeartbeatNeedsConnection
  BY DEF IInv
<1> QED  BY <1>1, Invariance, PTL

\* request(): only a later connect() forgets a pending request.
THEOREM PendingHasHandlerHolds == Spec => []PendingHasHandler
<1>1. IInv => PendingHasHandler
  BY DEF IInv
<1> QED  BY <1>1, Invariance, PTL

\* subscribe(): a channel is sent on its connection, unless its handler is
\* older than the connection.
THEOREM SubscriptionSentHolds == Spec => []SubscriptionSent
<1>1. IInv => SubscriptionSent
  BY DEF IInv
<1> QED  BY <1>1, Invariance, PTL

-----------------------------------------------------------------------------
(* When reconnecting is safe.  The run WSConnectorReconnect shows that      *)
(* ReconnectIsSafe fails; an application that waits for the close event of  *)
(* the old socket before it calls connect() has it.                         *)

Live(i) == socket[i] \notin {"none", "closed"}

\* no socket has an event to deliver
Quiet == \A i \in Ids : ~Live(i)

PatientConnects == [][attempts' # attempts => Quiet]_vars

OnlyCurrentLives == \A i \in Ids : Live(i) => websocket \in {i, Null}

PInv == OnlyCurrentLives /\ ReconnectIsSafe

LEMMA QuietClosesNothing ==
    ASSUME TypeOK, Quiet PROVE CloseCurrent(socket) = socket
<1>1. CASE websocket = Null
  BY <1>1 DEF CloseCurrent
<1>2. CASE websocket # Null
  <2>1. websocket \in Ids /\ socket[websocket] \in {"none", "closed"}
    BY <1>2 DEF TypeOK, Quiet, Live
  <2>2. Closed(socket[websocket]) = socket[websocket]
    BY <2>1 DEF Closed
  <2> QED  BY <1>2, <2>1, <2>2 DEF CloseCurrent, TypeOK
<1> QED  BY <1>1, <1>2

LEMMA PatientKeeps ==
    ASSUME TypeOK, PInv, [Next]_vars, attempts' # attempts => Quiet
    PROVE  PInv'
<1>1. CASE Connect
  <2> DEFINE n == attempts + 1
  <2>1. Quiet /\ n \in Ids
    BY <1>1, ConnectorAssumption DEF Connect, TypeOK, Ids
  <2>2. socket' = [socket EXCEPT ![n] = "connecting"]
    BY <1>1, <2>1, QuietClosesNothing DEF Connect
  <2>3. \A i \in Ids : Live(i)' => i = n
    BY <2>1, <2>2 DEF Quiet, Live, TypeOK
  <2>4. websocket' = n /\ victims' = victims
    BY <1>1 DEF Connect
  <2> QED  BY <2>3, <2>4 DEF PInv, OnlyCurrentLives, ReconnectIsSafe
<1>2. CASE ConnectThrows \/ Disconnect \/ HeartbeatTimeout
  BY <1>2 DEF ConnectThrows, Disconnect, HeartbeatTimeout, PInv,
              OnlyCurrentLives, ReconnectIsSafe
<1>3. ASSUME NEW i \in Ids, OnOpen(i) \/ OnError(i)
      PROVE  PInv'
  <2>1. Live(i)
    BY <1>3 DEF OnOpen, OnError, Live
  <2>2. /\ \A j \in Ids : j # i => socket'[j] = socket[j]
        /\ websocket' = websocket /\ victims' = victims
    BY <1>3 DEF OnOpen, OnError, TypeOK
  <2> QED  BY <2>1, <2>2 DEF PInv, OnlyCurrentLives, ReconnectIsSafe, Live
<1>4. ASSUME NEW i \in Ids, OnClose(i)
      PROVE  PInv'
  <2>1. Live(i)
    BY <1>4 DEF OnClose, Live
  <2>2. websocket' = Null /\ victims' = victims
    BY <1>4, <2>1 DEF OnClose, PInv, OnlyCurrentLives
  <2> QED  BY <2>2 DEF PInv, OnlyCurrentLives, ReconnectIsSafe
<1>5. CASE UNCHANGED <<socket, websocket, victims>>
  BY <1>5 DEF PInv, OnlyCurrentLives, ReconnectIsSafe, Live
<1> QED  BY <1>1, <1>2, <1>3, <1>4, <1>5
         DEF Next, SocketEvent, InitTimeout, OnPong, OnReply, Request,
             RequestThrows, Subscribe, Unsubscribe, vars, connectVars,
             socketVars, requestVars, channelVars

\* connect() and the handlers of connectWebSocket(): no late close event
\* takes a new connection with it, if the application calls connect() only
\* when every earlier socket has delivered its close event.  disconnect()
\* returning is not enough.
THEOREM PatientReconnectIsSafe == Spec /\ PatientConnects => []ReconnectIsSafe
<1>1. Init => PInv
  BY DEF Init, PInv, OnlyCurrentLives, ReconnectIsSafe, Live
<1>2. /\ TypeOK /\ PInv /\ [Next]_vars
      /\ [attempts' # attempts => Quiet]_vars
      => PInv'
  <2>1. UNCHANGED vars => attempts' = attempts
    BY DEF vars, connectVars
  <2> QED  BY <2>1, PatientKeeps
<1>3. PInv => ReconnectIsSafe
  BY DEF PInv
<1> QED  BY <1>1, <1>2, <1>3, Typing, PTL DEF Spec, PatientConnects
=============================================================================
