----------------------------- MODULE WSConnector -----------------------------
(***************************************************************************)
(* WSConnector (src/websocket/connector.ts): one current WebSocket, the    *)
(* promise of connect(), the promises of request(), the channel handlers   *)
(* and two timers.  connect() number n makes socket n, timer n and         *)
(* promise n.  A socket that was close()d delivers its close event later,  *)
(* when the connector may already use another socket.                      *)
(* updateConnectStatus() calls the application's statusChangeListener in   *)
(* the middle of ReleaseConnection and at the end of OnOpen: the listener  *)
(* is taken to make no call of the connector there and then, so what       *)
(* connect() or disconnect() from inside of it would do is not modelled.   *)
(***************************************************************************)
EXTENDS Integers, FiniteSets

CONSTANTS MaxConnects,    \* bound on the calls of connect()
          Requests,       \* calls of request()
          Channels,       \* channels subscribed to
          MayThrow        \* the constructor of WebSocket may throw

ASSUME ConnectorAssumption == /\ MaxConnects \in Nat \ {0}
                              /\ MayThrow \in BOOLEAN

VARIABLES nodeSockets,            \* ws of Node.js, where a closing socket still
                                  \*   delivers messages, or a browser's?
          attempts,               \* number of connect() calls
          socket,                 \* state of each WebSocket
          websocket,              \* the current one, or Null
          shouldConnect,
          connected,
          connectPromiseHandler,  \* the connect() it belongs to, or Null
          promise,                \* what each connect() promise says
          timers,                 \* pending connect time-outs
          initFailureTimeout,     \* the latest of them
          heartbeatTimeout,       \* is the heartbeat timer pending?
          requestHandlers,        \* requests with a handler
          reply,                  \* what each request() promise says
          wire,                   \* requests sent, with their socket
          channelHandlers,        \* channels with a handler
          wanted,                 \* history: subscribe() returned on this
                                  \*   connection
          subscribed,             \* history: channels sent on this connection
          carried,                \* history: channels whose handler was stored
                                  \*   before this connection
          victims,                \* history: sockets closed by the late close
                                  \*   event of another socket
          asked,                  \* history: connect() calls made when each
                                  \*   request was
          abandoned               \* history: connect() calls that threw, or
                                  \*   were still pending at the next one

connectVars == <<attempts, shouldConnect, connectPromiseHandler, promise,
                 timers, initFailureTimeout, abandoned>>
socketVars == <<nodeSockets, socket, websocket, connected, heartbeatTimeout,
                victims>>
requestVars == <<requestHandlers, reply, wire, asked>>
channelVars == <<channelHandlers, wanted, subscribed, carried>>
vars == <<connectVars, socketVars, requestVars, channelVars>>

Null == 0
Ids == 1 .. MaxConnects

TypeOK ==
    /\ nodeSockets \in BOOLEAN
    /\ attempts \in 0 .. MaxConnects
    /\ socket \in [Ids -> {"none", "connecting", "open", "aborting",
                           "closing", "closed"}]
    /\ websocket \in Ids \cup {Null}
    /\ shouldConnect \in BOOLEAN
    /\ connected \in BOOLEAN
    /\ connectPromiseHandler \in Ids \cup {Null}
    /\ promise \in [Ids -> {"none", "pending", "resolved", "rejected"}]
    /\ timers \subseteq Ids
    /\ initFailureTimeout \in Ids \cup {Null}
    /\ heartbeatTimeout \in BOOLEAN
    /\ requestHandlers \subseteq Requests
    /\ reply \in [Requests -> {"none", "pending", "resolved", "rejected"}]
    /\ wire \subseteq Ids \X Requests
    /\ channelHandlers \subseteq Channels
    /\ wanted \subseteq Channels
    /\ subscribed \subseteq Channels
    /\ carried \subseteq Channels
    /\ victims \subseteq Ids
    /\ asked \in [Requests -> 0 .. MaxConnects]
    /\ abandoned \subseteq Ids

Init == /\ nodeSockets \in BOOLEAN
        /\ attempts = 0
        /\ socket = [i \in Ids |-> "none"]
        /\ websocket = Null
        /\ shouldConnect = FALSE
        /\ connected = FALSE
        /\ connectPromiseHandler = Null
        /\ promise = [i \in Ids |-> "none"]
        /\ timers = {}
        /\ initFailureTimeout = Null
        /\ heartbeatTimeout = FALSE
        /\ requestHandlers = {}
        /\ reply = [r \in Requests |-> "none"]
        /\ wire = {}
        /\ channelHandlers = {}
        /\ wanted = {}
        /\ subscribed = {}
        /\ carried = {}
        /\ victims = {}
        /\ asked = [r \in Requests |-> 0]
        /\ abandoned = {}

-----------------------------------------------------------------------------
(* disconnectWebsocket(): closing a socket that is still connecting aborts  *)
(* the handshake, which reports an error before the close event.            *)
Closed(state) == CASE state = "connecting" -> "aborting"
                   [] state = "open" -> "closing"
                   [] OTHER -> state

\* mutant: the reference is dropped, the socket is not closed
ForgetCurrent(sockets) == sockets

CloseCurrent(sockets) ==
    IF websocket = Null THEN sockets
    ELSE [sockets EXCEPT ![websocket] = Closed(@)]

EndSubscriptions == /\ wanted' = {}
                    /\ subscribed' = {}
                    /\ carried' = channelHandlers
                    /\ UNCHANGED channelHandlers

\* mutants: connected, or the heartbeat timer, is left as it is
ReleaseStaysConnected == /\ heartbeatTimeout' = FALSE
                         /\ connected' = connected
                         /\ EndSubscriptions

ReleaseKeepsHeartbeat == /\ heartbeatTimeout' = heartbeatTimeout
                         /\ connected' = FALSE
                         /\ EndSubscriptions

\* with the status listener of a connector that was connected (line 373)
ReleaseConnection == /\ heartbeatTimeout' = FALSE
                     /\ connected' = FALSE
                     /\ EndSubscriptions

Pending == {i \in Ids : promise[i] = "pending"}

\* connect() sets shouldConnect; connectWebSocket() starts with disconnect(),
\* which resets it.  The early return of connect() would change nothing.
Connect ==
    LET n == attempts + 1 IN
    /\ attempts < MaxConnects
    /\ ~shouldConnect
    /\ attempts' = n
    /\ shouldConnect' = FALSE
    /\ socket' = [CloseCurrent(socket) EXCEPT ![n] = "connecting"]
    /\ websocket' = n
    /\ ReleaseConnection
    /\ requestHandlers' = {}
    /\ timers' = timers \cup {n}
    /\ initFailureTimeout' = n
    /\ promise' = [promise EXCEPT ![n] = "pending"]
    /\ connectPromiseHandler' = n
    /\ abandoned' = abandoned \cup Pending
    /\ UNCHANGED <<nodeSockets, reply, wire, asked, victims>>

RejectPending(promises) ==
    IF connectPromiseHandler = Null THEN promises
    ELSE [promises EXCEPT ![connectPromiseHandler] = "rejected"]

\* the constructor throws: rejectConnect() runs before connect() stores the
\* handler of the new promise
ConnectThrows ==
    LET n == attempts + 1 IN
    /\ MayThrow
    /\ attempts < MaxConnects
    /\ ~shouldConnect
    /\ attempts' = n
    /\ shouldConnect' = FALSE
    /\ socket' = CloseCurrent(socket)
    /\ websocket' = Null
    /\ ReleaseConnection
    /\ timers' = timers \ {initFailureTimeout}
    /\ promise' = [RejectPending(promise) EXCEPT ![n] = "pending"]
    /\ connectPromiseHandler' = n
    /\ abandoned' = abandoned \cup Pending \cup {n}
    /\ UNCHANGED <<nodeSockets, initFailureTimeout, requestVars, victims>>

\* mutant: the socket property is deleted instead of set to null
DisconnectDeletes ==
    /\ shouldConnect' = FALSE
    /\ socket' = CloseCurrent(socket)
    /\ websocket' = -1
    /\ ReleaseConnection
    /\ UNCHANGED <<nodeSockets, attempts, connectPromiseHandler, promise,
                   timers, initFailureTimeout, abandoned, requestVars, victims>>

Disconnect ==
    /\ shouldConnect' = FALSE
    /\ socket' = CloseCurrent(socket)
    /\ websocket' = Null
    /\ ReleaseConnection
    /\ UNCHANGED <<nodeSockets, attempts, connectPromiseHandler, promise,
                   timers, initFailureTimeout, abandoned, requestVars, victims>>

\* mutant: the time-out does not reject
InitTimeoutIgnored(i) ==
    /\ i \in timers
    /\ timers' = timers \ {i, initFailureTimeout}
    /\ UNCHANGED <<attempts, shouldConnect, connectPromiseHandler, promise,
                   initFailureTimeout, abandoned, socketVars, requestVars,
                   channelVars>>

\* the connect time-out: rejectConnect()
InitTimeout(i) ==
    /\ i \in timers
    /\ timers' = timers \ {i, initFailureTimeout}
    /\ promise' = RejectPending(promise)
    /\ connectPromiseHandler' = Null
    /\ UNCHANGED <<attempts, shouldConnect, initFailureTimeout, abandoned,
                   socketVars, requestVars, channelVars>>

HeartbeatTimeout == /\ heartbeatTimeout
                    /\ shouldConnect' = FALSE
                    /\ socket' = CloseCurrent(socket)
                    /\ websocket' = Null
                    /\ ReleaseConnection
                    /\ UNCHANGED <<nodeSockets, attempts,
                                   connectPromiseHandler, promise, timers,
                                   initFailureTimeout, abandoned, requestVars,
                                   victims>>

-----------------------------------------------------------------------------
(* Socket events.  The handlers do not look at the socket they come from.   *)

\* clearTimeout(this.timeoutConnect) is passed a duration and clears nothing;
\* the status listener is called after the promise is resolved (line 582)
OnOpen(i) ==
    /\ socket[i] = "connecting"
    /\ socket' = [socket EXCEPT ![i] = "open"]
    /\ connected' = TRUE
    /\ promise' = IF connectPromiseHandler = Null THEN promise
                  ELSE [promise EXCEPT ![connectPromiseHandler] = "resolved"]
    /\ connectPromiseHandler' = Null
    /\ heartbeatTimeout' = TRUE
    /\ UNCHANGED <<nodeSockets, attempts, shouldConnect, timers,
                   initFailureTimeout, abandoned, websocket, victims,
                   requestVars, channelVars>>

\* mutant: the handlers are dropped and not rejected
OnErrorSilent(i) ==
    /\ socket[i] \in {"connecting", "open", "aborting"}
    /\ socket' = [socket EXCEPT ![i] = "closing"]
    /\ requestHandlers' = {}
    /\ UNCHANGED <<connectVars, nodeSockets, websocket, connected,
                   heartbeatTimeout, victims, reply, wire, asked, channelVars>>

\* the socket fails; its close event follows
OnError(i) ==
    /\ socket[i] \in {"connecting", "open", "aborting"}
    /\ socket' = [socket EXCEPT ![i] = "closing"]
    /\ reply' = [r \in Requests |-> IF r \in requestHandlers THEN "rejected"
                                    ELSE reply[r]]
    /\ requestHandlers' = {}
    /\ UNCHANGED <<connectVars, nodeSockets, websocket, connected,
                   heartbeatTimeout, victims, wire, asked, channelVars>>

\* the socket is gone, closed by either side
OnClose(i) ==
    /\ socket[i] \in {"open", "closing"}
    /\ socket' = [CloseCurrent(socket) EXCEPT ![i] = "closed"]
    /\ victims' = IF websocket \in {i, Null} THEN victims
                  ELSE victims \cup {websocket}
    /\ websocket' = Null
    /\ ReleaseConnection
    /\ UNCHANGED <<connectVars, nodeSockets, requestVars>>

Delivers(i) == socket[i] = "open" \/ (nodeSockets /\ socket[i] = "closing")

\* restartHeartbeatTimeout() on a "pong"
OnPong(i) == /\ Delivers(i)
             /\ ~heartbeatTimeout
             /\ heartbeatTimeout' = TRUE
             /\ UNCHANGED <<connectVars, nodeSockets, socket, websocket,
                            connected, victims, requestVars, channelVars>>

OnReply(i, r) ==
    /\ Delivers(i)
    /\ <<i, r>> \in wire
    /\ wire' = wire \ {<<i, r>>}
    /\ IF r \in requestHandlers
       THEN \E answer \in {"resolved", "rejected"} :
                reply' = [reply EXCEPT ![r] = answer]
       ELSE UNCHANGED reply
    /\ requestHandlers' = requestHandlers \ {r}
    /\ UNCHANGED <<connectVars, socketVars, asked, channelVars>>

-----------------------------------------------------------------------------
(* Calls on the connection.  getSocket() throws when it is not connected;   *)
(* a socket that is no longer open drops what it is given.                  *)

Request(r) ==
    /\ reply[r] = "none"
    /\ connected
    /\ reply' = [reply EXCEPT ![r] = "pending"]
    /\ requestHandlers' = requestHandlers \cup {r}
    /\ wire' = IF socket[websocket] = "open" THEN wire \cup {<<websocket, r>>}
               ELSE wire
    /\ asked' = [asked EXCEPT ![r] = attempts]
    /\ UNCHANGED <<connectVars, socketVars, channelVars>>

RequestThrows(r) ==
    /\ reply[r] = "none"
    /\ ~connected
    /\ reply' = [reply EXCEPT ![r] = "rejected"]
    /\ UNCHANGED <<connectVars, socketVars, requestHandlers, wire, asked,
                   channelVars>>

\* the handler is stored before the message is sent, connected or not
Subscribe(c) ==
    /\ channelHandlers' = channelHandlers \cup {c}
    /\ IF connected
       THEN /\ wanted' = wanted \cup {c}
            /\ subscribed' = subscribed \cup ({c} \ channelHandlers)
            /\ UNCHANGED carried
       ELSE /\ carried' = carried \cup {c}
            /\ UNCHANGED <<wanted, subscribed>>
    /\ UNCHANGED <<connectVars, socketVars, requestVars>>

\* mutant: the handler is not deleted
UnsubscribeKeepsHandler(c) ==
    /\ c \in channelHandlers
    /\ subscribed' = subscribed \ {c}
    /\ wanted' = wanted \ {c}
    /\ carried' = carried \ {c}
    /\ UNCHANGED <<channelHandlers, connectVars, socketVars, requestVars>>

Unsubscribe(c) ==
    /\ c \in channelHandlers
    /\ channelHandlers' = channelHandlers \ {c}
    /\ subscribed' = subscribed \ {c}
    /\ wanted' = wanted \ {c}
    /\ carried' = carried \ {c}
    /\ UNCHANGED <<connectVars, socketVars, requestVars>>

SocketEvent(i) == \/ OnOpen(i)
                  \/ OnError(i)
                  \/ OnClose(i)
                  \/ OnPong(i)
                  \/ \E r \in Requests : OnReply(i, r)

Next == \/ Connect
        \/ ConnectThrows
        \/ Disconnect
        \/ HeartbeatTimeout
        \/ \E i \in Ids : InitTimeout(i) \/ SocketEvent(i)
        \/ \E r \in Requests : Request(r) \/ RequestThrows(r)
        \/ \E c \in Channels : Subscribe(c) \/ Unsubscribe(c)

Spec == Init /\ [][Next]_vars

\* timers fire and a closed socket delivers its close event; nothing is
\* asked of the server or of the application
Fairness == \A i \in Ids : /\ WF_vars(InitTimeout(i))
                           /\ WF_vars(socket[i] = "aborting" /\ OnError(i))
                           /\ WF_vars(socket[i] = "closing" /\ OnClose(i))

FairSpec == Spec /\ Fairness

-----------------------------------------------------------------------------
(* The connector reports itself connected only while it has a socket whose  *)
(* handshake succeeded: getSocket() never hands out null, and a request is  *)
(* never given to a socket that is still connecting.                        *)
ConnectedHasSocket ==
    connected => websocket # Null /\ socket[websocket] # "connecting"

(* In a browser the heartbeat timer runs only for a connection: it cannot   *)
(* outlive the one it watches and kill the next.                            *)
HeartbeatNeedsConnection == ~nodeSockets /\ heartbeatTimeout => connected

(* A request() whose promise is pending keeps its handler through closed     *)
(* sockets, errors, missed heartbeats and disconnect(); only a later         *)
(* connect() forgets it.                                                    *)
PendingHasHandler == \A r \in Requests :
    reply[r] = "pending" => r \in requestHandlers \/ asked[r] < attempts

(* At most one socket lives besides those that are being closed: connecting *)
(* again never leaves an open socket behind that nobody can close.          *)
NoOrphanSocket == \A i \in Ids :
    socket[i] \in {"connecting", "open"} => i = websocket

(* "It is safe to call WSConnector.connect() again once                     *)
(* WSConnector.disconnect() is called": the old socket does not take the    *)
(* new connection with it.                                                  *)
ReconnectIsSafe == victims = {}

(* subscribe() "sends a subscription data frame with channel ID": a channel *)
(* that was subscribed on this connection has been sent on it, unless its   *)
(* handler was already stored when the connection began.                    *)
SubscriptionSent == wanted \subseteq subscribed \cup carried

(* connect() "rejects the promise if connection cannot be established       *)
(* within timeoutConnect": it settles, unless the constructor threw or      *)
(* connect() was called again before.                                       *)
ConnectSettles == \A i \in Ids :
    promise[i] = "pending" ~> promise[i] # "pending" \/ i \in abandoned
=============================================================================
