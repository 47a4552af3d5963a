----------------------------- MODULE Websocket -------------------------------
(***************************************************************************)
(* The websocket connections of one server: the request that opens one     *)
(* (router/router_server_ws.go), the goroutine of each inbound message     *)
(* (Handler.HandleInbound), the listeners of a connection, the bag of      *)
(* connections (server/websockets.go), and the requests that cut them off: *)
(* a suspension, the revocation of a user's tokens, the deletion.          *)
(*                                                                         *)
(* Time is what orders the tokens: a token is the number of revocations    *)
(* that preceded its issue, and is refused once there has been another.    *)
(***************************************************************************)
EXTENDS Integers, FiniteSets

CONSTANTS
    Conns,        \* connections
    Threads,      \* goroutines of inbound messages
    Limit,        \* connections admitted by getServerWebsocket
    MaxEpoch      \* bound on the revocations

ASSUME WebsocketAssumption == Limit \in Nat /\ MaxEpoch \in Nat

VARIABLES
    place,       \* where the request of a connection is
    open,        \* connections whose socket is open
    bag,         \* WebsocketBag.conns
    cancelled,   \* connections whose context is cancelled
    jwt,         \* Handler.jwt
    listeners,   \* how many listeners of a connection are running
    thread,      \* what the goroutine of a message does next, and its locals
    epoch,       \* number of revocations, the time of the panel
    ousted,      \* history: the epoch at the last disconnection for a revocation
    suspended,   \* Configuration.Suspended
    ctxDone,     \* the context of the server is cancelled
    admin        \* requests of the panel that are being handled, one of a kind

connVars == <<place, open, bag, cancelled>>
authVars == <<jwt, listeners>>
panelVars == <<epoch, ousted, suspended, ctxDone, admin>>
websocketVars == <<connVars, authVars, thread, panelVars>>

NoToken == -1
Tokens == 0 .. MaxEpoch
RequestPlaces == {"idle", "checked", "upgraded", "tracked", "loop", "return", "removed", "gone"}
Served == {"tracked", "loop", "return", "removed", "gone"}
Idle == [pc |-> "idle"]

WebsocketInit ==
    /\ place = [c \in Conns |-> "idle"]
    /\ open = {} /\ bag = {} /\ cancelled = {}
    /\ jwt = [c \in Conns |-> NoToken]
    /\ listeners = [c \in Conns |-> 0]
    /\ thread = [t \in Threads |-> Idle]
    /\ epoch = 0 /\ ousted = 0
    /\ suspended = FALSE /\ ctxDone = FALSE /\ admin = {}

WebsocketTypeOK ==
    /\ place \in [Conns -> RequestPlaces]
    /\ open \subseteq Conns /\ bag \subseteq Conns /\ cancelled \subseteq Conns
    /\ jwt \in [Conns -> Tokens \cup {NoToken}]
    /\ listeners \in [Conns -> Nat]
    /\ thread \in [Threads -> {Idle}
                     \cup [pc : {"inbound"}, conn : Conns, auth : BOOLEAN, token : Tokens]
                     \cup [pc : {"auth", "first", "refresh"}, conn : Conns, token : Tokens]
                     \cup [pc : {"register"}, conn : Conns]]
    /\ epoch \in Tokens /\ ousted \in Tokens
    /\ suspended \in BOOLEAN /\ ctxDone \in BOOLEAN
    /\ admin \subseteq {"sync", "deauthorize", "delete"}
------------------------------------------------------------------------------
\* Tokens.

Denylisted(token) == token < epoch

\* The token of an auth message is accepted.
NewTokenPayload(token) == ~Denylisted(token)

TokenValid(c) == jwt[c] # NoToken /\ ~Denylisted(jwt[c])
------------------------------------------------------------------------------
\* getServerWebsocket: one step per call that others can see.

Go(c, p) == place' = [place EXCEPT ![c] = p]

\* A server whose environment cannot be removed stays with the manager, so
\* requests arrive even after its deletion.
CheckLimit(c) ==
    /\ place[c] = "idle"
    /\ Go(c, IF Cardinality(bag) >= Limit THEN "gone" ELSE "checked")
    /\ UNCHANGED <<open, bag, cancelled, authVars, thread, panelVars>>

\* GetHandler; an upgrade that fails ends the request.
Upgrade(c) ==
    /\ place[c] = "checked"
    /\ \/ Go(c, "upgraded") /\ open' = open \cup {c}
       \/ Go(c, "gone") /\ UNCHANGED open
    /\ UNCHANGED <<bag, cancelled, authVars, thread, panelVars>>

Push(c) == bag' = bag \cup {c}

\* The connection goes into the bag, and the goroutines that watch its context
\* and that of the server are started.
Track(c) ==
    /\ place[c] = "upgraded"
    /\ Go(c, "tracked") /\ Push(c)
    /\ UNCHANGED <<open, cancelled, authVars, thread, panelVars>>

\* Mutant: the suspension is looked at before the connection is tracked.
CheckNothing(c) ==
    /\ place[c] = "tracked" /\ Go(c, "loop")
    /\ UNCHANGED <<open, bag, cancelled, authVars, thread, panelVars>>

CheckSuspended(c) ==
    /\ place[c] = "tracked" /\ Go(c, IF suspended THEN "return" ELSE "loop")
    /\ UNCHANGED <<open, bag, cancelled, authVars, thread, panelVars>>

\* ReadMessage fails on a closed socket.
ReadFails(c) ==
    /\ place[c] = "loop" /\ c \notin open /\ Go(c, "return")
    /\ UNCHANGED <<open, bag, cancelled, authVars, thread, panelVars>>

\* The deferred calls, last one first: the connection leaves the bag, so that
\* CancelAll misses it from now on, and then its context is cancelled.
Remove(c) ==
    /\ place[c] = "return" /\ Go(c, "removed")
    /\ bag' = bag \ {c}
    /\ UNCHANGED <<open, cancelled, authVars, thread, panelVars>>

DeferredCancel(c) ==
    /\ place[c] = "removed" /\ Go(c, "gone")
    /\ cancelled' = cancelled \cup {c}
    /\ UNCHANGED <<open, bag, authVars, thread, panelVars>>

\* The two goroutines of a connection.
CloseOnDone(c) ==
    /\ place[c] \in Served /\ c \in open \cap cancelled
    /\ open' = open \ {c}
    /\ UNCHANGED <<place, bag, cancelled, authVars, thread, panelVars>>

CancelOnDelete(c) ==
    /\ place[c] \in Served /\ ctxDone /\ c \notin cancelled
    /\ cancelled' = cancelled \cup {c}
    /\ UNCHANGED <<place, open, bag, authVars, thread, panelVars>>

\* The client closes the socket, or the network does.
Disconnect(c) ==
    /\ c \in open /\ open' = open \ {c}
    /\ UNCHANGED <<place, bag, cancelled, authVars, thread, panelVars>>
------------------------------------------------------------------------------
\* HandleInbound.

Proceed(t, r) == thread' = [thread EXCEPT ![t] = r]

\* A message is read and gets a goroutine of its own.
ReadMessage(c, t) ==
    /\ place[c] = "loop" /\ c \in open /\ thread[t] = Idle
    /\ \E auth \in BOOLEAN, token \in 0 .. epoch :
         /\ ~auth => token = 0
         /\ Proceed(t, [pc |-> "inbound", conn |-> c, auth |-> auth, token |-> token])
    /\ UNCHANGED <<connVars, authVars, panelVars>>

\* Mutant: a token is only parsed, and not looked up in the denylist.
HandleUnchecked(t) ==
    /\ thread[t].pc = "inbound"
    /\ LET m == thread[t] IN
         IF suspended
           THEN Proceed(t, Idle) /\ cancelled' = cancelled \cup {m.conn}
           ELSE /\ UNCHANGED cancelled
                /\ \/ Proceed(t, Idle)
                   \/ m.auth /\ Proceed(t, [pc |-> "auth", conn |-> m.conn, token |-> m.token])
    /\ UNCHANGED <<place, open, bag, authVars, panelVars>>

\* Whether a message is throttled depends on how fast the client sends them.
IsThrottled == BOOLEAN

\* A message to a suspended server ends the connection.  A message that is
\* throttled, or is refused for its token, is answered; other messages than
\* auth change nothing here (set state, send command: ServerPower).
HandleInbound(t) ==
    /\ thread[t].pc = "inbound"
    /\ LET m == thread[t] IN
         IF suspended
           THEN Proceed(t, Idle) /\ cancelled' = cancelled \cup {m.conn}
           ELSE /\ UNCHANGED cancelled
                /\ \E throttled \in IsThrottled :
                     Proceed(t, IF ~throttled /\ m.auth /\ NewTokenPayload(m.token)
                                 THEN [pc |-> "auth", conn |-> m.conn, token |-> m.token]
                                 ELSE Idle)
    /\ UNCHANGED <<place, open, bag, authVars, panelVars>>

\* newConnection := h.GetJwt() == nil
NewConnection(t) ==
    /\ thread[t].pc = "auth"
    /\ Proceed(t, [thread[t] EXCEPT !.pc = IF jwt[thread[t].conn] = NoToken THEN "first" ELSE "refresh"])
    /\ UNCHANGED <<connVars, authVars, panelVars>>

SetJwt(t) ==
    /\ thread[t].pc \in {"first", "refresh"}
    /\ jwt' = [jwt EXCEPT ![thread[t].conn] = thread[t].token]
    /\ Proceed(t, IF thread[t].pc = "first" THEN [pc |-> "register", conn |-> thread[t].conn] ELSE Idle)
    /\ UNCHANGED <<connVars, listeners, panelVars>>

\* The listeners are started and the client is sent the state of the server.
RegisterListenerEvents(t) ==
    /\ thread[t].pc = "register" /\ Proceed(t, Idle)
    /\ listeners' = [listeners EXCEPT ![thread[t].conn] = @ + 1]
    /\ UNCHANGED <<connVars, jwt, panelVars>>
------------------------------------------------------------------------------
\* A listener (SinkPool has its loop): it ends when its context is cancelled,
\* or when a write fails, and then closes the socket.

\* Mutant: the listener has the context of the server, not of the connection.
ListenerStays(c) ==
    /\ listeners[c] > 0 /\ ctxDone
    /\ listeners' = [listeners EXCEPT ![c] = @ - 1]
    /\ UNCHANGED <<connVars, jwt, thread, panelVars>>

ListenerLeaves(c) ==
    /\ listeners[c] > 0 /\ c \in cancelled
    /\ listeners' = [listeners EXCEPT ![c] = @ - 1]
    /\ UNCHANGED <<connVars, jwt, thread, panelVars>>

\* Mutant: a failed write of any goroutine of the connection ends a listener.
AnyWriteFails(c) ==
    /\ TokenValid(c)
    /\ listeners' = [listeners EXCEPT ![c] = @ - 1] /\ open' = open \ {c}
    /\ UNCHANGED <<place, bag, cancelled, jwt, thread, panelVars>>

\* With a token that is refused the client is told so, and the error masked.
ListenerFails(c) ==
    /\ listeners[c] > 0 /\ TokenValid(c)
    /\ listeners' = [listeners EXCEPT ![c] = @ - 1] /\ open' = open \ {c}
    /\ UNCHANGED <<place, bag, cancelled, jwt, thread, panelVars>>
------------------------------------------------------------------------------
\* Requests of the panel.

CancelAll == cancelled' = cancelled \cup bag /\ bag' = {}

\* Handling of request r goes on, or ends.
Begin(r) == r \notin admin /\ admin' = admin \cup {r}
Finish(r) == r \in admin /\ admin' = admin \ {r}

\* Sync takes the new configuration over, and disconnects everybody if the
\* server is suspended then.
SyncConfiguration ==
    /\ Begin("sync") /\ suspended' \in BOOLEAN
    /\ UNCHANGED <<connVars, authVars, thread, epoch, ousted, ctxDone>>

SyncDisconnect ==
    /\ Finish("sync")
    /\ IF suspended THEN CancelAll ELSE UNCHANGED <<bag, cancelled>>
    /\ UNCHANGED <<place, open, authVars, thread, epoch, ousted, suspended, ctxDone>>

\* postDeauthorizeUser: the tokens of the user are refused from now on, then
\* everybody is disconnected.
DenyForServer ==
    /\ epoch < MaxEpoch /\ Begin("deauthorize")
    /\ epoch' = epoch + 1
    /\ UNCHANGED <<connVars, authVars, thread, ousted, suspended, ctxDone>>

Deauthorize ==
    /\ Finish("deauthorize") /\ CancelAll
    /\ ousted' = epoch
    /\ UNCHANGED <<place, open, authVars, thread, epoch, suspended, ctxDone>>

\* DenyJTI, and tokens that expire: nobody is disconnected.
DenyJTI ==
    /\ epoch < MaxEpoch /\ epoch' = epoch + 1
    /\ UNCHANGED <<connVars, authVars, thread, ousted, suspended, ctxDone, admin>>

\* deleteServer: the server is suspended, its context cancelled, and at last
\* everybody is disconnected.
DeleteSuspend ==
    /\ ~ctxDone /\ Begin("delete")
    /\ suspended' = TRUE
    /\ UNCHANGED <<connVars, authVars, thread, epoch, ousted, ctxDone>>

CtxCancel ==
    /\ ~ctxDone /\ "delete" \in admin /\ ctxDone' = TRUE
    /\ UNCHANGED <<connVars, authVars, thread, epoch, ousted, suspended, admin>>

CleanupForDestroy ==
    /\ ctxDone /\ Finish("delete") /\ CancelAll
    /\ UNCHANGED <<place, open, authVars, thread, epoch, ousted, suspended, ctxDone>>
------------------------------------------------------------------------------
Request(c) ==
    \/ CheckLimit(c) \/ Upgrade(c) \/ Track(c) \/ CheckSuspended(c) \/ ReadFails(c)
    \/ Remove(c) \/ DeferredCancel(c)
Inbound(t) == HandleInbound(t) \/ NewConnection(t) \/ SetJwt(t) \/ RegisterListenerEvents(t)
Finishing == SyncDisconnect \/ Deauthorize \/ CtxCancel \/ CleanupForDestroy

WebsocketNext ==
    \/ \E c \in Conns : \/ Request(c) \/ CloseOnDone(c) \/ CancelOnDelete(c)
                        \/ Disconnect(c) \/ ListenerLeaves(c) \/ ListenerFails(c)
    \/ \E t \in Threads : Inbound(t) \/ \E c \in Conns : ReadMessage(c, t)
    \/ SyncConfiguration \/ DenyForServer \/ DenyJTI \/ DeleteSuspend \/ Finishing

WebsocketSpec == WebsocketInit /\ [][WebsocketNext]_websocketVars

\* Goroutines run; requests that have begun are carried out.
WebsocketFairness ==
    /\ \A c \in Conns : /\ WF_websocketVars(Request(c) /\ place[c] # "idle")
                        /\ WF_websocketVars(CloseOnDone(c)) /\ WF_websocketVars(CancelOnDelete(c))
                        /\ WF_websocketVars(ListenerLeaves(c))
    /\ \A t \in Threads : WF_websocketVars(Inbound(t))
    /\ WF_websocketVars(Finishing)

WebsocketFairSpec == WebsocketSpec /\ WebsocketFairness
------------------------------------------------------------------------------
\* Properties.

\* A connection is cancelled, or the next step of its own request cancels it.
CutOff(c) == c \in cancelled \/ place[c] = "removed"

\* Once postDeauthorizeUser has disconnected everybody, no connection lives on
\* with a token from before: an authentication that was past its check belongs
\* to a connection that is in the bag, or that has just left it on the way to
\* its deferred cancel, and a later one is refused.
RevokedIsCutOff ==
    \A c \in Conns : jwt[c] # NoToken /\ jwt[c] < ousted => CutOff(c)

\* A server that stays suspended, or is deleted, loses all its connections, also
\* those whose request was anywhere between the check of the limit and its loop
\* when everybody was disconnected.
ShutOut == <>[](suspended \/ ctxDone) => <>[](open = {})

\* When a connection is cut off (by RevokedIsCutOff that includes every one with a
\* revoked token) it is closed and its listeners end for good, also those that
\* an authentication still under way registers afterwards.
ListenersEnd ==
    \A c \in Conns : <>CutOff(c) => <>[](c \notin open /\ listeners[c] = 0)
=============================================================================
