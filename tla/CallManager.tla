----------------------------- MODULE CallManager -----------------------------
(***************************************************************************)
(* One CallManager (voip/call): the threads that drive one call and the    *)
(* media they set up and tear down.  Every critical section of m.mu is one *)
(* step; what a handler does between two critical sections is a step of    *)
(* its own, so handlers interleave exactly where the code lets them.       *)
(* The relay connections are at the grain the manager sees: absent,        *)
(* connecting or open (SctpRelay has the detail).                          *)
(* Time is frozen: a time stamp says whether, not when.                    *)
(***************************************************************************)
EXTENDS Naturals

CONSTANTS
    Threads,      \* goroutines that run the handlers
    Endpoints,    \* relay endpoints the peer can name
    Usable,       \* those in structured form, with key, token and UDP
    Reasons,      \* end reasons
    NoReason,
    MaxCallbacks  \* bound: relay-open callbacks under way per endpoint

ASSUME CallManagerAssumption ==
    /\ Usable \subseteq Endpoints
    /\ NoReason \notin Reasons
    /\ MaxCallbacks \in Nat \ {0}

VARIABLES
    call,        \* currentCall
    callKey,     \* call.EncryptionKey # nil
    relayData,   \* the endpoints of call.RelayData, {} for a nil RelayData
    codec,       \* codec # nil
    srtp,        \* whose key srtpSession receives with
    sendLoop,    \* sendLoopStop # nil
    attached,    \* the controller's map still has the call
    detaching,   \* a `go c.cleanup(callID)` is under way
    reported,    \* the state in the last CallStateEvent emitted
    pc,          \* what each thread runs
    local,       \* the locals of each thread that survive a step
    ackRelays,   \* endpoints of the offer ack not yet handled, {} for none
    conn,        \* state of the relay connection to each endpoint
    callbacks    \* OnOpen callbacks that have yet to call onRelayConnected

callVars  == <<call, callKey, relayData>>
mediaVars == <<codec, srtp, sendLoop>>
ctlVars   == <<attached, detaching, reported>>
relayVars == <<conn, callbacks>>
thrVars   == <<pc, local, ackRelays>>
vars == <<callVars, mediaVars, ctlVars, relayVars, thrVars>>

CS == INSTANCE CallState WITH MaxClock <- 1, clock <- 1

State == call.state

ConnStates == {"absent", "connecting", "open"}
Keys == {"none", "callKey", "peerKey"}
Labels ==
    {"idle", "fetched", "offer_query", "offer_notify", "offer_report",
     "offer_emit", "setup_media", "accept_connect", "remote_accept",
     "accepted", "transport", "connect", "ended", "cleanup_media",
     "cleanup_relay"}
Locals == [hasConn : BOOLEAN, relays : SUBSET Endpoints, seen : CS!States]
NoLocal == [hasConn |-> FALSE, relays |-> {}, seen |-> "none"]

HasConnection == \E e \in Endpoints : conn[e] = "open"

-----------------------------------------------------------------------------
Goto(t, l) == pc' = [pc EXCEPT ![t] = l]

Finish(t) ==
    /\ Goto(t, "idle")
    /\ local' = [local EXCEPT ![t] = NoLocal]

\* Mutant: a handler that sets the state itself.
SetState(type) == call' = [call EXCEPT !.state = CS!Target[type]]

Apply(type) ==
    \E r \in Reasons : call' = CS!ApplyTransition(call, type, r, FALSE, 1)

\* emitState: the event carries the state after the transition, and the
\* controller's OnStateChange forgets an ended call.
EmitState ==
    /\ reported' = call'.state
    /\ detaching' = (detaching \/ call'.state = "ended")
    /\ UNCHANGED attached

\* initSrtpKeysLocked: only a call with an EncryptionKey gets a session.
InitSrtpKeys == srtp' = IF callKey THEN "callKey" ELSE srtp

\* connectRelays: buildRelayConfigs drops what is not usable, ConfigureRelays
\* skips the endpoints that already have a connection.
ConfigureRelays(relays) ==
    conn' = [e \in Endpoints |->
                IF e \in relays \cap Usable /\ conn[e] = "absent"
                THEN "connecting" ELSE conn[e]]

\* ApplyTransition(MediaConnected) and, if it is legal, emitState and
\* startMediaSendLoopLocked.
MediaConnected ==
    IF CS!CanApply(call, "media_connected")
    THEN /\ Apply("media_connected")
         /\ EmitState
         /\ sendLoop' = (sendLoop \/ codec)
         /\ UNCHANGED <<codec, srtp, callKey, relayData>>
    ELSE UNCHANGED <<callVars, mediaVars, ctlVars>>

-----------------------------------------------------------------------------
Init ==
    /\ call = CS!NoCall
    /\ callKey = FALSE
    /\ relayData = {}
    /\ codec = FALSE
    /\ srtp = "none"
    /\ sendLoop = FALSE
    /\ attached = TRUE
    /\ detaching = FALSE
    /\ reported = "none"
    /\ pc = [t \in Threads |-> "idle"]
    /\ local = [t \in Threads |-> NoLocal]
    /\ ackRelays = {}
    /\ conn = [e \in Endpoints |-> "absent"]
    /\ callbacks = [e \in Endpoints |-> 0]

-----------------------------------------------------------------------------
(* StartCall.  The controller calls it once, on a fresh manager.           *)

\* The first critical section: a new call, its media state and its key; the
\* codec may be unavailable.
StartCall(t) ==
    /\ pc[t] = "idle" /\ State = "none"
    /\ call' = CS!NewOutgoingCall("audio")
    /\ callKey' = TRUE
    /\ codec' \in BOOLEAN
    /\ Goto(t, "offer_query")
    /\ UNCHANGED <<relayData, srtp, sendLoop, ctlVars, relayVars, local, ackRelays>>

\* The offer cannot be built or sent: the controller forgets the call.
OfferFails(t) ==
    /\ pc[t] = "offer_query"
    /\ attached' = FALSE
    /\ Finish(t)
    /\ UNCHANGED <<callVars, mediaVars, detaching, reported, relayVars, ackRelays>>

\* Query returns the ack, which goes to a goroutine of its own, or nothing
\* after 15 seconds; the second critical section ignores a failed transition.
OfferAnswered(t) ==
    /\ pc[t] = "offer_query"
    /\ Apply("offer_sent")
    /\ EmitState
    /\ ackRelays' \in SUBSET Endpoints
    /\ Finish(t)
    /\ UNCHANGED <<callKey, relayData, mediaVars, relayVars>>

\* HandleCallAck: an ack that names no relay is dropped, any other replaces
\* the relay data and, if it names participants, the SRTP session.
HandleCallAck(t) ==
    /\ pc[t] = "idle" /\ ackRelays # {}
    /\ relayData' = ackRelays
    /\ InitSrtpKeys \/ UNCHANGED srtp
    /\ ackRelays' = {}
    /\ local' = [local EXCEPT ![t].relays = ackRelays]
    /\ Goto(t, "connect")
    /\ UNCHANGED <<call, callKey, codec, sendLoop, ctlVars, relayVars>>

\* connectRelays with the endpoints the handler holds.
ConnectRelays(t) ==
    /\ pc[t] = "connect"
    /\ ConfigureRelays(local[t].relays)
    /\ Finish(t)
    /\ UNCHANGED <<callVars, mediaVars, ctlVars, callbacks, ackRelays>>

-----------------------------------------------------------------------------
(* HandleCallOffer, called once on a fresh manager too.                    *)

\* The call key may not decrypt and the offer may carry no relay.
HandleCallOffer(t) ==
    /\ pc[t] = "idle" /\ State = "none"
    /\ \E media \in CS!MediaTypes : call' = CS!NewIncomingCall(media)
    /\ callKey' \in BOOLEAN
    /\ relayData' \in SUBSET Endpoints
    /\ codec' \in BOOLEAN
    /\ Goto(t, "offer_notify")
    /\ UNCHANGED <<srtp, sendLoop, ctlVars, relayVars, local, ackRelays>>

\* OnIncoming reads the state without the lock ...
OfferNotify(t) ==
    /\ pc[t] = "offer_notify"
    /\ local' = [local EXCEPT ![t].seen = State]
    /\ Goto(t, "offer_report")
    /\ UNCHANGED <<callVars, mediaVars, ctlVars, relayVars, ackRelays>>

\* ... and emits what it read.
OfferReport(t) ==
    /\ pc[t] = "offer_report"
    /\ reported' = local[t].seen
    /\ Goto(t, "offer_emit")
    /\ UNCHANGED <<callVars, mediaVars, attached, detaching, relayVars, local, ackRelays>>

\* Mutant: OnIncoming has reported the call, nothing else does.
OfferDone(t) ==
    /\ pc[t] = "offer_emit"
    /\ Finish(t)
    /\ UNCHANGED <<callVars, mediaVars, ctlVars, relayVars, ackRelays>>

\* The closing emitState, under the lock.
OfferEmit(t) ==
    /\ pc[t] = "offer_emit"
    /\ UNCHANGED callVars
    /\ EmitState
    /\ Finish(t)
    /\ UNCHANGED <<mediaVars, relayVars, ackRelays>>

-----------------------------------------------------------------------------
(* Every other handler first takes the manager from the controller's map;  *)
(* the call may end and leave the map before the handler goes on.          *)
Fetch(t) ==
    /\ pc[t] = "idle" /\ attached
    /\ Goto(t, "fetched")
    /\ UNCHANGED <<callVars, mediaVars, ctlVars, relayVars, local, ackRelays>>

\* No call yet, a stanza without info, a transport without relays, a call
\* that cannot be accepted or has already ended.
ReturnEarly(t) ==
    /\ pc[t] = "fetched"
    /\ Finish(t)
    /\ UNCHANGED <<callVars, mediaVars, ctlVars, relayVars, ackRelays>>

Fetched(t) == pc[t] = "fetched" /\ State # "none"

\* AcceptCall: the transition is made before the media is set up, and there
\* is media to set up only if relay endpoints are known by then.
AcceptCall(t) ==
    /\ Fetched(t) /\ CS!CanApply(call, "local_accepted")
    /\ Apply("local_accepted")
    /\ EmitState
    /\ IF relayData # {}
       THEN Goto(t, "setup_media") /\ local' = [local EXCEPT ![t].relays = relayData]
       ELSE Finish(t)
    /\ UNCHANGED <<callKey, relayData, mediaVars, relayVars, ackRelays>>

SetupIncomingMedia(t) ==
    /\ pc[t] = "setup_media"
    /\ InitSrtpKeys
    /\ Goto(t, "accept_connect")
    /\ UNCHANGED <<callVars, codec, sendLoop, ctlVars, relayVars, local, ackRelays>>

\* The endpoints are read from the shared RelayData without the lock, while
\* HandleCallTransport may be storing others.
AcceptConnect(t) ==
    /\ pc[t] = "accept_connect"
    /\ \E relays \in {local[t].relays, relayData} : ConfigureRelays(relays)
    /\ Finish(t)
    /\ UNCHANGED <<callVars, mediaVars, ctlVars, callbacks, ackRelays>>

\* EndCall, for a call that has not ended.
EndCall(t) ==
    /\ Fetched(t) /\ State # "ended"
    /\ Apply("terminated")
    /\ EmitState
    /\ Goto(t, "ended")
    /\ UNCHANGED <<callKey, relayData, mediaVars, relayVars, local, ackRelays>>

\* HandleCallTerminate, for terminate and reject stanzas: no such guard, so
\* a second end runs the callbacks and the cleanup again.
HandleCallTerminate(t) ==
    /\ Fetched(t)
    /\ Apply("terminated")
    /\ EmitState
    /\ Goto(t, "ended")
    /\ UNCHANGED <<callKey, relayData, mediaVars, relayVars, local, ackRelays>>

\* OnEnded, outside the lock.
OnEnded(t) ==
    /\ pc[t] = "ended"
    /\ reported' = State
    /\ detaching' = TRUE
    /\ Goto(t, "cleanup_media")
    /\ UNCHANGED <<callVars, mediaVars, attached, relayVars, local, ackRelays>>

TearDown(t, loop) ==
    /\ pc[t] = "cleanup_media"
    /\ codec' = FALSE
    /\ srtp' = "none"
    /\ sendLoop' = loop
    /\ Goto(t, "cleanup_relay")
    /\ UNCHANGED <<callVars, ctlVars, relayVars, local, ackRelays>>

\* Mutant: the loop is not stopped.
CleanupKeepsLoop(t) == TearDown(t, sendLoop)

\* cleanupMedia: the critical section ...
CleanupMedia(t) == TearDown(t, FALSE)

\* ... and relay.Cleanup, outside it.
CleanupRelay(t) ==
    /\ pc[t] = "cleanup_relay"
    /\ conn' = [e \in Endpoints |-> "absent"]
    /\ Finish(t)
    /\ UNCHANGED <<callVars, mediaVars, ctlVars, callbacks, ackRelays>>

-----------------------------------------------------------------------------
(* The signalling of the peer, HandleCallAccept and HandleCallTransport.   *)

\* The accept may carry a key of the peer's own; a key that differs from the
\* call's re-initialises the session.
HandleCallAccept(t) ==
    /\ Fetched(t)
    /\ srtp' \in {srtp} \cup (IF callKey THEN {"peerKey"} ELSE {})
    /\ Goto(t, "remote_accept")
    /\ UNCHANGED <<callVars, codec, sendLoop, ctlVars, relayVars, local, ackRelays>>

\* The transition may fail, the rest runs all the same.
MakeConnecting(t, hasConn) ==
    /\ pc[t] = "remote_accept"
    /\ Apply("remote_accepted")
    /\ EmitState
    /\ InitSrtpKeys
    /\ local' = [local EXCEPT ![t].hasConn = hasConn, ![t].relays = relayData]
    /\ Goto(t, "accepted")
    /\ UNCHANGED <<callKey, relayData, codec, sendLoop, relayVars, ackRelays>>

\* Mutant: the relays that are already open are not asked for.
RemoteAcceptBlind(t) == MakeConnecting(t, FALSE)

\* The main critical section: whether a relay is open is read in the section
\* that makes the call Connecting.
RemoteAccept(t) == MakeConnecting(t, HasConnection)

\* A relay was open: promote the call.
AcceptedPromotes(t) ==
    /\ pc[t] = "accepted" /\ local[t].hasConn
    /\ MediaConnected
    /\ Finish(t)
    /\ UNCHANGED <<relayVars, ackRelays>>

\* No relay was open: connect to those that were known, read without the lock.
AcceptedConnects(t) ==
    /\ pc[t] = "accepted" /\ ~local[t].hasConn
    /\ IF local[t].relays = {}
       THEN UNCHANGED conn
       ELSE \E relays \in {local[t].relays, relayData} : ConfigureRelays(relays)
    /\ Finish(t)
    /\ UNCHANGED <<callVars, mediaVars, ctlVars, callbacks, ackRelays>>

\* HandleCallTransport goes on only if no relay is open.  It reads endpoints
\* in attribute form only, which never have the token buildRelayConfigs asks
\* for ...
HandleCallTransport(t) ==
    /\ Fetched(t) /\ ~HasConnection
    /\ \E relays \in (SUBSET (Endpoints \ Usable)) \ {{}} :
         local' = [local EXCEPT ![t].relays = relays]
    /\ Goto(t, "transport")
    /\ UNCHANGED <<callVars, mediaVars, ctlVars, relayVars, ackRelays>>

\* ... and then stores the endpoints, whatever state the call is in by now.
StoreEndpoints(t) ==
    /\ pc[t] = "transport"
    /\ relayData' = local[t].relays
    /\ Goto(t, "connect")
    /\ UNCHANGED <<call, callKey, mediaVars, ctlVars, relayVars, local, ackRelays>>

-----------------------------------------------------------------------------
(* The relay transport and the controller's goroutine.                     *)

\* OnOpen: the connection is open before the manager is told.
RelayOpens(e) ==
    /\ conn[e] = "connecting" /\ callbacks[e] < MaxCallbacks
    /\ conn' = [conn EXCEPT ![e] = "open"]
    /\ callbacks' = [callbacks EXCEPT ![e] = @ + 1]
    /\ UNCHANGED <<callVars, mediaVars, ctlVars, thrVars>>

\* onRelayConnected promotes only a call that is Connecting.
OnRelayConnected(e) ==
    /\ callbacks[e] > 0
    /\ MediaConnected
    /\ callbacks' = [callbacks EXCEPT ![e] = @ - 1]
    /\ UNCHANGED <<conn, thrVars>>

\* A connection times out, fails or is closed.
RelayFails(e) ==
    /\ conn[e] # "absent"
    /\ conn' = [conn EXCEPT ![e] = "absent"]
    /\ UNCHANGED <<callVars, mediaVars, ctlVars, callbacks, thrVars>>

\* Mutant: the controller keeps a call whose media still runs.
DetachIfQuiet ==
    /\ detaching
    /\ attached' = sendLoop
    /\ detaching' = FALSE
    /\ UNCHANGED <<callVars, mediaVars, reported, relayVars, thrVars>>

\* The controller's `go c.cleanup(callID)`.
Detach ==
    /\ detaching
    /\ attached' = FALSE
    /\ detaching' = FALSE
    /\ UNCHANGED <<callVars, mediaVars, reported, relayVars, thrVars>>

-----------------------------------------------------------------------------
\* What a goroutine does on its own account, once started.
Step(t) ==
    \/ OfferFails(t) \/ OfferAnswered(t) \/ ConnectRelays(t)
    \/ OfferNotify(t) \/ OfferReport(t) \/ OfferEmit(t)
    \/ ReturnEarly(t) \/ AcceptCall(t) \/ SetupIncomingMedia(t) \/ AcceptConnect(t)
    \/ EndCall(t) \/ HandleCallTerminate(t) \/ OnEnded(t)
    \/ CleanupMedia(t) \/ CleanupRelay(t)
    \/ HandleCallAccept(t) \/ RemoteAccept(t) \/ AcceptedPromotes(t) \/ AcceptedConnects(t)
    \/ HandleCallTransport(t) \/ StoreEndpoints(t)

\* What the user, the peer and the network may or may not do.
Arrive(t) == StartCall(t) \/ HandleCallOffer(t) \/ Fetch(t)

Next ==
    \/ \E t \in Threads : Arrive(t) \/ HandleCallAck(t) \/ Step(t)
    \/ \E e \in Endpoints : RelayOpens(e) \/ OnRelayConnected(e) \/ RelayFails(e)
    \/ Detach

Spec == Init /\ [][Next]_vars

\* Goroutines, callbacks and the ack's goroutine run to their end.
Fairness ==
    /\ \A t \in Threads : WF_vars(Step(t))
    /\ WF_vars(\E t \in Threads : HandleCallAck(t))
    /\ \A e \in Endpoints : WF_vars(OnRelayConnected(e))
    /\ WF_vars(Detach)

FairSpec == Spec /\ Fairness

-----------------------------------------------------------------------------
TypeOK ==
    /\ call \in CS!Calls
    /\ callKey \in BOOLEAN
    /\ relayData \in SUBSET Endpoints
    /\ codec \in BOOLEAN
    /\ srtp \in Keys
    /\ sendLoop \in BOOLEAN
    /\ attached \in BOOLEAN
    /\ detaching \in BOOLEAN
    /\ reported \in CS!States
    /\ pc \in [Threads -> Labels]
    /\ local \in [Threads -> Locals]
    /\ ackRelays \in SUBSET Endpoints
    /\ conn \in [Endpoints -> ConnStates]
    /\ callbacks \in [Endpoints -> 0 .. MaxCallbacks]

Idle == \A t \in Threads : pc[t] = "idle"

\* A promotion to Active that is on its way.
PromotionPending ==
    \/ \E t \in Threads : pc[t] = "accepted" /\ local[t].hasConn
    \/ \E e \in Endpoints : callbacks[e] > 0

\* An accepted outgoing call with an open relay has someone who will promote
\* it: the accept handler saw the relay, or the relay's callback is to come.
\* HandleCallAccept and onRelayConnected would lose the call between them if
\* the accept did not test HasConnection in the critical section that makes
\* the call Connecting.
NoLostPromotion ==
    call.dir = "outgoing" /\ State = "connecting" /\ HasConnection => PromotionPending

\* An outgoing call is Active only with an SRTP session, however the ack, the
\* accept and the relay callbacks interleave.
OutgoingActiveHasKeys ==
    call.dir = "outgoing" /\ State \in {"connecting", "active"} => srtp # "none"

\* Once the call has ended and its cleanup has run, no late accept or relay
\* callback leaves a send loop ticking or a codec open.
EndedReleasesMedia ==
    State = "ended" /\ (\A t \in Threads : pc[t] \notin {"ended", "cleanup_media"})
        => ~codec /\ ~sendLoop

\* A send loop runs only for a call that became Active.
SendLoopNeedsMedia == sendLoop => call.connectedAt # CS!Unset

\* When nothing is running, the last event the application got carries the
\* state of the call: the report OnIncoming makes outside the lock may be
\* stale and out of order, but never the last one.
LastReportIsTrue ==
    Idle /\ State \notin {"none", "initiating"} => reported = State

\* An end is always followed by the removal of the call from the controller.
EndedIsForgotten == State = "ended" ~> ~attached

\* An accepted outgoing call with an open relay does not stay Connecting.
OutgoingReachesActive ==
    call.dir = "outgoing" /\ State = "connecting" /\ HasConnection
        ~> State # "connecting" \/ ~HasConnection

\* Every step of the manager is a legal transition of the call or leaves it
\* alone.
Lifecycle == CS!Init /\ [][CS!Next]_(CS!vars)

-----------------------------------------------------------------------------
(* What the repository says of the manager and the code does not do.       *)

\* callmanager.go:186 - the media path of a call accepted without relay
\* endpoints waits for a transport message: when that comes, a relay is at
\* least tried, or the call moves on.
TransportBringsMedia ==
    call.dir = "incoming" /\ State = "connecting" /\ (\E t \in Threads : pc[t] = "transport")
        ~> State # "connecting" \/ (\E e \in Endpoints : conn[e] # "absent")

\* callmanager_srtp.go:71 - the session re-initialised with the peer's call
\* key keeps that key until the media is torn down.
PeerKeyIsKept == [][srtp = "peerKey" => srtp' # "callKey"]_srtp

\* callctl/controller.go:292 - ending a call releases its resources: when no
\* handler is left, an ended call has no open relay connection.
EndedReleasesRelays ==
    State = "ended" /\ Idle /\ ackRelays = {} => ~HasConnection
==============================================================================
