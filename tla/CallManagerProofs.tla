-------------------------- MODULE CallManagerProofs --------------------------
(***************************************************************************)
(* Proofs about CallManager for every set of goroutines, endpoints and end *)
(* reasons: its invariants hold however the handlers interleave, and every *)
(* step is a step of CallState or leaves the call alone.                   *)
(***************************************************************************)
EXTENDS CallManager, TLAPS

-----------------------------------------------------------------------------
(* The inductive invariant, in parts.                                      *)

\* Time is frozen at 1, so a call connects at 1 or never.
CallOK ==
    /\ call \in CS!Calls
    /\ call.connectedAt \in {0, 1}

\* Nobody holds or resumes a call, and only an incoming call rings as one.
StatesOK ==
    /\ State # "on_hold"
    /\ State = "incoming_ringing" => call.dir = "incoming"

\* Before there is a call there is nothing to send, and an outgoing call
\* always has the key it was offered with.
FreshOK ==
    /\ State = "none" => ~sendLoop
    /\ State \in {"active"} => call.connectedAt # CS!Unset
    /\ call.dir = "outgoing" /\ State # "none" => callKey

\* A handler that tears down does so because the call has ended.
TearingDown ==
    \A t \in Threads :
        pc[t] \in {"ended", "cleanup_media", "cleanup_relay"} => State = "ended"

IInv ==
    /\ TypeOK
    /\ CallOK
    /\ StatesOK
    /\ FreshOK
    /\ TearingDown
    /\ NoLostPromotion
    /\ OutgoingActiveHasKeys
    /\ EndedReleasesMedia
    /\ SendLoopNeedsMedia

-----------------------------------------------------------------------------
(* What the transitions that the handlers attempt do to the call.          *)

AttemptedTypes ==
    {"offer_sent", "local_accepted", "remote_accepted", "media_connected", "terminated"}

LEMMA ApplyEffect ==
    ASSUME CallOK, StatesOK, NEW type \in AttemptedTypes, Apply(type)
    PROVE  /\ CallOK' /\ StatesOK'
           /\ call'.dir = call.dir
           /\ ~CS!CanApply(call, type) => call' = call
           /\ CS!CanApply(call, type) =>
                 /\ State' = CS!Target[type]
                 /\ type # "media_connected" => call'.connectedAt = call.connectedAt
                 /\ type = "media_connected" => call'.connectedAt = 1
           /\ State \in {"none", "ended"} => call' = call
<1>1. PICK r \in Reasons : call' = CS!ApplyTransition(call, type, r, FALSE, 1)
  BY DEF Apply
<1>2. /\ CS!CanApply(call, "offer_sent") <=> State = "initiating"
      /\ CS!CanApply(call, "local_accepted") <=> State = "incoming_ringing"
      /\ CS!CanApply(call, "remote_accepted") <=> State = "ringing"
      /\ CS!CanApply(call, "media_connected") <=> State = "connecting"
      /\ CS!CanApply(call, "terminated") <=> State \notin {"none", "ended"}
  BY DEF CallOK, CS!CanApply, CS!Sources, CS!Calls, CS!States, State
<1>3. CASE ~CS!CanApply(call, type)
  <2>1. call' = call
    BY <1>1, <1>3 DEF CS!ApplyTransition
  <2> QED
    BY <1>3, <2>1 DEF CallOK, StatesOK, State
<1>4. CASE CS!CanApply(call, type)
  <2>1. CS!Target[type] \in {"ringing", "connecting", "active", "ended"}
    BY DEF AttemptedTypes, CS!Target
  <2>2. CS!Duration(call, type, 1) \in Nat
    BY DEF CallOK, CS!Duration, CS!Calls, CS!Unset
  <2>3. /\ call'.dir = call.dir /\ call'.media = call.media
        /\ call'.state = CS!Target[type]
        /\ call'.acceptedAt \in {1, call.acceptedAt}
        /\ call'.connectedAt = IF type = "media_connected" THEN 1 ELSE call.connectedAt
        /\ call'.endedAt \in {1, call.endedAt}
        /\ call'.endReason \in {r, call.endReason}
        /\ call'.duration = CS!Duration(call, type, 1)
        /\ call'.audioMuted \in BOOLEAN /\ call'.videoOff \in BOOLEAN
        /\ call' \in [dir : {call'.dir}, media : {call'.media}, state : {call'.state},
                      acceptedAt : {call'.acceptedAt}, connectedAt : {call'.connectedAt},
                      endedAt : {call'.endedAt}, duration : {call'.duration},
                      endReason : {call'.endReason}, audioMuted : {call'.audioMuted},
                      videoOff : {call'.videoOff}]
    BY <1>1, <1>4 DEF CallOK, CS!ApplyTransition, CS!Calls
  <2>4. call' \in CS!Calls
    BY <2>1, <2>2, <2>3 DEF CallOK, CS!Calls, CS!States
  <2> QED
    BY <1>2, <1>4, <2>1, <2>3, <2>4 DEF CallOK, StatesOK, State, AttemptedTypes
<1> QED
  BY <1>3, <1>4

\* MediaConnected promotes a Connecting call and does nothing to any other.
LEMMA MediaConnectedEffect ==
    ASSUME TypeOK, CallOK, StatesOK, MediaConnected
    PROVE  /\ CallOK' /\ StatesOK'
           /\ call'.dir = call.dir
           /\ UNCHANGED <<callKey, relayData, codec, srtp, attached>>
           /\ detaching' \in BOOLEAN
           /\ reported' \in CS!States
           /\ sendLoop' \in BOOLEAN
           /\ IF State = "connecting"
              THEN /\ State' = "active" /\ call'.connectedAt = 1
                   /\ sendLoop' = (sendLoop \/ codec)
              ELSE call' = call /\ sendLoop' = sendLoop
<1>1. CS!CanApply(call, "media_connected") <=> State = "connecting"
  BY DEF CallOK, CS!CanApply, CS!Sources, State
<1>2. CASE State = "connecting"
  <2>1. Apply("media_connected") /\ EmitState
    BY <1>1, <1>2 DEF MediaConnected
  <2>2. /\ CallOK' /\ StatesOK' /\ call'.dir = call.dir
        /\ State' = "active" /\ call'.connectedAt = 1
    BY <1>1, <1>2, <2>1, ApplyEffect DEF AttemptedTypes, CS!Target
  <2>3. /\ sendLoop' = (sendLoop \/ codec)
        /\ UNCHANGED <<callKey, relayData, codec, srtp>>
    BY <1>1, <1>2 DEF MediaConnected
  <2>4. sendLoop' \in BOOLEAN
    BY <2>3 DEF TypeOK
  <2>5. attached' = attached /\ detaching' \in BOOLEAN /\ reported' = State'
    BY <2>1 DEF EmitState, TypeOK, State
  <2>6. reported' \in CS!States
    BY <2>2, <2>5 DEF CS!States
  <2> QED
    BY <1>2, <2>2, <2>3, <2>4, <2>5, <2>6
<1>3. CASE State # "connecting"
  <2>1. UNCHANGED <<call, callKey, relayData, codec, srtp, sendLoop,
                    attached, detaching, reported>>
    BY <1>1, <1>3 DEF MediaConnected, callVars, mediaVars, ctlVars
  <2>2. CallOK' /\ StatesOK' /\ call'.dir = call.dir
    BY <2>1 DEF CallOK, StatesOK, State
  <2>3. detaching' \in BOOLEAN /\ reported' \in CS!States /\ sendLoop' \in BOOLEAN
    BY <2>1 DEF TypeOK
  <2> QED
    BY <1>3, <2>1, <2>2, <2>3
<1> QED
  BY <1>2, <1>3

LEMMA EmitStateType ==
    ASSUME TypeOK, CallOK', EmitState
    PROVE  reported' \in CS!States /\ detaching' \in BOOLEAN /\ attached' \in BOOLEAN
  BY DEF TypeOK, CallOK, EmitState, CS!Calls

-----------------------------------------------------------------------------
LEMMA InitIInv == Init => IInv
<1> SUFFICES ASSUME Init PROVE IInv
  OBVIOUS
<1>1. /\ call \in CS!Calls /\ State = "none" /\ call.connectedAt = 0
      /\ call.dir = "outgoing"
  BY DEF Init, State, CS!NoCall, CS!NewCall, CS!Calls, CS!States, CS!Directions,
         CS!MediaTypes, CS!Unset
<1>2. TypeOK
  <2>1. pc \in [Threads -> Labels] /\ conn \in [Endpoints -> ConnStates]
    BY DEF Init, Labels, ConnStates
  <2>2. NoLocal \in Locals
    BY DEF NoLocal, Locals, CS!States
  <2>3. local \in [Threads -> Locals]
    BY <2>2 DEF Init
  <2>4. callbacks \in [Endpoints -> 0 .. MaxCallbacks]
    BY CallManagerAssumption DEF Init
  <2> QED
    BY <1>1, <2>1, <2>3, <2>4 DEF Init, TypeOK, CS!States, Keys
<1> QED
  BY <1>1, <1>2
     DEF Init, IInv, CallOK, StatesOK, FreshOK, TearingDown, NoLostPromotion,
         OutgoingActiveHasKeys, EndedReleasesMedia, SendLoopNeedsMedia, State

-----------------------------------------------------------------------------
(* Type correctness.                                                       *)

TypesOK == TypeOK /\ CallOK /\ StatesOK

LEMMA GotoType ==
    ASSUME pc \in [Threads -> Labels], NEW t \in Threads, NEW l \in Labels, Goto(t, l)
    PROVE  pc' \in [Threads -> Labels]
  BY DEF Goto

LEMMA FinishType ==
    ASSUME pc \in [Threads -> Labels], local \in [Threads -> Locals],
           NEW t \in Threads, Finish(t)
    PROVE  pc' \in [Threads -> Labels] /\ local' \in [Threads -> Locals]
  BY DEF Finish, Goto, Labels, Locals, NoLocal, CS!States

LEMMA ConfigureType ==
    ASSUME conn \in [Endpoints -> ConnStates], NEW relays, ConfigureRelays(relays)
    PROVE  conn' \in [Endpoints -> ConnStates]
  BY DEF ConfigureRelays, ConnStates

LEMMA NewCallTypes ==
    ASSUME NEW dir \in CS!Directions, NEW media \in CS!MediaTypes,
           NEW state \in {"initiating", "incoming_ringing"},
           state = "incoming_ringing" => dir = "incoming",
           call' = CS!NewCall(dir, media, state)
    PROVE  CallOK' /\ StatesOK'
  BY DEF CallOK, StatesOK, State, CS!NewCall, CS!Calls, CS!States, CS!Unset

LEMMA CallStays ==
    ASSUME CallOK, StatesOK, UNCHANGED call
    PROVE  CallOK' /\ StatesOK'
  BY DEF CallOK, StatesOK, State

LEMMA CountUp ==
    ASSUME callbacks \in [Endpoints -> 0 .. MaxCallbacks], NEW e \in Endpoints,
           callbacks[e] < MaxCallbacks
    PROVE  [callbacks EXCEPT ![e] = @ + 1] \in [Endpoints -> 0 .. MaxCallbacks]
<1>1. callbacks[e] + 1 \in 0 .. MaxCallbacks
  BY CallManagerAssumption
<1> QED
  BY <1>1

LEMMA CountDown ==
    ASSUME callbacks \in [Endpoints -> 0 .. MaxCallbacks], NEW e \in Endpoints,
           callbacks[e] > 0
    PROVE  [callbacks EXCEPT ![e] = @ - 1] \in [Endpoints -> 0 .. MaxCallbacks]
<1>1. callbacks[e] - 1 \in 0 .. MaxCallbacks
  BY CallManagerAssumption
<1> QED
  BY <1>1

LEMMA NextTypesOK == IInv /\ [Next]_vars => TypesOK'
<1> SUFFICES ASSUME IInv, [Next]_vars PROVE TypesOK'
  OBVIOUS
<1> TypeOK /\ CallOK /\ StatesOK
  BY DEF IInv
<1>1. ASSUME NEW t \in Threads, StartCall(t) PROVE TypesOK'
  <2>1. CallOK' /\ StatesOK'
    BY <1>1, NewCallTypes DEF StartCall, CS!NewOutgoingCall, CS!Directions, CS!MediaTypes
  <2>2. /\ pc' \in [Threads -> Labels] /\ local' \in [Threads -> Locals]
        /\ ackRelays' \in SUBSET Endpoints
    BY <1>1, GotoType DEF StartCall, TypeOK, Labels
  <2>3. /\ callKey' \in BOOLEAN /\ relayData' \in SUBSET Endpoints
        /\ codec' \in BOOLEAN /\ srtp' \in Keys /\ sendLoop' \in BOOLEAN
    BY <1>1 DEF StartCall, TypeOK
  <2>4. attached' \in BOOLEAN /\ detaching' \in BOOLEAN /\ reported' \in CS!States
    BY <1>1 DEF StartCall, TypeOK, ctlVars
  <2>5. conn' \in [Endpoints -> ConnStates] /\ callbacks' \in [Endpoints -> 0 .. MaxCallbacks]
    BY <1>1 DEF StartCall, TypeOK, relayVars
  <2> QED
    BY <2>1, <2>2, <2>3, <2>4, <2>5 DEF TypesOK, TypeOK, CallOK
<1>2. ASSUME NEW t \in Threads, OfferFails(t) PROVE TypesOK'
  BY <1>2, FinishType, CallStays
     DEF OfferFails, TypesOK, TypeOK, callVars, mediaVars, relayVars
<1>3. ASSUME NEW t \in Threads, OfferAnswered(t) PROVE TypesOK'
  <2>1. CallOK' /\ StatesOK'
    BY <1>3, ApplyEffect DEF OfferAnswered, AttemptedTypes
  <2>2. /\ pc' \in [Threads -> Labels] /\ local' \in [Threads -> Locals]
        /\ ackRelays' \in SUBSET Endpoints
    BY <1>3, FinishType DEF OfferAnswered, TypeOK
  <2>3. /\ callKey' \in BOOLEAN /\ relayData' \in SUBSET Endpoints
        /\ codec' \in BOOLEAN /\ srtp' \in Keys /\ sendLoop' \in BOOLEAN
    BY <1>3 DEF OfferAnswered, TypeOK, mediaVars
  <2>4. attached' \in BOOLEAN /\ detaching' \in BOOLEAN /\ reported' \in CS!States
    BY <1>3, <2>1, EmitStateType DEF OfferAnswered
  <2>5. conn' \in [Endpoints -> ConnStates] /\ callbacks' \in [Endpoints -> 0 .. MaxCallbacks]
    BY <1>3 DEF OfferAnswered, TypeOK, relayVars
  <2> QED
    BY <2>1, <2>2, <2>3, <2>4, <2>5 DEF TypesOK, TypeOK, CallOK
<1>4. ASSUME NEW t \in Threads, HandleCallAck(t) PROVE TypesOK'
  <2>1. CallOK' /\ StatesOK'
    BY <1>4, CallStays DEF HandleCallAck, callVars
  <2>2. /\ pc' \in [Threads -> Labels] /\ local' \in [Threads -> Locals]
        /\ ackRelays' \in SUBSET Endpoints
    BY <1>4, GotoType DEF HandleCallAck, TypeOK, Labels, Locals
  <2>3. /\ callKey' \in BOOLEAN /\ relayData' \in SUBSET Endpoints
        /\ codec' \in BOOLEAN /\ srtp' \in Keys /\ sendLoop' \in BOOLEAN
    BY <1>4 DEF HandleCallAck, TypeOK, InitSrtpKeys, Keys
  <2>4. attached' \in BOOLEAN /\ detaching' \in BOOLEAN /\ reported' \in CS!States
    BY <1>4 DEF HandleCallAck, TypeOK, ctlVars
  <2>5. conn' \in [Endpoints -> ConnStates] /\ callbacks' \in [Endpoints -> 0 .. MaxCallbacks]
    BY <1>4 DEF HandleCallAck, TypeOK, relayVars
  <2> QED
    BY <2>1, <2>2, <2>3, <2>4, <2>5 DEF TypesOK, TypeOK, CallOK
<1>5. ASSUME NEW t \in Threads, ConnectRelays(t) PROVE TypesOK'
  BY <1>5, FinishType, ConfigureType, CallStays
     DEF ConnectRelays, TypesOK, TypeOK, callVars, mediaVars, ctlVars
<1>6. ASSUME NEW t \in Threads, HandleCallOffer(t) PROVE TypesOK'
  <2>1. CallOK' /\ StatesOK'
    BY <1>6, NewCallTypes DEF HandleCallOffer, CS!NewIncomingCall, CS!Directions
  <2>2. /\ pc' \in [Threads -> Labels] /\ local' \in [Threads -> Locals]
        /\ ackRelays' \in SUBSET Endpoints
    BY <1>6, GotoType DEF HandleCallOffer, TypeOK, Labels
  <2>3. /\ callKey' \in BOOLEAN /\ relayData' \in SUBSET Endpoints
        /\ codec' \in BOOLEAN /\ srtp' \in Keys /\ sendLoop' \in BOOLEAN
    BY <1>6 DEF HandleCallOffer, TypeOK
  <2>4. attached' \in BOOLEAN /\ detaching' \in BOOLEAN /\ reported' \in CS!States
    BY <1>6 DEF HandleCallOffer, TypeOK, ctlVars
  <2>5. conn' \in [Endpoints -> ConnStates] /\ callbacks' \in [Endpoints -> 0 .. MaxCallbacks]
    BY <1>6 DEF HandleCallOffer, TypeOK, relayVars
  <2> QED
    BY <2>1, <2>2, <2>3, <2>4, <2>5 DEF TypesOK, TypeOK, CallOK
<1>7. ASSUME NEW t \in Threads, OfferNotify(t) PROVE TypesOK'
  <2>1. CallOK' /\ StatesOK'
    BY <1>7, CallStays DEF OfferNotify, callVars
  <2>2. /\ pc' \in [Threads -> Labels] /\ local' \in [Threads -> Locals]
        /\ ackRelays' \in SUBSET Endpoints
    <3>1. pc' \in [Threads -> Labels]
      BY <1>7, GotoType DEF OfferNotify, TypeOK, Labels
    <3>2. State \in CS!States
      BY DEF TypeOK, CallOK, State, CS!Calls
    <3>3. local' \in [Threads -> Locals]
      BY <1>7, <3>2 DEF OfferNotify, TypeOK, Locals
    <3> QED
      BY <1>7, <3>1, <3>3 DEF OfferNotify, TypeOK
  <2>3. /\ callKey' \in BOOLEAN /\ relayData' \in SUBSET Endpoints
        /\ codec' \in BOOLEAN /\ srtp' \in Keys /\ sendLoop' \in BOOLEAN
    BY <1>7 DEF OfferNotify, TypeOK, callVars, mediaVars
  <2>4. attached' \in BOOLEAN /\ detaching' \in BOOLEAN /\ reported' \in CS!States
    BY <1>7 DEF OfferNotify, TypeOK, ctlVars
  <2>5. conn' \in [Endpoints -> ConnStates] /\ callbacks' \in [Endpoints -> 0 .. MaxCallbacks]
    BY <1>7 DEF OfferNotify, TypeOK, relayVars
  <2> QED
    BY <2>1, <2>2, <2>3, <2>4, <2>5 DEF TypesOK, TypeOK, CallOK
<1>8. ASSUME NEW t \in Threads, OfferReport(t) PROVE TypesOK'
  <2>1. CallOK' /\ StatesOK'
    BY <1>8, CallStays DEF OfferReport, callVars
  <2>2. /\ pc' \in [Threads -> Labels] /\ local' \in [Threads -> Locals]
        /\ ackRelays' \in SUBSET Endpoints
    BY <1>8, GotoType DEF OfferReport, TypeOK, Labels
  <2>3. /\ callKey' \in BOOLEAN /\ relayData' \in SUBSET Endpoints
        /\ codec' \in BOOLEAN /\ srtp' \in Keys /\ sendLoop' \in BOOLEAN
    BY <1>8 DEF OfferReport, TypeOK, callVars, mediaVars
  <2>4. attached' \in BOOLEAN /\ detaching' \in BOOLEAN /\ reported' \in CS!States
    BY <1>8 DEF OfferReport, TypeOK, Locals
  <2>5. conn' \in [Endpoints -> ConnStates] /\ callbacks' \in [Endpoints -> 0 .. MaxCallbacks]
    BY <1>8 DEF OfferReport, TypeOK, relayVars
  <2> QED
    BY <2>1, <2>2, <2>3, <2>4, <2>5 DEF TypesOK, TypeOK, CallOK
<1>9. ASSUME NEW t \in Threads, OfferEmit(t) PROVE TypesOK'
  <2>1. CallOK' /\ StatesOK'
    BY <1>9, CallStays DEF OfferEmit, callVars
  <2>2. /\ pc' \in [Threads -> Labels] /\ local' \in [Threads -> Locals]
        /\ ackRelays' \in SUBSET Endpoints
    BY <1>9, FinishType DEF OfferEmit, TypeOK
  <2>3. /\ callKey' \in BOOLEAN /\ relayData' \in SUBSET Endpoints
        /\ codec' \in BOOLEAN /\ srtp' \in Keys /\ sendLoop' \in BOOLEAN
    BY <1>9 DEF OfferEmit, TypeOK, callVars, mediaVars
  <2>4. attached' \in BOOLEAN /\ detaching' \in BOOLEAN /\ reported' \in CS!States
    BY <1>9, <2>1, EmitStateType DEF OfferEmit
  <2>5. conn' \in [Endpoints -> ConnStates] /\ callbacks' \in [Endpoints -> 0 .. MaxCallbacks]
    BY <1>9 DEF OfferEmit, TypeOK, relayVars
  <2> QED
    BY <2>1, <2>2, <2>3, <2>4, <2>5 DEF TypesOK, TypeOK, CallOK
<1>10. ASSUME NEW t \in Threads, Fetch(t) PROVE TypesOK'
  BY <1>10, GotoType, CallStays
     DEF Fetch, TypesOK, TypeOK, Labels, callVars, mediaVars, ctlVars, relayVars
<1>11. ASSUME NEW t \in Threads, ReturnEarly(t) PROVE TypesOK'
  BY <1>11, FinishType, CallStays
     DEF ReturnEarly, TypesOK, TypeOK, callVars, mediaVars, ctlVars, relayVars
<1>12. ASSUME NEW t \in Threads, AcceptCall(t) PROVE TypesOK'
  <2>1. CallOK' /\ StatesOK'
    BY <1>12, ApplyEffect DEF AcceptCall, AttemptedTypes
  <2>2. /\ pc' \in [Threads -> Labels] /\ local' \in [Threads -> Locals]
        /\ ackRelays' \in SUBSET Endpoints
    BY <1>12, GotoType, FinishType DEF AcceptCall, TypeOK, Labels, Locals
  <2>3. /\ callKey' \in BOOLEAN /\ relayData' \in SUBSET Endpoints
        /\ codec' \in BOOLEAN /\ srtp' \in Keys /\ sendLoop' \in BOOLEAN
    BY <1>12 DEF AcceptCall, TypeOK, mediaVars
  <2>4. attached' \in BOOLEAN /\ detaching' \in BOOLEAN /\ reported' \in CS!States
    BY <1>12, <2>1, EmitStateType DEF AcceptCall
  <2>5. conn' \in [Endpoints -> ConnStates] /\ callbacks' \in [Endpoints -> 0 .. MaxCallbacks]
    BY <1>12 DEF AcceptCall, TypeOK, relayVars
  <2> QED
    BY <2>1, <2>2, <2>3, <2>4, <2>5 DEF TypesOK, TypeOK, CallOK
<1>13. ASSUME NEW t \in Threads, SetupIncomingMedia(t) PROVE TypesOK'
  <2>1. CallOK' /\ StatesOK'
    BY <1>13, CallStays DEF SetupIncomingMedia, callVars
  <2>2. /\ pc' \in [Threads -> Labels] /\ local' \in [Threads -> Locals]
        /\ ackRelays' \in SUBSET Endpoints
    BY <1>13, GotoType DEF SetupIncomingMedia, TypeOK, Labels
  <2>3. /\ callKey' \in BOOLEAN /\ relayData' \in SUBSET Endpoints
        /\ codec' \in BOOLEAN /\ srtp' \in Keys /\ sendLoop' \in BOOLEAN
    BY <1>13 DEF SetupIncomingMedia, TypeOK, callVars, InitSrtpKeys, Keys
  <2>4. attached' \in BOOLEAN /\ detaching' \in BOOLEAN /\ reported' \in CS!States
    BY <1>13 DEF SetupIncomingMedia, TypeOK, ctlVars
  <2>5. conn' \in [Endpoints -> ConnStates] /\ callbacks' \in [Endpoints -> 0 .. MaxCallbacks]
    BY <1>13 DEF SetupIncomingMedia, TypeOK, relayVars
  <2> QED
    BY <2>1, <2>2, <2>3, <2>4, <2>5 DEF TypesOK, TypeOK, CallOK
<1>14. ASSUME NEW t \in Threads, AcceptConnect(t) PROVE TypesOK'
  BY <1>14, FinishType, ConfigureType, CallStays
     DEF AcceptConnect, TypesOK, TypeOK, callVars, mediaVars, ctlVars
<1>15. ASSUME NEW t \in Threads, EndCall(t) PROVE TypesOK'
  <2>1. CallOK' /\ StatesOK'
    BY <1>15, ApplyEffect DEF EndCall, AttemptedTypes
  <2>2. /\ pc' \in [Threads -> Labels] /\ local' \in [Threads -> Locals]
        /\ ackRelays' \in SUBSET Endpoints
    BY <1>15, GotoType DEF EndCall, TypeOK, Labels
  <2>3. /\ callKey' \in BOOLEAN /\ relayData' \in SUBSET Endpoints
        /\ codec' \in BOOLEAN /\ srtp' \in Keys /\ sendLoop' \in BOOLEAN
    BY <1>15 DEF EndCall, TypeOK, mediaVars
  <2>4. attached' \in BOOLEAN /\ detaching' \in BOOLEAN /\ reported' \in CS!States
    BY <1>15, <2>1, EmitStateType DEF EndCall
  <2>5. conn' \in [Endpoints -> ConnStates] /\ callbacks' \in [Endpoints -> 0 .. MaxCallbacks]
    BY <1>15 DEF EndCall, TypeOK, relayVars
  <2> QED
    BY <2>1, <2>2, <2>3, <2>4, <2>5 DEF TypesOK, TypeOK, CallOK
<1>16. ASSUME NEW t \in Threads, HandleCallTerminate(t) PROVE TypesOK'
  <2>1. CallOK' /\ StatesOK'
    BY <1>16, ApplyEffect DEF HandleCallTerminate, AttemptedTypes
  <2>2. /\ pc' \in [Threads -> Labels] /\ local' \in [Threads -> Locals]
        /\ ackRelays' \in SUBSET Endpoints
    BY <1>16, GotoType DEF HandleCallTerminate, TypeOK, Labels
  <2>3. /\ callKey' \in BOOLEAN /\ relayData' \in SUBSET Endpoints
        /\ codec' \in BOOLEAN /\ srtp' \in Keys /\ sendLoop' \in BOOLEAN
    BY <1>16 DEF HandleCallTerminate, TypeOK, mediaVars
  <2>4. attached' \in BOOLEAN /\ detaching' \in BOOLEAN /\ reported' \in CS!States
    BY <1>16, <2>1, EmitStateType DEF HandleCallTerminate
  <2>5. conn' \in [Endpoints -> ConnStates] /\ callbacks' \in [Endpoints -> 0 .. MaxCallbacks]
    BY <1>16 DEF HandleCallTerminate, TypeOK, relayVars
  <2> QED
    BY <2>1, <2>2, <2>3, <2>4, <2>5 DEF TypesOK, TypeOK, CallOK
<1>17. ASSUME NEW t \in Threads, OnEnded(t) PROVE TypesOK'
  <2>1. CallOK' /\ StatesOK'
    BY <1>17, CallStays DEF OnEnded, callVars
  <2>2. /\ pc' \in [Threads -> Labels] /\ local' \in [Threads -> Locals]
        /\ ackRelays' \in SUBSET Endpoints
    BY <1>17, GotoType DEF OnEnded, TypeOK, Labels
  <2>3. /\ callKey' \in BOOLEAN /\ relayData' \in SUBSET Endpoints
        /\ codec' \in BOOLEAN /\ srtp' \in Keys /\ sendLoop' \in BOOLEAN
    BY <1>17 DEF OnEnded, TypeOK, callVars, mediaVars
  <2>4. attached' \in BOOLEAN /\ detaching' \in BOOLEAN /\ reported' \in CS!States
    BY <1>17 DEF OnEnded, TypeOK, CallOK, State, CS!Calls
  <2>5. conn' \in [Endpoints -> ConnStates] /\ callbacks' \in [Endpoints -> 0 .. MaxCallbacks]
    BY <1>17 DEF OnEnded, TypeOK, relayVars
  <2> QED
    BY <2>1, <2>2, <2>3, <2>4, <2>5 DEF TypesOK, TypeOK, CallOK
<1>18. ASSUME NEW t \in Threads, CleanupMedia(t) PROVE TypesOK'
  <2>1. CallOK' /\ StatesOK'
    BY <1>18, CallStays DEF CleanupMedia, TearDown, callVars
  <2>2. /\ pc' \in [Threads -> Labels] /\ local' \in [Threads -> Locals]
        /\ ackRelays' \in SUBSET Endpoints
    BY <1>18, GotoType DEF CleanupMedia, TypeOK, TearDown, Labels
  <2>3. /\ callKey' \in BOOLEAN /\ relayData' \in SUBSET Endpoints
        /\ codec' \in BOOLEAN /\ srtp' \in Keys /\ sendLoop' \in BOOLEAN
    BY <1>18 DEF CleanupMedia, TearDown, TypeOK, callVars, Keys
  <2>4. attached' \in BOOLEAN /\ detaching' \in BOOLEAN /\ reported' \in CS!States
    BY <1>18 DEF CleanupMedia, TearDown, TypeOK, ctlVars
  <2>5. conn' \in [Endpoints -> ConnStates] /\ callbacks' \in [Endpoints -> 0 .. MaxCallbacks]
    BY <1>18 DEF CleanupMedia, TearDown, TypeOK, relayVars
  <2> QED
    BY <2>1, <2>2, <2>3, <2>4, <2>5 DEF TypesOK, TypeOK, CallOK
<1>19. ASSUME NEW t \in Threads, CleanupRelay(t) PROVE TypesOK'
  <2>1. CallOK' /\ StatesOK'
    BY <1>19, CallStays DEF CleanupRelay, callVars
  <2>2. /\ pc' \in [Threads -> Labels] /\ local' \in [Threads -> Locals]
        /\ ackRelays' \in SUBSET Endpoints
    BY <1>19, FinishType DEF CleanupRelay, TypeOK
  <2>3. /\ callKey' \in BOOLEAN /\ relayData' \in SUBSET Endpoints
        /\ codec' \in BOOLEAN /\ srtp' \in Keys /\ sendLoop' \in BOOLEAN
    BY <1>19 DEF CleanupRelay, TypeOK, callVars, mediaVars
  <2>4. attached' \in BOOLEAN /\ detaching' \in BOOLEAN /\ reported' \in CS!States
    BY <1>19 DEF CleanupRelay, TypeOK, ctlVars
  <2>5. conn' \in [Endpoints -> ConnStates] /\ callbacks' \in [Endpoints -> 0 .. MaxCallbacks]
    BY <1>19 DEF CleanupRelay, TypeOK, ConnStates
  <2> QED
    BY <2>1, <2>2, <2>3, <2>4, <2>5 DEF TypesOK, TypeOK, CallOK
<1>20. ASSUME NEW t \in Threads, HandleCallAccept(t) PROVE TypesOK'
  <2>1. CallOK' /\ StatesOK'
    BY <1>20, CallStays DEF HandleCallAccept, callVars
  <2>2. /\ pc' \in [Threads -> Labels] /\ local' \in [Threads -> Locals]
        /\ ackRelays' \in SUBSET Endpoints
    BY <1>20, GotoType DEF HandleCallAccept, TypeOK, Labels
  <2>3. /\ callKey' \in BOOLEAN /\ relayData' \in SUBSET Endpoints
        /\ codec' \in BOOLEAN /\ srtp' \in Keys /\ sendLoop' \in BOOLEAN
    BY <1>20 DEF HandleCallAccept, TypeOK, callVars, Keys
  <2>4. attached' \in BOOLEAN /\ detaching' \in BOOLEAN /\ reported' \in CS!States
    BY <1>20 DEF HandleCallAccept, TypeOK, ctlVars
  <2>5. conn' \in [Endpoints -> ConnStates] /\ callbacks' \in [Endpoints -> 0 .. MaxCallbacks]
    BY <1>20 DEF HandleCallAccept, TypeOK, relayVars
  <2> QED
    BY <2>1, <2>2, <2>3, <2>4, <2>5 DEF TypesOK, TypeOK, CallOK
<1>21. ASSUME NEW t \in Threads, RemoteAccept(t) PROVE TypesOK'
  <2>1. CallOK' /\ StatesOK'
    BY <1>21, ApplyEffect DEF RemoteAccept, MakeConnecting, AttemptedTypes
  <2> HasConnection \in BOOLEAN
    BY DEF HasConnection
  <2>2. /\ pc' \in [Threads -> Labels] /\ local' \in [Threads -> Locals]
        /\ ackRelays' \in SUBSET Endpoints
    <3>1. /\ Goto(t, "accepted") /\ ackRelays' = ackRelays
          /\ local' = [local EXCEPT ![t].hasConn = HasConnection, ![t].relays = relayData]
      BY <1>21 DEF RemoteAccept, MakeConnecting
    <3>2. pc' \in [Threads -> Labels]
      BY <3>1, GotoType DEF TypeOK, Labels
    <3>3. relayData \in SUBSET Endpoints /\ local \in [Threads -> Locals] /\ ackRelays \in SUBSET Endpoints
      BY Zenon DEF TypeOK
    <3>4. local' \in [Threads -> Locals]
      BY <3>1, <3>3 DEF Locals
    <3> QED
      BY <3>1, <3>2, <3>3, <3>4, Zenon
  <2>3. /\ callKey' \in BOOLEAN /\ relayData' \in SUBSET Endpoints
        /\ codec' \in BOOLEAN /\ srtp' \in Keys /\ sendLoop' \in BOOLEAN
    BY <1>21 DEF RemoteAccept, MakeConnecting, TypeOK, InitSrtpKeys, Keys
  <2>4. attached' \in BOOLEAN /\ detaching' \in BOOLEAN /\ reported' \in CS!States
    BY <1>21, <2>1, EmitStateType DEF RemoteAccept, MakeConnecting
  <2>5. conn' \in [Endpoints -> ConnStates] /\ callbacks' \in [Endpoints -> 0 .. MaxCallbacks]
    BY <1>21 DEF RemoteAccept, MakeConnecting, TypeOK, relayVars
  <2> QED
    BY <2>1, <2>2, <2>3, <2>4, <2>5 DEF TypesOK, TypeOK, CallOK
<1>22. ASSUME NEW t \in Threads, AcceptedPromotes(t) PROVE TypesOK'
  <2>1. CallOK' /\ StatesOK'
    BY <1>22, MediaConnectedEffect DEF AcceptedPromotes
  <2>2. /\ pc' \in [Threads -> Labels] /\ local' \in [Threads -> Locals]
        /\ ackRelays' \in SUBSET Endpoints
    BY <1>22, FinishType DEF AcceptedPromotes, TypeOK
  <2>3. /\ callKey' \in BOOLEAN /\ relayData' \in SUBSET Endpoints
        /\ codec' \in BOOLEAN /\ srtp' \in Keys /\ sendLoop' \in BOOLEAN
    BY <1>22, MediaConnectedEffect DEF AcceptedPromotes, TypeOK
  <2>4. attached' \in BOOLEAN /\ detaching' \in BOOLEAN /\ reported' \in CS!States
    BY <1>22, MediaConnectedEffect DEF AcceptedPromotes, TypeOK
  <2>5. conn' \in [Endpoints -> ConnStates] /\ callbacks' \in [Endpoints -> 0 .. MaxCallbacks]
    BY <1>22 DEF AcceptedPromotes, TypeOK, relayVars
  <2> QED
    BY <2>1, <2>2, <2>3, <2>4, <2>5 DEF TypesOK, TypeOK, CallOK
<1>23. ASSUME NEW t \in Threads, AcceptedConnects(t) PROVE TypesOK'
  BY <1>23, FinishType, ConfigureType, CallStays
     DEF AcceptedConnects, TypesOK, TypeOK, callVars, mediaVars, ctlVars
<1>24. ASSUME NEW t \in Threads, HandleCallTransport(t) PROVE TypesOK'
  <2>1. CallOK' /\ StatesOK'
    BY <1>24, CallStays DEF HandleCallTransport, callVars
  <2>2. /\ pc' \in [Threads -> Labels] /\ local' \in [Threads -> Locals]
        /\ ackRelays' \in SUBSET Endpoints
    BY <1>24, GotoType DEF HandleCallTransport, TypeOK, Labels, Locals
  <2>3. /\ callKey' \in BOOLEAN /\ relayData' \in SUBSET Endpoints
        /\ codec' \in BOOLEAN /\ srtp' \in Keys /\ sendLoop' \in BOOLEAN
    BY <1>24 DEF HandleCallTransport, TypeOK, callVars, mediaVars
  <2>4. attached' \in BOOLEAN /\ detaching' \in BOOLEAN /\ reported' \in CS!States
    BY <1>24 DEF HandleCallTransport, TypeOK, ctlVars
  <2>5. conn' \in [Endpoints -> ConnStates] /\ callbacks' \in [Endpoints -> 0 .. MaxCallbacks]
    BY <1>24 DEF HandleCallTransport, TypeOK, relayVars
  <2> QED
    BY <2>1, <2>2, <2>3, <2>4, <2>5 DEF TypesOK, TypeOK, CallOK
<1>25. ASSUME NEW t \in Threads, StoreEndpoints(t) PROVE TypesOK'
  <2>1. CallOK' /\ StatesOK'
    BY <1>25, CallStays DEF StoreEndpoints
  <2>2. /\ pc' \in [Threads -> Labels] /\ local' \in [Threads -> Locals]
        /\ ackRelays' \in SUBSET Endpoints
    BY <1>25, GotoType DEF StoreEndpoints, TypeOK, Labels
  <2>3. /\ callKey' \in BOOLEAN /\ relayData' \in SUBSET Endpoints
        /\ codec' \in BOOLEAN /\ srtp' \in Keys /\ sendLoop' \in BOOLEAN
    BY <1>25 DEF StoreEndpoints, TypeOK, mediaVars, Locals
  <2>4. attached' \in BOOLEAN /\ detaching' \in BOOLEAN /\ reported' \in CS!States
    BY <1>25 DEF StoreEndpoints, TypeOK, ctlVars
  <2>5. conn' \in [Endpoints -> ConnStates] /\ callbacks' \in [Endpoints -> 0 .. MaxCallbacks]
    BY <1>25 DEF StoreEndpoints, TypeOK, relayVars
  <2> QED
    BY <2>1, <2>2, <2>3, <2>4, <2>5 DEF TypesOK, TypeOK, CallOK
<1>26. ASSUME NEW e \in Endpoints, RelayOpens(e) PROVE TypesOK'
  <2>1. CallOK' /\ StatesOK'
    BY <1>26, CallStays DEF RelayOpens, callVars
  <2>2. /\ pc' \in [Threads -> Labels] /\ local' \in [Threads -> Locals]
        /\ ackRelays' \in SUBSET Endpoints
    BY <1>26 DEF RelayOpens, TypeOK, thrVars
  <2>3. /\ callKey' \in BOOLEAN /\ relayData' \in SUBSET Endpoints
        /\ codec' \in BOOLEAN /\ srtp' \in Keys /\ sendLoop' \in BOOLEAN
    BY <1>26 DEF RelayOpens, TypeOK, callVars, mediaVars
  <2>4. attached' \in BOOLEAN /\ detaching' \in BOOLEAN /\ reported' \in CS!States
    BY <1>26 DEF RelayOpens, TypeOK, ctlVars
  <2>5. conn' \in [Endpoints -> ConnStates] /\ callbacks' \in [Endpoints -> 0 .. MaxCallbacks]
    BY <1>26, CallManagerAssumption, CountUp DEF RelayOpens, TypeOK, ConnStates
  <2> QED
    BY <2>1, <2>2, <2>3, <2>4, <2>5 DEF TypesOK, TypeOK, CallOK
<1>27. ASSUME NEW e \in Endpoints, OnRelayConnected(e) PROVE TypesOK'
  <2>1. CallOK' /\ StatesOK'
    BY <1>27, MediaConnectedEffect DEF OnRelayConnected
  <2>2. /\ pc' \in [Threads -> Labels] /\ local' \in [Threads -> Locals]
        /\ ackRelays' \in SUBSET Endpoints
    BY <1>27 DEF OnRelayConnected, TypeOK, thrVars
  <2>3. /\ callKey' \in BOOLEAN /\ relayData' \in SUBSET Endpoints
        /\ codec' \in BOOLEAN /\ srtp' \in Keys /\ sendLoop' \in BOOLEAN
    BY <1>27, MediaConnectedEffect DEF OnRelayConnected, TypeOK
  <2>4. attached' \in BOOLEAN /\ detaching' \in BOOLEAN /\ reported' \in CS!States
    BY <1>27, MediaConnectedEffect DEF OnRelayConnected, TypeOK
  <2>5. conn' \in [Endpoints -> ConnStates] /\ callbacks' \in [Endpoints -> 0 .. MaxCallbacks]
    BY <1>27, CallManagerAssumption, CountDown DEF OnRelayConnected, TypeOK
  <2> QED
    BY <2>1, <2>2, <2>3, <2>4, <2>5 DEF TypesOK, TypeOK, CallOK
<1>28. ASSUME NEW e \in Endpoints, RelayFails(e) PROVE TypesOK'
  <2>1. CallOK' /\ StatesOK'
    BY <1>28, CallStays DEF RelayFails, callVars
  <2>2. /\ pc' \in [Threads -> Labels] /\ local' \in [Threads -> Locals]
        /\ ackRelays' \in SUBSET Endpoints
    BY <1>28 DEF RelayFails, TypeOK, thrVars
  <2>3. /\ callKey' \in BOOLEAN /\ relayData' \in SUBSET Endpoints
        /\ codec' \in BOOLEAN /\ srtp' \in Keys /\ sendLoop' \in BOOLEAN
    BY <1>28 DEF RelayFails, TypeOK, callVars, mediaVars
  <2>4. attached' \in BOOLEAN /\ detaching' \in BOOLEAN /\ reported' \in CS!States
    BY <1>28 DEF RelayFails, TypeOK, ctlVars
  <2>5. conn' \in [Endpoints -> ConnStates] /\ callbacks' \in [Endpoints -> 0 .. MaxCallbacks]
    BY <1>28 DEF RelayFails, TypeOK, ConnStates
  <2> QED
    BY <2>1, <2>2, <2>3, <2>4, <2>5 DEF TypesOK, TypeOK, CallOK
<1>29. CASE Detach
  BY <1>29, CallStays
     DEF Detach, TypesOK, TypeOK, callVars, mediaVars, relayVars, thrVars
<1>30. CASE UNCHANGED vars
  BY <1>30, CallStays
     DEF vars, TypesOK, TypeOK, callVars, mediaVars, ctlVars, relayVars, thrVars
<1> QED
  BY <1>1, <1>2, <1>3, <1>4, <1>5, <1>6, <1>7, <1>8, <1>9, <1>10, <1>11,
     <1>12, <1>13, <1>14, <1>15, <1>16, <1>17, <1>18, <1>19, <1>20, <1>21,
     <1>22, <1>23, <1>24, <1>25, <1>26, <1>27, <1>28, <1>29, <1>30 DEF Next,
     Arrive, Step

-----------------------------------------------------------------------------
(* The safety invariants.                                                  *)

Safety ==
    /\ FreshOK
    /\ TearingDown
    /\ NoLostPromotion
    /\ OutgoingActiveHasKeys
    /\ EndedReleasesMedia
    /\ SendLoopNeedsMedia

\* What each transition the handlers attempt means for the invariants.
LEMMA TransitionFacts ==
    ASSUME CallOK, StatesOK, NEW type \in AttemptedTypes, Apply(type)
    PROVE  /\ call'.dir = call.dir
           /\ State' = "none" <=> State = "none"
           /\ State = "ended" => State' = "ended"
           /\ type # "media_connected" => call'.connectedAt = call.connectedAt
           /\ type # "media_connected" /\ State' = "active" => State = "active"
           /\ State' = "connecting" => \/ State = "connecting"
                                       \/ type = "remote_accepted"
                                       \/ call.dir = "incoming"
           /\ type = "terminated" /\ State # "none" => State' = "ended"
           /\ State' = "ended" => State = "ended" \/ type = "terminated"
<1>1. /\ CS!CanApply(call, "offer_sent") <=> State = "initiating"
      /\ CS!CanApply(call, "local_accepted") <=> State = "incoming_ringing"
      /\ CS!CanApply(call, "remote_accepted") <=> State = "ringing"
      /\ CS!CanApply(call, "media_connected") <=> State = "connecting"
      /\ CS!CanApply(call, "terminated") <=> State \notin {"none", "ended"}
  BY DEF CallOK, CS!CanApply, CS!Sources, CS!Calls, CS!States, State
<1> QED
  BY <1>1, ApplyEffect DEF AttemptedTypes, CS!Target, StatesOK, State

\* The handlers' steps that touch neither the call nor its media.
Quiet(t) ==
    \/ OfferFails(t) \/ ConnectRelays(t) \/ OfferNotify(t) \/ OfferReport(t)
    \/ OfferEmit(t) \/ Fetch(t) \/ ReturnEarly(t) \/ AcceptConnect(t) \/ OnEnded(t)
    \/ CleanupRelay(t) \/ AcceptedConnects(t) \/ HandleCallTransport(t)
    \/ StoreEndpoints(t)

\* They open no relay, drop no promotion, and neither begin nor finish the
\* clean-up of an ended call.
LEMMA QuietEffect ==
    ASSUME TypeOK, NEW t \in Threads, Quiet(t)
    PROVE  /\ UNCHANGED <<call, callKey, codec, srtp, sendLoop, callbacks>>
           /\ HasConnection' => HasConnection
           /\ pc[t] = "accepted" => ~local[t].hasConn
           /\ pc'[t] \in {"ended", "cleanup_media"} <=> pc[t] \in {"ended", "cleanup_media"}
           /\ pc'[t] = "cleanup_relay" => pc[t] \in {"ended", "cleanup_media", "cleanup_relay"}
           /\ \A x \in Threads \ {t} : pc'[x] = pc[x] /\ local'[x] = local[x]
<1> USE DEF Quiet, OfferFails, ConnectRelays, OfferNotify, OfferReport, OfferEmit,
            Fetch, ReturnEarly, AcceptConnect, OnEnded, CleanupRelay,
            AcceptedConnects, HandleCallTransport, StoreEndpoints
<1>1. UNCHANGED <<call, callKey, codec, srtp, sendLoop, callbacks>>
  BY DEF callVars, mediaVars, relayVars
<1>2. HasConnection' => HasConnection
  BY DEF TypeOK, Fetched, relayVars, ConfigureRelays, HasConnection
<1>3. pc[t] = "accepted" => ~local[t].hasConn
  BY DEF TypeOK, Fetched, Goto, Finish
<1>5. OnEnded(t) \/ (pc[t] \notin {"ended", "cleanup_media"}
                     /\ pc'[t] \notin {"ended", "cleanup_media", "cleanup_relay"})
  BY DEF TypeOK, Fetched, Goto, Finish
<1>6. OnEnded(t) => pc[t] = "ended" /\ pc'[t] = "cleanup_media"
  BY DEF TypeOK, OnEnded, Goto
<1>4. ASSUME NEW x \in Threads \ {t} PROVE pc'[x] = pc[x] /\ local'[x] = local[x]
  BY DEF TypeOK, Fetched, Goto, Finish, thrVars
<1> QED
  BY <1>1, <1>2, <1>3, <1>4, <1>5, <1>6

LEMMA NextSafety == IInv /\ [Next]_vars => Safety'
<1> SUFFICES ASSUME IInv, [Next]_vars PROVE Safety'
  OBVIOUS
<1> TypeOK /\ CallOK /\ StatesOK /\ Safety
  BY DEF IInv, Safety
<1>1. ASSUME NEW t \in Threads, StartCall(t) PROVE Safety'
  BY <1>1 DEF StartCall, CS!NewOutgoingCall, CS!NewCall, CS!Unset, relayVars,
     Safety, TypeOK, State, Goto, FreshOK, TearingDown, NoLostPromotion,
     PromotionPending, HasConnection, OutgoingActiveHasKeys,
     EndedReleasesMedia, SendLoopNeedsMedia
<1>2. ASSUME NEW t \in Threads, OfferAnswered(t) PROVE Safety'
  BY <1>2, TransitionFacts DEF OfferAnswered, AttemptedTypes, CS!Unset,
     mediaVars, relayVars, Finish, Safety, TypeOK, State, Goto, FreshOK,
     TearingDown, NoLostPromotion, PromotionPending, HasConnection,
     OutgoingActiveHasKeys, EndedReleasesMedia, SendLoopNeedsMedia
<1>3. ASSUME NEW t \in Threads, HandleCallAck(t) PROVE Safety'
  BY <1>3 DEF HandleCallAck, InitSrtpKeys, callVars, relayVars, Safety,
     TypeOK, State, Goto, FreshOK, TearingDown, NoLostPromotion,
     PromotionPending, HasConnection, OutgoingActiveHasKeys,
     EndedReleasesMedia, SendLoopNeedsMedia
<1>4. ASSUME NEW t \in Threads, HandleCallOffer(t) PROVE Safety'
  BY <1>4 DEF HandleCallOffer, CS!NewIncomingCall, CS!NewCall, CS!Unset,
     relayVars, Safety, TypeOK, State, Goto, FreshOK, TearingDown,
     NoLostPromotion, PromotionPending, HasConnection, OutgoingActiveHasKeys,
     EndedReleasesMedia, SendLoopNeedsMedia
<1>5. ASSUME NEW t \in Threads, AcceptCall(t) PROVE Safety'
  <2>0. /\ pc[t] = "fetched" /\ pc'[t] \in {"setup_media", "idle"}
        /\ \A x \in Threads \ {t} : pc'[x] = pc[x] /\ local'[x] = local[x]
        /\ Apply("local_accepted")
        /\ UNCHANGED <<callKey, codec, srtp, sendLoop, conn, callbacks>>
    BY <1>5 DEF AcceptCall, Fetched, Goto, Finish, TypeOK, mediaVars, relayVars
  <2>1. FreshOK'
    BY <2>0, TransitionFacts DEF AttemptedTypes, CS!Unset, Safety, TypeOK,
       State, FreshOK
  <2>2. TearingDown'
    BY <2>0, TransitionFacts DEF AttemptedTypes, CS!Unset, Safety, TypeOK,
       State, TearingDown
  <2>3. NoLostPromotion'
    BY <2>0, TransitionFacts DEF AttemptedTypes, CS!Unset, Safety, TypeOK,
       State, NoLostPromotion, PromotionPending, HasConnection
  <2>4. OutgoingActiveHasKeys'
    BY <2>0, TransitionFacts DEF AttemptedTypes, CS!Unset, Safety, TypeOK,
       State, OutgoingActiveHasKeys, FreshOK, TearingDown
  <2>5. EndedReleasesMedia'
    BY <2>0, TransitionFacts DEF AttemptedTypes, CS!Unset, Safety, TypeOK,
       State, EndedReleasesMedia, TearingDown
  <2>6. SendLoopNeedsMedia'
    BY <2>0, TransitionFacts DEF AttemptedTypes, CS!Unset, Safety, TypeOK,
       State, SendLoopNeedsMedia, FreshOK
  <2> QED
    BY <2>1, <2>2, <2>3, <2>4, <2>5, <2>6 DEF Safety
<1>6. ASSUME NEW t \in Threads, SetupIncomingMedia(t) PROVE Safety'
  BY <1>6 DEF SetupIncomingMedia, InitSrtpKeys, callVars, relayVars, Safety,
     TypeOK, State, Goto, FreshOK, TearingDown, NoLostPromotion,
     PromotionPending, HasConnection, OutgoingActiveHasKeys,
     EndedReleasesMedia, SendLoopNeedsMedia
<1>7. ASSUME NEW t \in Threads, EndCall(t) PROVE Safety'
  BY <1>7, TransitionFacts DEF EndCall, AttemptedTypes, CS!Unset, mediaVars,
     relayVars, Fetched, Safety, TypeOK, State, Goto, FreshOK, TearingDown,
     NoLostPromotion, PromotionPending, HasConnection, OutgoingActiveHasKeys,
     EndedReleasesMedia, SendLoopNeedsMedia
<1>8. ASSUME NEW t \in Threads, HandleCallTerminate(t) PROVE Safety'
  BY <1>8, TransitionFacts DEF HandleCallTerminate, AttemptedTypes, CS!Unset,
     mediaVars, relayVars, Fetched, Safety, TypeOK, State, Goto, FreshOK,
     TearingDown, NoLostPromotion, PromotionPending, HasConnection,
     OutgoingActiveHasKeys, EndedReleasesMedia, SendLoopNeedsMedia
<1>9. ASSUME NEW t \in Threads, CleanupMedia(t) PROVE Safety'
  BY <1>9 DEF CleanupMedia, TearDown, callVars, relayVars, Safety, TypeOK,
     State, Goto, FreshOK, TearingDown, NoLostPromotion, PromotionPending,
     HasConnection, OutgoingActiveHasKeys, EndedReleasesMedia,
     SendLoopNeedsMedia
<1>10. ASSUME NEW t \in Threads, HandleCallAccept(t) PROVE Safety'
  BY <1>10 DEF HandleCallAccept, Fetched, callVars, relayVars, Safety, TypeOK,
     State, Goto, FreshOK, TearingDown, NoLostPromotion, PromotionPending,
     HasConnection, OutgoingActiveHasKeys, EndedReleasesMedia,
     SendLoopNeedsMedia
<1>11. ASSUME NEW t \in Threads, RemoteAccept(t) PROVE Safety'
  BY <1>11, TransitionFacts DEF RemoteAccept, AttemptedTypes, CS!Unset,
     mediaVars, relayVars, MakeConnecting, InitSrtpKeys, Safety, TypeOK,
     State, Goto, FreshOK, TearingDown, NoLostPromotion, PromotionPending,
     HasConnection, OutgoingActiveHasKeys, EndedReleasesMedia,
     SendLoopNeedsMedia
<1>12. ASSUME NEW t \in Threads, AcceptedPromotes(t) PROVE Safety'
  BY <1>12, MediaConnectedEffect DEF AcceptedPromotes, Finish, CS!Unset,
     thrVars, relayVars, Safety, TypeOK, State, Goto, FreshOK, TearingDown,
     NoLostPromotion, PromotionPending, HasConnection, OutgoingActiveHasKeys,
     EndedReleasesMedia, SendLoopNeedsMedia
<1>13. ASSUME NEW e \in Endpoints, OnRelayConnected(e) PROVE Safety'
  <2>1. FreshOK'
    BY <1>13, MediaConnectedEffect DEF OnRelayConnected, CS!Unset, thrVars,
       relayVars, Safety, TypeOK, State, Goto, FreshOK
  <2>2. TearingDown'
    BY <1>13, MediaConnectedEffect DEF OnRelayConnected, CS!Unset, thrVars,
       relayVars, Safety, TypeOK, State, Goto, TearingDown
  <2>3. NoLostPromotion'
    BY <1>13, MediaConnectedEffect DEF OnRelayConnected, CS!Unset, thrVars,
       relayVars, Safety, TypeOK, State, Goto, NoLostPromotion,
       PromotionPending, HasConnection
  <2>4. OutgoingActiveHasKeys'
    BY <1>13, MediaConnectedEffect DEF OnRelayConnected, CS!Unset, thrVars,
       relayVars, Safety, TypeOK, State, Goto, OutgoingActiveHasKeys, FreshOK,
       TearingDown
  <2>5. EndedReleasesMedia'
    BY <1>13, MediaConnectedEffect DEF OnRelayConnected, CS!Unset, thrVars,
       relayVars, Safety, TypeOK, State, Goto, EndedReleasesMedia, TearingDown
  <2>6. SendLoopNeedsMedia'
    <3>1. CASE State = "connecting"
      BY <1>13, <3>1, MediaConnectedEffect DEF OnRelayConnected,
         SendLoopNeedsMedia, CS!Unset
    <3>2. CASE State # "connecting"
      BY <1>13, <3>2, MediaConnectedEffect DEF OnRelayConnected, Safety,
         SendLoopNeedsMedia
    <3> QED
      BY <3>1, <3>2
  <2> QED
    BY <2>1, <2>2, <2>3, <2>4, <2>5, <2>6 DEF Safety
<1>14. ASSUME NEW t \in Threads, Quiet(t) PROVE Safety'
  <2>1. FreshOK'
    BY <1>14, QuietEffect DEF Safety, TypeOK, State, FreshOK
  <2>2. TearingDown'
    BY <1>14, QuietEffect DEF Safety, TypeOK, State, TearingDown
  <2>3. NoLostPromotion'
    BY <1>14, QuietEffect DEF Safety, TypeOK, State, NoLostPromotion,
       PromotionPending
  <2>4. OutgoingActiveHasKeys'
    BY <1>14, QuietEffect DEF Safety, TypeOK, State, OutgoingActiveHasKeys,
       FreshOK, TearingDown
  <2>5. EndedReleasesMedia'
    BY <1>14, QuietEffect DEF Safety, TypeOK, State, EndedReleasesMedia,
       TearingDown
  <2>6. SendLoopNeedsMedia'
    BY <1>14, QuietEffect DEF Safety, TypeOK, State, SendLoopNeedsMedia,
       FreshOK
  <2> QED
    BY <2>1, <2>2, <2>3, <2>4, <2>5, <2>6 DEF Safety
<1>15. ASSUME NEW e \in Endpoints, RelayOpens(e) PROVE Safety'
  BY <1>15 DEF RelayOpens, callVars, mediaVars, ctlVars, thrVars, Safety,
     TypeOK, State, FreshOK, TearingDown, NoLostPromotion, PromotionPending,
     HasConnection, OutgoingActiveHasKeys, EndedReleasesMedia,
     SendLoopNeedsMedia
<1>16. ASSUME NEW e \in Endpoints, RelayFails(e) PROVE Safety'
  BY <1>16 DEF RelayFails, callVars, mediaVars, thrVars, Safety, TypeOK,
     State, FreshOK, TearingDown, NoLostPromotion, PromotionPending,
     HasConnection, OutgoingActiveHasKeys, EndedReleasesMedia,
     SendLoopNeedsMedia
<1>17. CASE Detach \/ UNCHANGED vars
  BY <1>17 DEF Detach, vars, callVars, mediaVars, relayVars, thrVars, Safety,
     TypeOK, State, FreshOK, TearingDown, NoLostPromotion, PromotionPending,
     HasConnection, OutgoingActiveHasKeys, EndedReleasesMedia,
     SendLoopNeedsMedia
<1> QED
  BY <1>1, <1>2, <1>3, <1>4, <1>5, <1>6, <1>7, <1>8, <1>9, <1>10, <1>11,
     <1>12, <1>13, <1>14, <1>15, <1>16, <1>17 DEF Next, Arrive, Step, Quiet

-----------------------------------------------------------------------------
(* The theorems.                                                           *)

THEOREM InductiveInvariant == Spec => []IInv
<1>1. IInv /\ [Next]_vars => IInv'
  BY NextTypesOK, NextSafety DEF IInv, TypesOK, Safety
<1> QED
  BY <1>1, InitIInv, PTL DEF Spec

\* Type correctness of the manager.
THEOREM TypeCorrect == Spec => []TypeOK
<1>1. IInv => TypeOK
  BY DEF IInv
<1> QED
  BY <1>1, InductiveInvariant, PTL

\* No accepted outgoing call with an open relay is left without a handler or
\* a callback that will promote it: HandleCallAccept and onRelayConnected.
THEOREM PromotionNeverLost == Spec => []NoLostPromotion
<1>1. IInv => NoLostPromotion
  BY DEF IInv
<1> QED
  BY <1>1, InductiveInvariant, PTL

\* No outgoing call is Connecting or Active without an SRTP session:
\* HandleCallAccept sets it up before anything can promote the call.
THEOREM OutgoingHasKeys == Spec => []OutgoingActiveHasKeys
<1>1. IInv => OutgoingActiveHasKeys
  BY DEF IInv
<1> QED
  BY <1>1, InductiveInvariant, PTL

\* An ended call whose cleanupMedia has run keeps no codec and no send loop.
THEOREM EndedReleases == Spec => []EndedReleasesMedia
<1>1. IInv => EndedReleasesMedia
  BY DEF IInv
<1> QED
  BY <1>1, InductiveInvariant, PTL

\* The send loop runs only for calls that became Active.
THEOREM SendLoopJustified == Spec => []SendLoopNeedsMedia
<1>1. IInv => SendLoopNeedsMedia
  BY DEF IInv
<1> QED
  BY <1>1, InductiveInvariant, PTL

-----------------------------------------------------------------------------
(* The last report of a call is its state.                                 *)

\* The labels of HandleCallOffer, which reports without the lock and then,
\* with it, once more.
Offering == {"offer_notify", "offer_report", "offer_emit"}

\* Unless an offer is still to make its closing report, the last report is
\* the state, whatever else is running.
ReportIsTrue ==
    State \notin {"none", "initiating"} /\ (\A t \in Threads : pc[t] \notin Offering)
        => reported = State

\* A step that leaves the call, the report and the offers alone.
LEMMA ReportStays ==
    ASSUME TypeOK, ReportIsTrue, UNCHANGED <<call, reported>>,
           \A t \in Threads : pc[t] \in Offering => pc'[t] \in Offering
    PROVE  ReportIsTrue'
BY DEF ReportIsTrue, State

LEMMA NextReport ==
    ASSUME TypeOK, ReportIsTrue, Next
    PROVE  ReportIsTrue'
<1> USE DEF TypeOK
<1>1. ASSUME NEW t \in Threads, StartCall(t)
      PROVE  ReportIsTrue'
  BY <1>1 DEF StartCall, ReportIsTrue, State, CS!NewOutgoingCall, CS!NewCall
<1>2. ASSUME NEW t \in Threads, HandleCallOffer(t) \/ OfferNotify(t) \/ OfferReport(t)
      PROVE  ReportIsTrue'
  <2>1. pc'[t] \in Offering
    BY <1>2 DEF HandleCallOffer, OfferNotify, OfferReport, Goto, Offering
  <2> QED
    BY <2>1 DEF ReportIsTrue
<1>3. EmitState => ReportIsTrue'
  BY DEF EmitState, ReportIsTrue, State
<1>4. ASSUME NEW t \in Threads,
             OfferAnswered(t) \/ OfferEmit(t) \/ AcceptCall(t) \/ EndCall(t)
               \/ HandleCallTerminate(t) \/ RemoteAccept(t)
      PROVE  ReportIsTrue'
  BY <1>3, <1>4 DEF OfferAnswered, OfferEmit, AcceptCall, EndCall, HandleCallTerminate,
     RemoteAccept, MakeConnecting
<1>5. ASSUME NEW t \in Threads, OnEnded(t)
      PROVE  ReportIsTrue'
  BY <1>5 DEF OnEnded, callVars, ReportIsTrue, State
\* MediaConnected reports what it changes.
<1>6. MediaConnected => EmitState \/ UNCHANGED <<call, reported>>
  BY DEF MediaConnected, callVars, ctlVars
<1>7. ASSUME NEW t \in Threads, AcceptedPromotes(t)
      PROVE  ReportIsTrue'
  <2>1. MediaConnected /\ \A u \in Threads : pc[u] \in Offering => pc'[u] \in Offering
    BY <1>7 DEF AcceptedPromotes, Finish, Goto, Offering
  <2> QED
    BY <2>1, <1>3, <1>6, ReportStays
<1>8. ASSUME NEW e \in Endpoints, OnRelayConnected(e)
      PROVE  ReportIsTrue'
  <2>1. MediaConnected /\ pc' = pc
    BY <1>8 DEF OnRelayConnected, thrVars
  <2> QED
    BY <2>1, <1>3, <1>6, ReportStays
<1>9. ASSUME NEW t \in Threads,
             \/ OfferFails(t) \/ HandleCallAck(t) \/ ConnectRelays(t) \/ Fetch(t)
             \/ ReturnEarly(t) \/ SetupIncomingMedia(t) \/ AcceptConnect(t)
             \/ CleanupMedia(t) \/ CleanupRelay(t) \/ HandleCallAccept(t)
             \/ AcceptedConnects(t) \/ HandleCallTransport(t) \/ StoreEndpoints(t)
      PROVE  ReportIsTrue'
  <2>1. UNCHANGED <<call, reported>>
    BY <1>9 DEF OfferFails, HandleCallAck, ConnectRelays, Fetch, ReturnEarly,
       SetupIncomingMedia, AcceptConnect, CleanupMedia, TearDown, CleanupRelay,
       HandleCallAccept, AcceptedConnects, HandleCallTransport, StoreEndpoints,
       callVars, ctlVars
  <2>2. pc[t] \notin Offering
    BY <1>9 DEF OfferFails, HandleCallAck, ConnectRelays, Fetch, ReturnEarly, Fetched,
       SetupIncomingMedia, AcceptConnect, CleanupMedia, TearDown, CleanupRelay,
       HandleCallAccept, AcceptedConnects, HandleCallTransport, StoreEndpoints, Offering
  <2>3. \A u \in Threads : u # t => pc'[u] = pc[u]
    BY <1>9 DEF OfferFails, HandleCallAck, ConnectRelays, Fetch, ReturnEarly, Fetched,
       SetupIncomingMedia, AcceptConnect, CleanupMedia, TearDown, CleanupRelay,
       HandleCallAccept, AcceptedConnects, HandleCallTransport, StoreEndpoints, Finish, Goto
  <2> QED
    BY <2>1, <2>2, <2>3, ReportStays
<1>10. ASSUME NEW e \in Endpoints, RelayOpens(e) \/ RelayFails(e)
       PROVE  ReportIsTrue'
  BY <1>10, ReportStays DEF RelayOpens, RelayFails, callVars, ctlVars, thrVars
<1>11. CASE Detach
  BY <1>11, ReportStays DEF Detach, callVars, thrVars
<1> QED
  BY <1>1, <1>2, <1>4, <1>5, <1>7, <1>8, <1>9, <1>10, <1>11 DEF Next, Arrive, Step

\* Once every handler has returned, the application has been told the state of
\* the call last: OnIncoming's report, made outside the lock, may be late and
\* stale, but an event with the lock held always follows it.
THEOREM ReportsEndTrue == Spec => []LastReportIsTrue
<1>1. Init => ReportIsTrue
  BY DEF Init, ReportIsTrue, State, CS!NoCall, CS!NewCall
<1>2. TypeOK /\ ReportIsTrue /\ [Next]_vars => ReportIsTrue'
  BY NextReport, ReportStays DEF vars, callVars, ctlVars, thrVars
<1>3. TypeOK /\ ReportIsTrue => LastReportIsTrue
  BY DEF ReportIsTrue, LastReportIsTrue, Idle, Offering
<1> QED
  BY <1>1, <1>2, <1>3, TypeCorrect, PTL DEF Spec

-----------------------------------------------------------------------------
(* The manager implements CallState.                                       *)

\* One of the call's own transitions, by a handler that applies it.
LEMMA ApplyIsAttempt ==
    ASSUME NEW type \in AttemptedTypes, Apply(type)
    PROVE  CS!Next
<1>1. type \in CS!TransitionTypes
  BY DEF AttemptedTypes, CS!TransitionTypes, CS!Target
<1>2. CS!Attempt(type)
  BY DEF Apply, CS!Attempt
<1> QED
  BY <1>1, <1>2 DEF CS!Next

LEMMA NextRefines == IInv /\ [Next]_vars => [CS!Next]_(CS!vars)
<1> SUFFICES ASSUME IInv, [Next]_vars PROVE CS!Next \/ call' = call
  BY DEF CS!vars
<1> TypeOK
  BY DEF IInv
<1>1. ASSUME NEW t \in Threads, StartCall(t) \/ HandleCallOffer(t)
      PROVE  CS!Next
  BY <1>1 DEF StartCall, HandleCallOffer, CS!Next, CS!Create, CS!MediaTypes, State
<1>2. ASSUME NEW t \in Threads,
             OfferAnswered(t) \/ AcceptCall(t) \/ EndCall(t)
               \/ HandleCallTerminate(t) \/ RemoteAccept(t)
      PROVE  CS!Next
  BY <1>2, ApplyIsAttempt
     DEF OfferAnswered, AcceptCall, EndCall, HandleCallTerminate, RemoteAccept,
         MakeConnecting, AttemptedTypes
<1>3. MediaConnected => CS!Next \/ call' = call
  BY ApplyIsAttempt DEF MediaConnected, callVars, AttemptedTypes
<1>4. ASSUME NEW t \in Threads, AcceptedPromotes(t) PROVE CS!Next \/ call' = call
  BY <1>3, <1>4 DEF AcceptedPromotes
<1>5. ASSUME NEW e \in Endpoints, OnRelayConnected(e) PROVE CS!Next \/ call' = call
  BY <1>3, <1>5 DEF OnRelayConnected
<1>6. ASSUME NEW t \in Threads, Quiet(t) PROVE call' = call
  BY <1>6, QuietEffect
<1>7. ASSUME NEW t \in Threads,
             OfferFails(t) \/ HandleCallAck(t) \/ Fetch(t) \/ OnEnded(t)
               \/ CleanupMedia(t) \/ CleanupRelay(t) \/ OfferReport(t)
               \/ OfferEmit(t) \/ SetupIncomingMedia(t) \/ HandleCallAccept(t)
               \/ StoreEndpoints(t)
      PROVE  call' = call
  BY <1>7 DEF OfferFails, HandleCallAck, Fetch, OnEnded, CleanupMedia,
     CleanupRelay, OfferReport, OfferEmit, SetupIncomingMedia,
     HandleCallAccept, StoreEndpoints, TearDown, callVars
<1>8. ASSUME NEW e \in Endpoints, RelayOpens(e) \/ RelayFails(e) PROVE call' = call
  BY <1>8 DEF RelayOpens, RelayFails, callVars
<1>9. CASE Detach \/ UNCHANGED vars
  BY <1>9 DEF Detach, vars, callVars
<1> QED
  BY <1>1, <1>2, <1>4, <1>5, <1>6, <1>7, <1>8, <1>9 DEF Next, Arrive, Step, Quiet

\* Every behaviour of the manager, projected on the call, is a behaviour of
\* CallState: no handler bypasses ApplyTransition.
THEOREM Implementation == Spec => Lifecycle
<1>1. Init => CS!Init
  BY DEF Init, CS!Init
<1> QED
  BY <1>1, NextRefines, InductiveInvariant, PTL DEF Spec, Lifecycle
=============================================================================
