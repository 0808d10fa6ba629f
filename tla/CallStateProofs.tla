-------------------------- MODULE CallStateProofs --------------------------
(***************************************************************************)
(* Proofs about CallState for every set of end reasons and every clock:    *)
(* the time stamps, duration and end of a call stay consistent under every *)
(* sequence of transitions, and an ended call is final.                    *)
(***************************************************************************)
EXTENDS CallState, TLAPS

(***************************************************************************)
(* The inductive invariant, of a call c at time now.  Beyond StampsOrdered *)
(* and DurationIsConnectedTime it says that no stamp lies in the future,   *)
(* that only a connected or ended call has connected, and that a duration  *)
(* is measured only at the end.                                            *)
(***************************************************************************)
Stamped(c, now) ==
    /\ c.acceptedAt <= now /\ c.connectedAt <= now /\ c.endedAt <= now
    /\ c.state \in {"none", "initiating"} \cup Ringing => c.acceptedAt = Unset
    /\ c.state \in {"connecting"} \cup Connected => c.acceptedAt # Unset
    /\ c.state \in Connected => c.connectedAt # Unset
    /\ c.connectedAt # Unset => /\ c.state \in Connected \cup {"ended"}
                                /\ c.acceptedAt # Unset
                                /\ c.acceptedAt <= c.connectedAt
    /\ (c.endedAt # Unset) = (c.state = "ended")
    /\ c.endedAt # Unset => c.acceptedAt <= c.endedAt /\ c.connectedAt <= c.endedAt

Measured(c) ==
    IF c.state = "ended"
    THEN c.duration = IF c.connectedAt = Unset THEN 0 ELSE c.endedAt - c.connectedAt
    ELSE c.duration = 0

Consistent(c, now) == c \in Calls /\ Stamped(c, now) /\ Measured(c)

IInv == clock \in Nat \ {0} /\ Consistent(call, clock)

-----------------------------------------------------------------------------
\* No transition leaves the ended state, and only the states named by Sources
\* are left; what each transition type may do to the state.
LEMMA TransitionTable ==
    ASSUME NEW c, NEW t \in TransitionTypes, CanApply(c, t)
    PROVE  /\ c.state \notin {"none", "ended"}
           /\ Target[t] \in States \ {"none", "initiating"}
           /\ Target[t] \in Ringing => c.state = "initiating"
           /\ Target[t] = "connecting" =>
                 c.state \in Ringing /\ t \in {"remote_accepted", "local_accepted"}
           /\ t \in {"remote_accepted", "local_accepted"} => Target[t] = "connecting"
           /\ Target[t] \in Connected => c.state \in {"connecting"} \cup Connected
           /\ t = "media_connected" => c.state = "connecting" /\ Target[t] = "active"
           /\ c.state = "connecting" /\ Target[t] \in Connected => t = "media_connected"
           /\ Target[t] = "ended" =>
                 \/ t = "terminated"
                 \/ c.state \in Ringing
           /\ t = "terminated" => Target[t] = "ended"
<1>1. t \in {"offer_sent", "offer_received", "remote_accepted", "local_accepted",
             "remote_rejected", "local_rejected", "media_connected", "terminated",
             "hold", "resume", "audio_mute_changed", "video_state_changed"}
  BY DEF TransitionTypes, Target
<1>2. c.state \in Sources[t]
  BY DEF CanApply
<1> QED
  BY <1>1, <1>2 DEF Sources, Target, States, Ringing, Connected

\* What a legal transition assigns, field by field.
LEMMA AppliedFields ==
    ASSUME NEW c \in Calls, NEW t \in TransitionTypes, NEW r \in Reasons,
           NEW b \in BOOLEAN, NEW now \in Nat \ {0}, CanApply(c, t),
           NEW d, d = ApplyTransition(c, t, r, b, now)
    PROVE  /\ d.dir = c.dir /\ d.media = c.media
           /\ d.state = Target[t]
           /\ d.acceptedAt = IF t \in {"remote_accepted", "local_accepted"}
                             THEN now ELSE c.acceptedAt
           /\ d.connectedAt = IF t = "media_connected" THEN now ELSE c.connectedAt
           /\ d.endedAt = IF Target[t] = "ended" THEN now ELSE c.endedAt
           /\ d.endReason = IF Target[t] = "ended" THEN r ELSE c.endReason
           /\ d.duration = Duration(c, t, now)
           /\ d.audioMuted \in BOOLEAN /\ d.videoOff \in BOOLEAN
           /\ d \in [dir : {d.dir}, media : {d.media}, state : {d.state},
                     acceptedAt : {d.acceptedAt}, connectedAt : {d.connectedAt},
                     endedAt : {d.endedAt}, duration : {d.duration},
                     endReason : {d.endReason}, audioMuted : {d.audioMuted},
                     videoOff : {d.videoOff}]
  BY DEF ApplyTransition, Calls, TransitionTypes

\* A transition, legal or not, keeps a consistent call consistent.
LEMMA ApplyKeepsConsistent ==
    ASSUME NEW now \in Nat \ {0}, NEW c, Consistent(c, now),
           NEW t \in TransitionTypes, NEW r \in Reasons, NEW b \in BOOLEAN
    PROVE  Consistent(ApplyTransition(c, t, r, b, now), now)
<1> DEFINE d == ApplyTransition(c, t, r, b, now)
<1> c \in Calls
  BY DEF Consistent
<1>1. CASE ~CanApply(c, t)
  BY <1>1 DEF ApplyTransition
<1>2. CASE CanApply(c, t)
  <2> HIDE DEF d
  <2>1. /\ d.dir = c.dir /\ d.media = c.media
        /\ d.state = Target[t]
        /\ d.acceptedAt = IF t \in {"remote_accepted", "local_accepted"}
                          THEN now ELSE c.acceptedAt
        /\ d.connectedAt = IF t = "media_connected" THEN now ELSE c.connectedAt
        /\ d.endedAt = IF Target[t] = "ended" THEN now ELSE c.endedAt
        /\ d.endReason = IF Target[t] = "ended" THEN r ELSE c.endReason
        /\ d.duration = Duration(c, t, now)
        /\ d.audioMuted \in BOOLEAN /\ d.videoOff \in BOOLEAN
        /\ d \in [dir : {d.dir}, media : {d.media}, state : {d.state},
                  acceptedAt : {d.acceptedAt}, connectedAt : {d.connectedAt},
                  endedAt : {d.endedAt}, duration : {d.duration},
                  endReason : {d.endReason}, audioMuted : {d.audioMuted},
                  videoOff : {d.videoOff}]
    BY <1>2, AppliedFields DEF d
  <2>2. Stamped(d, now)
    <3>1. /\ c.acceptedAt \in Nat /\ c.connectedAt \in Nat /\ c.endedAt \in Nat
          /\ Stamped(c, now)
      BY DEF Calls, Consistent
    <3>2. CASE Target[t] \in Ringing
      BY <1>2, <2>1, <3>1, <3>2, TransitionTable DEF Stamped, Ringing, Connected, Unset
    <3>3. CASE Target[t] = "connecting"
      BY <1>2, <2>1, <3>1, <3>3, TransitionTable DEF Stamped, Ringing, Connected, Unset
    <3>4. CASE Target[t] \in Connected
      BY <1>2, <2>1, <3>1, <3>4, TransitionTable DEF Stamped, Ringing, Connected, Unset
    <3>5. CASE Target[t] = "ended"
      BY <1>2, <2>1, <3>1, <3>5, TransitionTable DEF Stamped, Ringing, Connected, Unset
    <3> QED
      BY <1>2, <3>2, <3>3, <3>4, <3>5, TransitionTable DEF States, Ringing, Connected
  <2>3. Measured(d)
    BY <1>2, <2>1, TransitionTable
       DEF Consistent, Stamped, Measured, Duration, Calls, Ringing, Connected, Unset
  <2>4. d.duration \in Nat
    BY <1>2, <2>1, TransitionTable DEF Consistent, Stamped, Duration, Calls, Unset
  <2>5. d \in Calls
    BY <1>2, <2>1, <2>4, TransitionTable DEF Calls
  <2> QED
    BY <2>2, <2>3, <2>5 DEF Consistent, d
<1> QED
  BY <1>1, <1>2

-----------------------------------------------------------------------------
LEMMA NewCallConsistent ==
    ASSUME NEW now \in Nat \ {0}, NEW dir \in Directions, NEW media \in MediaTypes,
           NEW state \in {"none", "initiating", "incoming_ringing"}
    PROVE  Consistent(NewCall(dir, media, state), now)
  BY DEF Consistent, Stamped, Measured, NewCall, Calls, States, Ringing, Connected, Unset

LEMMA InitIInv == Init => IInv
  BY NewCallConsistent DEF Init, IInv, NoCall, Directions, MediaTypes

LEMMA NextIInv == IInv /\ [Next]_vars => IInv'
<1> SUFFICES ASSUME IInv, [Next]_vars PROVE IInv'
  OBVIOUS
<1> clock \in Nat \ {0} /\ Consistent(call, clock)
  BY DEF IInv
<1>1. CASE Create
  BY <1>1, NewCallConsistent
     DEF Create, IInv, NewOutgoingCall, NewIncomingCall, Directions
<1>2. ASSUME NEW t \in TransitionTypes, Attempt(t) PROVE IInv'
  BY <1>2, ApplyKeepsConsistent DEF Attempt, IInv
<1>3. CASE Tick
  <2>1. clock' = clock + 1 /\ call' = call
    BY <1>3 DEF Tick
  <2> QED
    BY <2>1 DEF IInv, Consistent, Stamped, Measured, Calls
<1>4. CASE UNCHANGED vars
  BY <1>4 DEF vars, IInv
<1> QED
  BY <1>1, <1>2, <1>3, <1>4 DEF Next

THEOREM InductiveInvariant == Spec => []IInv
  BY InitIInv, NextIInv, PTL DEF Spec

\* A CallInfo stays well formed, its duration a natural number included.
THEOREM TypeCorrect == Spec => []TypeOK
<1>1. IInv => TypeOK
  BY DEF IInv, Consistent, TypeOK
<1> QED
  BY <1>1, InductiveInvariant, PTL

\* The state of a call always says which time stamps it has, in order.
THEOREM StampsAreOrdered == Spec => []StampsOrdered
<1>1. IInv => StampsOrdered
  BY DEF IInv, Consistent, Stamped, StampsOrdered, Calls, Unset
<1> QED
  BY <1>1, InductiveInvariant, PTL

\* The duration reported for an ended call is the time it was connected.
THEOREM DurationCorrect == Spec => []DurationIsConnectedTime
<1>1. IInv => DurationIsConnectedTime
  BY DEF IInv, Consistent, Measured, DurationIsConnectedTime
<1> QED
  BY <1>1, InductiveInvariant, PTL

\* No late transition moves an ended call.
THEOREM EndedStaysEnded == Spec => EndedIsFinal
<1>1. [Next]_vars => [call.state = "ended" => call' = call]_call
  BY TransitionTable
     DEF Next, vars, Create, Attempt, Tick, ApplyTransition
<1> QED
  BY <1>1, PTL DEF Spec, EndedIsFinal

\* Media connects once, to a call that was accepted and has not ended.
THEOREM ConnectsOnce == Spec => ConnectsOnceAfterAccept
<1>1. IInv /\ [Next]_vars =>
        [call'.connectedAt # call.connectedAt =>
            /\ call.connectedAt = Unset
            /\ call.acceptedAt # Unset
            /\ call.endedAt = Unset]_call
  <2> SUFFICES ASSUME IInv, [Next]_vars, call'.connectedAt # call.connectedAt
               PROVE  /\ call.connectedAt = Unset
                      /\ call.acceptedAt # Unset
                      /\ call.endedAt = Unset
    OBVIOUS
  <2> call \in Calls /\ Stamped(call, clock) /\ clock \in Nat \ {0}
    BY DEF IInv, Consistent
  <2>1. CASE Create
    BY <2>1 DEF Create, NewOutgoingCall, NewIncomingCall, NewCall, Stamped, Ringing,
         Connected, Unset
  <2>2. ASSUME NEW t \in TransitionTypes, Attempt(t)
        PROVE  call.state = "connecting"
    <3>1. PICK r \in Reasons, b \in BOOLEAN : call' = ApplyTransition(call, t, r, b, clock)
      BY <2>2 DEF Attempt
    <3>2. CanApply(call, t)
      BY <3>1 DEF ApplyTransition
    <3>3. t = "media_connected"
      BY <3>1, <3>2, AppliedFields
    <3> QED
      BY <3>2, <3>3, TransitionTable
  <2>3. CASE Tick \/ UNCHANGED vars
    BY <2>3 DEF Tick, vars
  <2>4. call.state = "connecting" => /\ call.connectedAt = Unset
                                     /\ call.acceptedAt # Unset
                                     /\ call.endedAt = Unset
    BY DEF Stamped, Connected
  <2> QED
    BY <2>1, <2>2, <2>3, <2>4 DEF Next
<1> QED
  BY <1>1, InductiveInvariant, PTL DEF Spec, ConnectsOnceAfterAccept
=============================================================================
