------------------------------ MODULE CallState ------------------------------
(***************************************************************************)
(* The life cycle of one call: CallInfo and ApplyTransition of             *)
(* voip/call/callstate.go.  ApplyTransition is an operator on the call     *)
(* record; the specification lets callers attempt every transition at      *)
(* every moment, which is all the code promises its users.  It is the      *)
(* abstract specification that CallManager implements.  Silenced, which    *)
(* nothing reads, and the identifiers of the call are left out.            *)
(***************************************************************************)
EXTENDS Naturals

CONSTANTS
    Reasons,    \* the reasons a call may end with (core.EndCallReason)
    NoReason,   \* the zero EndReason of a call that has not ended
    MaxClock    \* bound of the clock, in seconds

ASSUME CallStateAssumption ==
    /\ NoReason \notin Reasons
    /\ MaxClock \in Nat \ {0}

VARIABLES
    call,       \* the CallInfo
    clock       \* time.Now(), in seconds

vars == <<call, clock>>

\* A time stamp that is still a nil pointer; the clock starts at 1.
Unset == 0

States == {"none", "initiating", "ringing", "incoming_ringing",
           "connecting", "active", "on_hold", "ended"}

Ringing == {"ringing", "incoming_ringing"}
Connected == {"active", "on_hold"}

Directions == {"outgoing", "incoming"}
MediaTypes == {"audio", "video"}

Calls ==
    [dir : Directions, media : MediaTypes, state : States,
     acceptedAt : Nat, connectedAt : Nat, endedAt : Nat, duration : Nat,
     endReason : Reasons \cup {NoReason},
     audioMuted : BOOLEAN, videoOff : BOOLEAN]

-----------------------------------------------------------------------------
NewCall(dir, media, state) ==
    [dir |-> dir, media |-> media, state |-> state,
     acceptedAt |-> Unset, connectedAt |-> Unset, endedAt |-> Unset,
     duration |-> 0, endReason |-> NoReason,
     audioMuted |-> FALSE, videoOff |-> media # "video"]

\* currentCall == nil.
NoCall == NewCall("outgoing", "audio", "none")

NewOutgoingCall(media) == NewCall("outgoing", media, "initiating")
NewIncomingCall(media) == NewCall("incoming", media, "incoming_ringing")

-----------------------------------------------------------------------------
(* The states in which ApplyTransition accepts a transition, and the state *)
(* it leads to; everywhere else it returns InvalidTransition and leaves    *)
(* the call alone.                                                         *)
Sources ==
    [offer_sent          |-> {"initiating"},
     offer_received      |-> {"initiating"},
     remote_accepted     |-> {"ringing"},
     local_accepted      |-> {"incoming_ringing"},
     remote_rejected     |-> {"ringing"},
     local_rejected      |-> {"incoming_ringing"},
     media_connected     |-> {"connecting"},
     terminated          |-> States \ {"none", "ended"},
     hold                |-> {"active"},
     resume              |-> {"on_hold"},
     audio_mute_changed  |-> {"active"},
     video_state_changed |-> {"active"}]

Target ==
    [offer_sent          |-> "ringing",
     offer_received      |-> "incoming_ringing",
     remote_accepted     |-> "connecting",
     local_accepted      |-> "connecting",
     remote_rejected     |-> "ended",
     local_rejected      |-> "ended",
     media_connected     |-> "active",
     terminated          |-> "ended",
     hold                |-> "on_hold",
     resume              |-> "active",
     audio_mute_changed  |-> "active",
     video_state_changed |-> "active"]

TransitionTypes == DOMAIN Target

\* Mutant: the state is not checked.
CanApplyAlways(c, t) == c.state # "none"

CanApply(c, t) == c.state \in Sources[t]

\* terminated alone measures the call; the two rejections come before it
\* could be connected.
Duration(c, t, now) ==
    IF t = "terminated" /\ c.state \in Connected /\ c.connectedAt # Unset
    THEN now - c.connectedAt
    ELSE c.duration

(* The call after transition t, attempted at time now with end reason r    *)
(* and flag value b (Muted or Off).                                        *)
ApplyTransition(c, t, r, b, now) ==
    IF ~CanApply(c, t)
    THEN c
    ELSE [c EXCEPT
            !.state       = Target[t],
            !.acceptedAt  = IF t \in {"remote_accepted", "local_accepted"} THEN now ELSE @,
            !.connectedAt = IF t = "media_connected" THEN now ELSE @,
            !.endedAt     = IF Target[t] = "ended" THEN now ELSE @,
            !.endReason   = IF Target[t] = "ended" THEN r ELSE @,
            !.duration    = Duration(c, t, now),
            !.audioMuted  = IF t = "audio_mute_changed" THEN b ELSE @,
            !.videoOff    = IF t = "media_connected" THEN c.media # "video"
                            ELSE IF t = "video_state_changed" THEN b ELSE @]

-----------------------------------------------------------------------------
Init ==
    /\ call = NoCall
    /\ clock = 1

Create ==
    /\ call.state = "none"
    /\ \E media \in MediaTypes :
         call' \in {NewOutgoingCall(media), NewIncomingCall(media)}
    /\ UNCHANGED clock

Attempt(t) ==
    /\ \E r \in Reasons, b \in BOOLEAN :
         call' = ApplyTransition(call, t, r, b, clock)
    /\ UNCHANGED clock

Tick ==
    /\ clock < MaxClock
    /\ clock' = clock + 1
    /\ UNCHANGED call

Next ==
    \/ Create
    \/ \E t \in TransitionTypes : Attempt(t)
    \/ Tick

Spec == Init /\ [][Next]_vars

-----------------------------------------------------------------------------
\* The call is a CallInfo and the clock has started.
TypeOK ==
    /\ call \in Calls
    /\ clock \in Nat \ {0}

\* What the state says of the time stamps: a ringing call has none, a call
\* that reached the media has both, an ended call has an end and nothing else
\* has one; and they are in the order the call went through them.
StampsOrdered ==
    /\ call.state \in {"none", "initiating"} \cup Ringing => call.acceptedAt = Unset
    /\ call.state \in {"connecting"} \cup Connected => call.acceptedAt # Unset
    /\ call.state \in Connected => call.connectedAt # Unset
    /\ call.connectedAt # Unset => call.acceptedAt \in 1 .. call.connectedAt
    /\ (call.endedAt # Unset) = (call.state = "ended")
    /\ call.endedAt # Unset => call.acceptedAt <= call.endedAt
                               /\ call.connectedAt <= call.endedAt

\* DurationSecs of an ended call is the time from its media connecting to its
\* end, whatever holds and resumes came between, and 0 if media never did.
DurationIsConnectedTime ==
    call.state = "ended" =>
        call.duration = IF call.connectedAt = Unset THEN 0
                        ELSE call.endedAt - call.connectedAt

\* No sequence of late transitions moves an ended call or rewrites why and
\* when it ended: the first end wins.
EndedIsFinal == [][call.state = "ended" => call' = call]_call

\* Media connects at most once, and only to a call that one side accepted:
\* a late media_connected on a ringing or ended call changes nothing.
ConnectsOnceAfterAccept ==
    [][call'.connectedAt # call.connectedAt =>
          /\ call.connectedAt = Unset
          /\ call.acceptedAt # Unset
          /\ call.endedAt = Unset]_call
==============================================================================
