---------------------------- MODULE CallController ----------------------------
(***************************************************************************)
(* The Controller of one session (voip/callctl): its map from call ids to  *)
(* activeCalls, the limit on their number, the goroutines its callbacks    *)
(* start, the audio files and the WebRTC bridge of a call, and Shutdown.   *)
(* A critical section of c.mu is one step, and so is what a goroutine does *)
(* between two of them.  The manager of an activeCall is reduced to the    *)
(* state of its call; CallManager has the detail.  A FileAudioSource ends  *)
(* by itself with its file and goes with the FileAudioSink.                *)
(***************************************************************************)
EXTENDS Naturals, FiniteSets

CONSTANTS
    CallIds,
    ActiveCalls,  \* the activeCall objects that may be created
    Bridges,      \* the Bridge objects
    Threads,      \* goroutines: RPCs, event handlers, `go` statements
    None,
    MaxCalls,
    MaxPending    \* bound: goroutines started for a call and not yet running

ASSUME CallControllerAssumption ==
    /\ None \notin CallIds \cup ActiveCalls \cup Bridges \cup Threads
    /\ MaxCalls \in Nat \ {0}
    /\ MaxPending \in Nat \ {0}
    /\ IsFiniteSet(CallIds) /\ IsFiniteSet(Threads)

VARIABLES
    calls,    \* c.calls
    id,       \* the call id of each activeCall, None before it is created
    state,    \* of its manager's call; "none" while the manager has no call
    started,  \* activeCall.started
    audio,    \* audioIn or audioOut is set
    sink,     \* the FileAudioSink
    bridge,   \* the Bridge it holds
    open,     \* bridges whose peer connection has not been closed
    pending,  \* goroutines started and not yet running, by kind and activeCall
    pc,
    local,    \* the locals of each goroutine
    closer    \* the goroutine that runs Shutdown

callVars  == <<id, state, started, audio>>
webVars   == <<bridge, open>>
thrVars   == <<pc, local, closer>>
vars == <<calls, callVars, sink, webVars, pending, thrVars>>

Kinds == {"cleanup", "on_active", "end"}
Requests == {"accept", "peer_accept", "end", "terminate", "webrtc"}
Labels == Kinds \cup Requests \cup
    {"idle", "create_out", "create_in", "offer_out", "offer_in", "query",
     "on_ended", "release", "sink", "install", "shutdown"}
Locals == [id : CallIds \cup {None}, ac : ActiveCalls \cup {None},
           audio : BOOLEAN, bridge : Bridges \cup {None},
           ids : SUBSET CallIds]
NoLocal == [id |-> None, ac |-> None, audio |-> FALSE, bridge |-> None, ids |-> {}]

Mapped == {i \in CallIds : calls[i] # None}
Live(a) == state[a] \in {"live", "active"}

-----------------------------------------------------------------------------
Goto(t, l) == pc' = [pc EXCEPT ![t] = l] /\ UNCHANGED closer

Finish(t) ==
    /\ Goto(t, "idle")
    /\ local' = [local EXCEPT ![t] = NoLocal]

\* Where EndCall and cleanup return to: Shutdown, or the end of the goroutine.
Return(t, l) ==
    IF t = closer THEN Goto(t, l) /\ UNCHANGED local ELSE Finish(t)

Spawn(kind, a) == pending' = [pending EXCEPT ![<<kind, a>>] = @ + 1]

\* Mutant: the end is left to OnEnded.
EmitActive(a) ==
    IF state'[a] = "active" THEN Spawn("on_active", a) ELSE UNCHANGED pending

\* OnStateChange: an ended call is cleaned up, an active one gets its audio.
Emit(a) ==
    CASE state'[a] = "ended"  -> Spawn("cleanup", a)
      [] state'[a] = "active" -> Spawn("on_active", a)
      [] OTHER                -> UNCHANGED pending

\* Mutants: an off-by-one in the limit; the bridge is replaced, not closed.
HasRoomForOneMore == Cardinality(Mapped) <= MaxCalls
LeaveBridge(b) == UNCHANGED open

HasRoom == Cardinality(Mapped) < MaxCalls

CloseBridge(b) == open' = open \ {b}

\* A closed bridge reports a terminal ICE state: `go c.EndCall`, or nothing if
\* its ICE had not started.
MayEnd(a, b) == UNCHANGED pending \/ (b \in open /\ Spawn("end", a))

-----------------------------------------------------------------------------
Init ==
    /\ calls = [i \in CallIds |-> None]
    /\ id = [a \in ActiveCalls |-> None]
    /\ state = [a \in ActiveCalls |-> "none"]
    /\ started = [a \in ActiveCalls |-> FALSE]
    /\ audio = [a \in ActiveCalls |-> FALSE]
    /\ sink = [a \in ActiveCalls |-> "none"]
    /\ bridge = [a \in ActiveCalls |-> None]
    /\ open = {}
    /\ pending = [x \in Kinds \X ActiveCalls |-> 0]
    /\ pc = [t \in Threads |-> "idle"]
    /\ local = [t \in Threads |-> NoLocal]
    /\ closer = None

-----------------------------------------------------------------------------
(* Creating a call: the limit is read in one critical section and the call *)
(* inserted in another.                                                    *)

\* An id of our own is a new one.
StartCall(t) ==
    /\ pc[t] = "idle" /\ closer = None /\ HasRoom
    /\ \E i \in CallIds :
         /\ \A a \in ActiveCalls : id[a] # i
         /\ \A u \in Threads : local[u].id # i
         /\ local' = [local EXCEPT ![t].id = i]
    /\ Goto(t, "create_out")
    /\ UNCHANGED <<calls, callVars, sink, webVars, pending>>

\* The peer's offer names the id; it may come twice.  At capacity it is
\* rejected, which changes nothing here.
OnOffer(t) ==
    /\ pc[t] = "idle" /\ closer = None /\ HasRoom
    /\ \E i \in CallIds : local' = [local EXCEPT ![t].id = i]
    /\ Goto(t, "create_in")
    /\ UNCHANGED <<calls, callVars, sink, webVars, pending>>

\* createCall puts the new activeCall under the id, whatever was there.
CreateCall(t) ==
    /\ pc[t] \in {"create_out", "create_in"}
    /\ \E a \in ActiveCalls :
         /\ id[a] = None
         /\ id' = [id EXCEPT ![a] = local[t].id]
         /\ calls' = [calls EXCEPT ![local[t].id] = a]
         /\ local' = [local EXCEPT ![t].ac = a]
         /\ \E files \in BOOLEAN :
              /\ pc[t] = "create_in" => ~files
              /\ audio' = [audio EXCEPT ![a] = files]
    /\ Goto(t, IF pc[t] = "create_out" THEN "offer_out" ELSE "offer_in")
    /\ UNCHANGED <<state, started, sink, webVars, pending>>

\* CallManager.HandleCallOffer.
HandleCallOffer(t) ==
    /\ pc[t] = "offer_in"
    /\ state' = [state EXCEPT ![local[t].ac] = "live"]
    /\ Finish(t)
    /\ UNCHANGED <<calls, id, started, audio, sink, webVars, pending>>

\* CallManager.StartCall makes the call ...
ManagerStartCall(t) ==
    /\ pc[t] = "offer_out"
    /\ state' = [state EXCEPT ![local[t].ac] = "live"]
    /\ Goto(t, "query")
    /\ UNCHANGED <<calls, id, started, audio, sink, webVars, pending, local>>

\* ... and succeeds, or fails and is cleaned up on the spot.
StartCallReturns(t) ==
    /\ pc[t] = "query"
    /\ UNCHANGED state
    /\ \/ Emit(local[t].ac) /\ Finish(t)
       \/ Goto(t, "cleanup") /\ UNCHANGED <<pending, local>>
    /\ UNCHANGED <<calls, id, started, audio, sink, webVars>>

-----------------------------------------------------------------------------
(* The requests of the user and the peer on a call of the map.             *)
Fetch(t) ==
    /\ pc[t] = "idle" /\ closer = None
    /\ \E i \in Mapped, request \in Requests :
         /\ \A kind \in Kinds : pending[<<kind, calls[i]>>] < MaxPending
         /\ local' = [local EXCEPT ![t].id = i, ![t].ac = calls[i]]
         /\ Goto(t, request)
    /\ UNCHANGED <<calls, callVars, sink, webVars, pending>>

\* AcceptCall sets the audio files, whether or not the call can be accepted.
AcceptCall(t) ==
    /\ pc[t] = "accept"
    /\ \E files \in BOOLEAN : audio' = [audio EXCEPT ![local[t].ac] = files]
    /\ Finish(t)
    /\ UNCHANGED <<calls, id, state, started, sink, webVars, pending>>

\* HandleCallAccept reports the state even if its transition fails.
HandleCallAccept(t) ==
    /\ pc[t] = "peer_accept"
    /\ UNCHANGED state
    /\ Emit(local[t].ac)
    /\ Finish(t)
    /\ UNCHANGED <<calls, id, started, audio, sink, webVars>>

\* The first relay makes the call Active.
MediaConnected(a) ==
    /\ state[a] = "live"
    /\ state' = [state EXCEPT ![a] = "active"]
    /\ Emit(a)
    /\ UNCHANGED <<calls, id, started, audio, sink, webVars, thrVars>>

Ends(t) ==
    /\ state' = [state EXCEPT ![local[t].ac] = "ended"]
    /\ Emit(local[t].ac)
    /\ Goto(t, "on_ended")
    /\ UNCHANGED <<calls, id, started, audio, sink, webVars, local>>

EndCall(t) == pc[t] = "end" /\ Live(local[t].ac) /\ Ends(t)

\* Nothing to end: no call yet, or it has ended.
EndCallReturns(t) ==
    /\ pc[t] = "end" /\ ~Live(local[t].ac)
    /\ Return(t, "cleanup")
    /\ UNCHANGED <<calls, callVars, sink, webVars, pending>>

HandleCallTerminate(t) ==
    /\ pc[t] = "terminate" /\ state[local[t].ac] # "none"
    /\ Ends(t)

HandleCallTerminateReturns(t) ==
    /\ pc[t] = "terminate" /\ state[local[t].ac] = "none"
    /\ Finish(t)
    /\ UNCHANGED <<calls, callVars, sink, webVars, pending>>

OnEnded(t) ==
    /\ pc[t] = "on_ended"
    /\ Spawn("cleanup", local[t].ac)
    /\ Return(t, "cleanup")
    /\ UNCHANGED <<calls, callVars, sink, webVars>>

-----------------------------------------------------------------------------
(* WebRTC.                                                                 *)

\* NewBridge, or its failure.
NewBridge(t) ==
    /\ pc[t] = "webrtc"
    /\ \/ \E b \in Bridges \ open :
            /\ \A a \in ActiveCalls : bridge[a] # b
            /\ open' = open \cup {b}
            /\ local' = [local EXCEPT ![t].bridge = b]
            /\ Goto(t, "install")
       \/ Finish(t) /\ UNCHANGED open
    /\ UNCHANGED <<calls, callVars, sink, bridge, pending>>

\* The bridge replaces the one the call held.
WebRTC(t) ==
    /\ pc[t] = "install"
    /\ LET a == local[t].ac IN
         /\ bridge' = [bridge EXCEPT ![a] = local[t].bridge]
         /\ CloseBridge(bridge[a])
         /\ MayEnd(a, bridge[a])
    /\ Finish(t)
    /\ UNCHANGED <<calls, callVars, sink>>

\* The browser goes away.
IceFails(a) ==
    /\ bridge[a] \in open
    /\ pending[<<"end", a>>] < MaxPending
    /\ Spawn("end", a)
    /\ UNCHANGED <<calls, callVars, sink, webVars, thrVars>>

-----------------------------------------------------------------------------
(* The goroutines that callbacks start: each finds the call by its id.     *)
Take(t, kind, a) ==
    /\ pc[t] = "idle"
    /\ pending[<<kind, a>>] > 0
    /\ pending' = [pending EXCEPT ![<<kind, a>>] = @ - 1]
    /\ IF kind = "end" /\ calls[id[a]] = None
       THEN UNCHANGED thrVars
       ELSE /\ local' = [local EXCEPT ![t].id = id[a],
                         ![t].ac = IF kind = "end" THEN calls[id[a]] ELSE None]
            /\ Goto(t, kind)
    /\ UNCHANGED <<calls, callVars, sink, webVars>>

\* onActive: once for an activeCall ...
OnActive(t) ==
    /\ pc[t] = "on_active"
    /\ LET a == calls[local[t].id] IN
         IF a = None \/ (a # None /\ started[a])
         THEN Finish(t) /\ UNCHANGED started
         ELSE /\ started' = [started EXCEPT ![a] = TRUE]
              /\ local' = [local EXCEPT ![t].ac = a, ![t].audio = audio[a]]
              /\ Goto(t, "sink")
    /\ UNCHANGED <<calls, id, state, audio, sink, webVars, pending>>

\* ... opens the files, which may fail, without the lock.
OpenAudio(t) ==
    /\ pc[t] = "sink"
    /\ \/ local[t].audio /\ sink' = [sink EXCEPT ![local[t].ac] = "open"]
       \/ UNCHANGED sink
    /\ Finish(t)
    /\ UNCHANGED <<calls, callVars, webVars, pending>>

\* Mutant: the call is found and not deleted.
CleanupKeepsCall(t) ==
    /\ pc[t] = "cleanup"
    /\ IF calls[local[t].id] = None
       THEN Return(t, "shutdown")
       ELSE /\ local' = [local EXCEPT ![t].ac = calls[local[t].id]]
            /\ Goto(t, "release")
    /\ UNCHANGED <<calls, callVars, sink, webVars, pending>>

\* cleanup takes the call out of the map ...
Cleanup(t) ==
    /\ pc[t] = "cleanup"
    /\ calls' = [calls EXCEPT ![local[t].id] = None]
    /\ IF calls[local[t].id] = None
       THEN Return(t, "shutdown")
       ELSE /\ local' = [local EXCEPT ![t].ac = calls[local[t].id]]
            /\ Goto(t, "release")
    /\ UNCHANGED <<callVars, sink, webVars, pending>>

\* ... and releases what it then holds, read without the lock.
Release(t) ==
    /\ pc[t] = "release"
    /\ LET a == local[t].ac IN
         /\ sink' = [sink EXCEPT ![a] = IF @ = "none" THEN @ ELSE "closed"]
         /\ CloseBridge(bridge[a])
         /\ MayEnd(a, bridge[a])
    /\ Return(t, "shutdown")
    /\ UNCHANGED <<calls, callVars, bridge>>

-----------------------------------------------------------------------------
(* Shutdown: the event handler has been removed and no RPC finds the       *)
(* session any more, but those under way go on.                            *)
Shutdown(t) ==
    /\ pc[t] = "idle" /\ closer = None
    /\ closer' = t
    /\ pc' = [pc EXCEPT ![t] = "shutdown"]
    /\ local' = [local EXCEPT ![t].ids = Mapped]
    /\ UNCHANGED <<calls, callVars, sink, webVars, pending>>

\* The next id of the snapshot: its call is ended and cleaned up.
ShutdownNext(t) ==
    /\ pc[t] = "shutdown"
    /\ \E i \in local[t].ids :
         /\ local' = [local EXCEPT ![t].ids = @ \ {i}, ![t].id = i, ![t].ac = calls[i]]
         /\ Goto(t, IF calls[i] = None THEN "cleanup" ELSE "end")
    /\ UNCHANGED <<calls, callVars, sink, webVars, pending>>

ShutdownReturns(t) ==
    /\ pc[t] = "shutdown" /\ local[t].ids = {}
    /\ Finish(t)
    /\ UNCHANGED <<calls, callVars, sink, webVars, pending>>

-----------------------------------------------------------------------------
Step(t) ==
    \/ CreateCall(t) \/ HandleCallOffer(t) \/ ManagerStartCall(t) \/ StartCallReturns(t)
    \/ AcceptCall(t) \/ HandleCallAccept(t)
    \/ EndCall(t) \/ EndCallReturns(t) \/ OnEnded(t)
    \/ HandleCallTerminate(t) \/ HandleCallTerminateReturns(t)
    \/ NewBridge(t) \/ WebRTC(t)
    \/ OnActive(t) \/ OpenAudio(t)
    \/ Cleanup(t) \/ Release(t)
    \/ ShutdownNext(t) \/ ShutdownReturns(t)

Arrive(t) == StartCall(t) \/ OnOffer(t) \/ Fetch(t) \/ Shutdown(t)

Next ==
    \/ \E t \in Threads : Arrive(t) \/ Step(t)
    \/ \E t \in Threads, kind \in Kinds, a \in ActiveCalls : Take(t, kind, a)
    \/ \E a \in ActiveCalls : MediaConnected(a) \/ IceFails(a)

Spec == Init /\ [][Next]_vars

-----------------------------------------------------------------------------
TypeOK ==
    /\ calls \in [CallIds -> ActiveCalls \cup {None}]
    /\ id \in [ActiveCalls -> CallIds \cup {None}]
    /\ state \in [ActiveCalls -> {"none", "live", "active", "ended"}]
    /\ started \in [ActiveCalls -> BOOLEAN]
    /\ audio \in [ActiveCalls -> BOOLEAN]
    /\ sink \in [ActiveCalls -> {"none", "open", "closed"}]
    /\ bridge \in [ActiveCalls -> Bridges \cup {None}]
    /\ open \in SUBSET Bridges
    /\ pending \in [Kinds \X ActiveCalls -> Nat]
    /\ pc \in [Threads -> Labels]
    /\ local \in [Threads -> Locals]
    /\ closer \in Threads \cup {None}

Creators == {t \in Threads : pc[t] \in {"create_out", "create_in"}}

\* Reading the limit and inserting the call are two critical sections, so the
\* limit can be passed, but by no more than the calls that were being created
\* at once.
OvershootIsBounded ==
    Cardinality(Mapped) + Cardinality(Creators) <= MaxCalls - 1 + Cardinality(Threads)

\* Several goroutines clean up an ended call, by its id; one of them releases
\* its resources, and nobody finds the call in the map any more.
OneCleanupReleases ==
    \A t \in Threads : pc[t] = "release" =>
        /\ \A i \in CallIds : calls[i] # local[t].ac
        /\ \A u \in Threads : pc[u] = "release" /\ local[u].ac = local[t].ac => u = t

\* A peer connection to a browser is held by its call or by the WebRTC request
\* that made it, however many requests race to replace it.
NoOrphanBridge ==
    \A b \in open :
        \/ \E a \in ActiveCalls : bridge[a] = b
        \/ \E t \in Threads : pc[t] = "install" /\ local[t].bridge = b

\* An ended call that is still in the map has its clean-up on the way, also
\* when another call of the same id took its place or Shutdown is at work.
EndedIsCleanedUp ==
    \A i \in Mapped : state[calls[i]] = "ended" =>
        \/ pending[<<"cleanup", calls[i]>>] > 0
        \/ \E t \in Threads : pc[t] = "cleanup" /\ local[t].id = i

\* Shutdown has returned and no goroutine is left.
ShutDown ==
    /\ closer # None
    /\ \A t \in Threads : pc[t] = "idle"
    /\ \A x \in Kinds \X ActiveCalls : pending[x] = 0

-----------------------------------------------------------------------------
(* What the repository says of the controller and the code does not do.    *)

\* controller.go:73 - a call is refused once the maximum is reached.
LimitHolds == Cardinality(Mapped) <= MaxCalls

\* controller.go:292 - Shutdown ends all calls ...
ShutdownEndsAll == ShutDown => \A a \in ActiveCalls : ~Live(a)

\* ... and releases their resources.
ShutdownReleases ==
    ShutDown => \A a \in ActiveCalls : state[a] = "ended" =>
        sink[a] # "open" /\ bridge[a] \notin open
==============================================================================
