------------------------------- MODULE Sessions -------------------------------
(***************************************************************************)
(* The life of one session: StartSession and StopSession of the server,    *)
(* the SessionManager's map, the event channel of a GoWS instance, those   *)
(* that send to it, and the goroutine that reads it.  Sessions of other    *)
(* names share nothing but the maps, so there is one name.  A critical     *)
(* section, a channel operation or a call into the client library is a     *)
(* step.                                                                   *)
(***************************************************************************)
EXTENDS Naturals

CONSTANTS
    Instances,   \* the GoWS objects that may be built
    Subs,        \* the subscriptions: a context and a goroutine
    Threads,     \* RPCs
    Emitters,    \* goroutines that may be in emitEvent at once
    None,
    Capacity,    \* of the channel `events`
    MaxCalls,    \* bound: live calls of an instance
    MaxHandlers  \* bound: a session with more event handlers is not started again

ASSUME SessionsAssumption ==
    /\ None \notin Instances \cup Subs \cup Threads \cup Emitters
    /\ Instances \cap Subs = {}
    /\ Capacity \in Nat \ {0}
    /\ MaxCalls \in Nat
    /\ MaxHandlers \in Nat \ {0}

VARIABLES
    sessions,   \* sm.sessions[name]
    built,      \* the instances built so far
    handlers,   \* event handlers of an instance registered with its client
    connected,  \* instances whose client is connected, or reconnects by itself
    calls,      \* live calls of each instance
    events,     \* gows.events: "open", "closed", or "nil"
    queue,      \* events in its buffer
    cancelled,  \* instances and subscriptions whose context is cancelled
    emitting,   \* the instance on whose channel an emitter waits
    eventSubs,  \* s.eventSubs[name]
    reader,     \* the goroutine of each subscription
    pc,
    local       \* locals of an RPC

mapVars  == <<sessions, built, eventSubs>>
instVars == <<handlers, connected, calls>>
chanVars == <<events, queue>>
thrVars  == <<pc, local>>
vars == <<mapVars, instVars, chanVars, cancelled, emitting, reader, thrVars>>

Stages == {"none", "starting", "reading", "deaf", "done"}
StopLabels == {"remove_handler", "shutdown", "emit", "disconnect", "close", "forget",
               "cancel_context"}
Labels == StopLabels \cup
    {"idle", "subscribe", "start", "add_handler", "connect", "cancel_sub", "stop"}
Readers == [inst : Instances \cup {None}, stage : Stages]
Locals == [inst : Instances \cup {None}, sub : Subs \cup {None},
           ending : 0 .. MaxCalls, emits : 0 .. 2]
NoLocal == [inst |-> None, sub |-> None, ending |-> 0, emits |-> 0]

-----------------------------------------------------------------------------
Goto(t, l) == pc' = [pc EXCEPT ![t] = l]
Finish(t) == Goto(t, "idle") /\ local' = [local EXCEPT ![t] = NoLocal]

Init ==
    /\ sessions = None
    /\ built = {}
    /\ handlers = [i \in Instances |-> 0]
    /\ connected = {}
    /\ calls = [i \in Instances |-> 0]
    /\ events = [i \in Instances |-> "open"]
    /\ queue = [i \in Instances |-> 0]
    /\ cancelled = {}
    /\ emitting = [g \in Emitters |-> None]
    /\ eventSubs = None
    /\ reader = [s \in Subs |-> [inst |-> None, stage |-> "none"]]
    /\ pc = [t \in Threads |-> "idle"]
    /\ local = [t \in Threads |-> NoLocal]

-----------------------------------------------------------------------------
(* StartSession.                                                           *)

\* The instance that is there, or a new one; a build that fails leaves nothing.
Build(t) ==
    /\ pc[t] = "idle"
    /\ IF sessions # None
       THEN handlers[sessions] < MaxHandlers /\ UNCHANGED <<sessions, built>>
       ELSE \E i \in Instances \ built : sessions' = i /\ built' = built \cup {i}
    /\ local' = [local EXCEPT ![t].inst = sessions']
    /\ Goto(t, "subscribe")
    /\ UNCHANGED <<instVars, chanVars, cancelled, emitting, eventSubs, reader>>

Subscribe(t) ==
    /\ pc[t] = "subscribe"
    /\ IF eventSubs # None
       THEN UNCHANGED <<eventSubs, reader>>
       ELSE \E s \in Subs :
              /\ reader[s].stage = "none"
              /\ eventSubs' = s
              /\ reader' = [reader EXCEPT
                              ![s] = [inst |-> local[t].inst, stage |-> "starting"]]
    /\ Goto(t, "start")
    /\ UNCHANGED <<sessions, built, instVars, chanVars, cancelled, emitting, local>>

\* SessionManager.Start looks the session up again ...
ManagerStart(t) ==
    /\ pc[t] = "start"
    /\ IF sessions = None
       THEN Finish(t)
       ELSE Goto(t, "add_handler") /\ local' = [local EXCEPT ![t].inst = sessions]
    /\ UNCHANGED <<mapVars, instVars, chanVars, cancelled, emitting, reader>>

\* ... and starts it without the lock: one more handler, of which only the id
\* of the last is kept ...
AddHandler(t) ==
    /\ pc[t] = "add_handler"
    /\ handlers' = [handlers EXCEPT ![local[t].inst] = @ + 1]
    /\ Goto(t, "connect")
    /\ UNCHANGED <<mapVars, connected, calls, chanVars, cancelled, emitting, reader, local>>

\* ... and a connection, which may fail.
Connect(t) ==
    /\ pc[t] = "connect"
    /\ connected' \in {connected, connected \cup {local[t].inst}}
    /\ Finish(t)
    /\ UNCHANGED <<mapVars, handlers, calls, chanVars, cancelled, emitting, reader>>

-----------------------------------------------------------------------------
(* StopSession.                                                            *)

StopSession(t) ==
    /\ pc[t] = "idle"
    /\ eventSubs' = None
    /\ local' = [local EXCEPT ![t].sub = eventSubs]
    /\ Goto(t, IF eventSubs = None THEN "stop" ELSE "cancel_sub")
    /\ UNCHANGED <<sessions, built, instVars, chanVars, cancelled, emitting, reader>>

CancelSub(t) ==
    /\ pc[t] = "cancel_sub"
    /\ cancelled' = cancelled \cup {local[t].sub}
    /\ Goto(t, "stop")
    /\ UNCHANGED <<mapVars, instVars, chanVars, emitting, reader, local>>

\* Mutant: the session is looked up under the lock and deleted by nobody.
ManagerStopKeeps(t) ==
    /\ pc[t] = "stop"
    /\ IF sessions = None
       THEN Finish(t)
       ELSE Goto(t, "remove_handler") /\ local' = [local EXCEPT ![t].inst = sessions]
    /\ UNCHANGED <<mapVars, instVars, chanVars, cancelled, emitting, reader>>

\* SessionManager.Stop takes the session out of the map ...
ManagerStop(t) ==
    /\ pc[t] = "stop"
    /\ sessions' = None
    /\ IF sessions = None
       THEN Finish(t)
       ELSE Goto(t, "remove_handler") /\ local' = [local EXCEPT ![t].inst = sessions]
    /\ UNCHANGED <<built, eventSubs, instVars, chanVars, cancelled, emitting, reader>>

\* ... and stops it without the lock: the last handler goes, if there is one ...
RemoveHandler(t) ==
    /\ pc[t] = "remove_handler"
    /\ LET i == local[t].inst IN
         /\ handlers' = [handlers EXCEPT ![i] = IF @ = 0 THEN 0 ELSE @ - 1]
         /\ local' = [local EXCEPT ![t].ending = calls[i]]
    /\ Goto(t, "shutdown")
    /\ UNCHANGED <<mapVars, connected, calls, chanVars, cancelled, emitting, reader>>

\* ... the calls of a snapshot are ended one by one, if they have not yet ...
Shutdown(t) ==
    /\ pc[t] = "shutdown" /\ local[t].ending > 0
    /\ LET i == local[t].inst IN
         \/ /\ calls[i] > 0
            /\ calls' = [calls EXCEPT ![i] = @ - 1]
            /\ local' = [local EXCEPT ![t].ending = @ - 1, ![t].emits = 2]
            /\ Goto(t, "emit")
         \/ /\ calls[i] < local[t].ending
            /\ local' = [local EXCEPT ![t].ending = @ - 1]
            /\ UNCHANGED <<calls, pc>>
    /\ UNCHANGED <<mapVars, handlers, connected, chanVars, cancelled, emitting, reader>>

\* ... each end reported by OnStateChange and by OnEnded, in this goroutine ...
EndEmits(t) ==
    /\ pc[t] = "emit"
    /\ LET i == local[t].inst IN
         /\ events[i] = "open" /\ queue[i] < Capacity
         /\ queue' = [queue EXCEPT ![i] = @ + 1]
    /\ local' = [local EXCEPT ![t].emits = @ - 1]
    /\ Goto(t, IF local[t].emits = 1 THEN "shutdown" ELSE "emit")
    /\ UNCHANGED <<mapVars, instVars, events, cancelled, emitting, reader>>

ShutdownReturns(t) ==
    /\ pc[t] = "shutdown" /\ local[t].ending = 0
    /\ Goto(t, "disconnect")
    /\ UNCHANGED <<mapVars, instVars, chanVars, cancelled, emitting, reader, local>>

\* ... then the connection, the channel, and last the context.
Disconnect(t) ==
    /\ pc[t] = "disconnect"
    /\ connected' = connected \ {local[t].inst}
    /\ Goto(t, "close")
    /\ UNCHANGED <<mapVars, handlers, calls, chanVars, cancelled, emitting, reader, local>>

CloseEvents(t) ==
    /\ pc[t] = "close"
    /\ events' = [events EXCEPT ![local[t].inst] = "closed"]
    /\ Goto(t, "forget")
    /\ UNCHANGED <<mapVars, instVars, queue, cancelled, emitting, reader, local>>

ForgetEvents(t) ==
    /\ pc[t] = "forget"
    /\ events' = [events EXCEPT ![local[t].inst] = "nil"]
    /\ Goto(t, "cancel_context")
    /\ UNCHANGED <<mapVars, instVars, queue, cancelled, emitting, reader, local>>

CancelContext(t) ==
    /\ pc[t] = "cancel_context"
    /\ cancelled' = cancelled \cup {local[t].inst}
    /\ Finish(t)
    /\ UNCHANGED <<mapVars, instVars, chanVars, emitting, reader>>

-----------------------------------------------------------------------------
(* Events.  handleEvent starts a goroutine for each event; a handler that  *)
(* was registered twice starts two.                                        *)

Event(g, i) ==
    /\ emitting[g] = None
    /\ i \in connected /\ handlers[i] > 0
    /\ emitting' = [emitting EXCEPT ![g] = i]
    /\ \/ UNCHANGED calls
       \/ calls[i] < MaxCalls /\ calls' = [calls EXCEPT ![i] = @ + 1]
       \/ calls[i] > 0 /\ calls' = [calls EXCEPT ![i] = @ - 1]
    /\ UNCHANGED <<mapVars, handlers, connected, chanVars, cancelled, reader, thrVars>>

\* emitEvent: the event is sent ...
Send(g) ==
    /\ emitting[g] # None
    /\ events[emitting[g]] = "open" /\ queue[emitting[g]] < Capacity
    /\ queue' = [queue EXCEPT ![emitting[g]] = @ + 1]
    /\ emitting' = [emitting EXCEPT ![g] = None]
    /\ UNCHANGED <<mapVars, instVars, events, cancelled, reader, thrVars>>

\* ... or dropped: the context is done, or the channel is closed, and the
\* panic of the send recovered.
Drop(g) ==
    /\ emitting[g] # None
    /\ emitting[g] \in cancelled \/ events[emitting[g]] # "open"
    /\ emitting' = [emitting EXCEPT ![g] = None]
    /\ UNCHANGED <<mapVars, instVars, chanVars, cancelled, reader, thrVars>>

\* The goroutine of a subscription first reads the field `events`, which Stop
\* may have set to nil.
ReaderStarts(s) ==
    /\ reader[s].stage = "starting"
    /\ reader' = [reader EXCEPT
         ![s].stage = IF events[reader[s].inst] = "nil" THEN "deaf" ELSE "reading"]
    /\ UNCHANGED <<mapVars, instVars, chanVars, cancelled, emitting, thrVars>>

\* Mutant: a reader that takes what is there when it starts.
ReadOnce(s) ==
    /\ reader[s].stage = "reading" /\ queue[reader[s].inst] > 0
    /\ queue' = [queue EXCEPT ![reader[s].inst] = @ - 1]
    /\ reader' = [reader EXCEPT ![s].stage = "deaf"]
    /\ UNCHANGED <<mapVars, instVars, events, cancelled, emitting, thrVars>>

\* SendEventToAllListeners drops what a slow listener has no room for, so it
\* does not block.
Read(s) ==
    /\ reader[s].stage = "reading" /\ queue[reader[s].inst] > 0
    /\ queue' = [queue EXCEPT ![reader[s].inst] = @ - 1]
    /\ UNCHANGED <<mapVars, instVars, events, cancelled, emitting, reader, thrVars>>

\* The reader ends with its context, or after the last event of a closed channel.
ReaderEnds(s) ==
    /\ \/ reader[s].stage \in {"reading", "deaf"} /\ s \in cancelled
       \/ /\ reader[s].stage = "reading"
          /\ events[reader[s].inst] # "open" /\ queue[reader[s].inst] = 0
    /\ reader' = [reader EXCEPT ![s].stage = "done"]
    /\ UNCHANGED <<mapVars, instVars, chanVars, cancelled, emitting, thrVars>>

-----------------------------------------------------------------------------
Step(t) ==
    \/ Subscribe(t) \/ ManagerStart(t) \/ AddHandler(t) \/ Connect(t)
    \/ CancelSub(t) \/ ManagerStop(t) \/ RemoveHandler(t)
    \/ Shutdown(t) \/ EndEmits(t) \/ ShutdownReturns(t)
    \/ Disconnect(t) \/ CloseEvents(t) \/ ForgetEvents(t) \/ CancelContext(t)

Next ==
    \/ \E t \in Threads : Build(t) \/ StopSession(t) \/ Step(t)
    \/ \E g \in Emitters, i \in Instances : Event(g, i)
    \/ \E g \in Emitters : Send(g) \/ Drop(g)
    \/ \E s \in Subs : ReaderStarts(s) \/ Read(s) \/ ReaderEnds(s)

Spec == Init /\ [][Next]_vars

\* RPCs and readers run; a select takes a case that stays ready, and senders
\* that wait on a channel are served in their order, so that one that is
\* served time and again serves them all.  The recovered panic is not relied
\* on: a sender that came after the close waits on a nil channel.
FairSpec ==
    /\ Spec
    /\ \A t \in Threads : WF_vars(Step(t)) /\ SF_vars(EndEmits(t))
    /\ \A g \in Emitters :
         /\ SF_vars(Send(g))
         /\ WF_vars(Drop(g) /\ emitting[g] \in cancelled)
    /\ \A s \in Subs : WF_vars(ReaderStarts(s)) /\ WF_vars(Read(s)) /\ WF_vars(ReaderEnds(s))

-----------------------------------------------------------------------------
TypeOK ==
    /\ sessions \in Instances \cup {None}
    /\ built \in SUBSET Instances
    /\ handlers \in [Instances -> Nat]
    /\ connected \in SUBSET Instances
    /\ calls \in [Instances -> 0 .. MaxCalls]
    /\ events \in [Instances -> {"open", "closed", "nil"}]
    /\ queue \in [Instances -> 0 .. Capacity]
    /\ cancelled \in SUBSET (Instances \cup Subs)
    /\ emitting \in [Emitters -> Instances \cup {None}]
    /\ eventSubs \in Subs \cup {None}
    /\ reader \in [Subs -> Readers]
    /\ pc \in [Threads -> Labels]
    /\ local \in [Threads -> Locals]

\* Its goroutine runs, and may go on.
Listening(s) == reader[s].stage \in {"starting", "reading", "deaf"} /\ s \notin cancelled

\* Whoever finds the session in the map finds an instance that nobody is
\* stopping: its channel is open and its context is not cancelled.
MappedIsLive ==
    sessions # None =>
        /\ events[sessions] = "open" /\ sessions \notin cancelled
        /\ \A t \in Threads : pc[t] \in StopLabels => local[t].inst # sessions

\* An instance is stopped by one StopSession only, however many race with each
\* other and with StartSession: a second would close its channel again, which
\* panics.
StoppedOnce ==
    \A t, u \in Threads :
        pc[t] \in StopLabels /\ pc[u] \in StopLabels /\ local[t].inst = local[u].inst
            => t = u

\* A reader that runs is the registered subscription, or one that StopSession
\* has taken and is about to cancel: there is never a reader that nothing can
\* stop.
NoStrayReader ==
    \A s \in Subs : Listening(s) =>
        eventSubs = s \/ \E t \in Threads : pc[t] = "cancel_sub" /\ local[t].sub = s

\* While somebody reads the session's events, a full channel delays those that
\* send and does not stop them.
EventsFlow ==
    \A g \in Emitters, s \in Subs :
        emitting[g] # None /\ emitting[g] = reader[s].inst /\ Listening(s)
            ~> emitting[g] = None \/ ~Listening(s)

-----------------------------------------------------------------------------
(* What the repository says of sessions and the code does not do.          *)

\* callctl/controller.go:292 - Shutdown ends all calls and releases resources:
\* it returns, and StopSession with it.
StopReturns == \A t \in Threads : pc[t] = "shutdown" ~> pc[t] = "idle"

\* server/session.go:90 - StartSession subscribes to the events of the session
\* it starts: when no RPC is under way, a session that was started has a
\* reader.
StartedHasReader ==
    (\A t \in Threads : pc[t] = "idle") /\ sessions # None
        => (handlers[sessions] > 0 =>
              \E s \in Subs : Listening(s) /\ reader[s].inst = sessions)
===============================================================================
