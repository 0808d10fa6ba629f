----------------------------- MODULE EventStreams -----------------------------
(***************************************************************************)
(* How the events of a session reach the clients that called StreamEvents: *)
(* a goroutine of StartSession hands every event to the listeners of the   *)
(* session under a read lock, and every stream reads its own channel.      *)
(* Forwarders of earlier starts of the session may still be at work.       *)
(***************************************************************************)
EXTENDS Integers, Sequences, SequencesExt, FiniteSets

CONSTANTS
    Streams,        \* calls of StreamEvents for the session
    Forwarders,     \* one per StartSession that subscribed
    Feed,           \* forwarder -> the kinds of the events it will find, in order
    Excluded,       \* stream -> the kinds its client does not want
    Unmarshalable,  \* kinds for which safeMarshal returns ""
    Buffer          \* capacity of a listener's channel: 1,000

ASSUME StreamsAssumption ==
    /\ Buffer \in Nat \ {0}
    /\ Feed \in [Forwarders -> Seq(STRING)]
    /\ Excluded \in [Streams -> SUBSET STRING]

VARIABLES
    fwd,        \* "recv", "asking" for the read lock, "handing" or "done"
    taken,      \* how many events a forwarder has received
    todo,       \* the listeners that have yet to be handed its event
    stream,     \* "new", "adding", "waiting", "sending", "leaving" or "gone"
    listeners,  \* s.listeners[session]
    channel,    \* what a listener's channel holds
    held,       \* the event a stream is sending: a sequence of at most one
    delivered,  \* what the client of a stream got
    missed      \* history: the events that were dropped

fwdVars == <<fwd, taken, todo>>
streamVars == <<stream, listeners, channel, held, delivered, missed>>
eventVars == <<fwdVars, streamVars>>

EventsInit ==
    /\ fwd = [f \in Forwarders |-> "recv"]
    /\ taken = [f \in Forwarders |-> 0]
    /\ todo = [f \in Forwarders |-> {}]
    /\ stream = [s \in Streams |-> "new"]
    /\ listeners = {}
    /\ channel = [s \in Streams |-> <<>>]
    /\ held = [s \in Streams |-> <<>>]
    /\ delivered = [s \in Streams |-> <<>>]
    /\ missed = [s \in Streams |-> {}]

\* The RWMutex listenersLock: a writer that waits keeps new readers out.
Readers == {f \in Forwarders : fwd[f] = "handing"}
Writers == {s \in Streams : stream[s] \in {"adding", "leaving"}}

-----------------------------------------------------------------------------
(* The forwarders.                                                         *)

\* Whether or not its context is cancelled: a select with both may choose either.
Receive(f) ==
    /\ fwd[f] = "recv"
    /\ taken[f] < Len(Feed[f])
    /\ taken' = [taken EXCEPT ![f] = @ + 1]
    /\ fwd' = [fwd EXCEPT ![f] = "asking"]
    /\ UNCHANGED <<todo, streamVars>>

\* StopSession has cancelled the context.
Finish(f) ==
    /\ fwd[f] = "recv"
    /\ fwd' = [fwd EXCEPT ![f] = "done"]
    /\ UNCHANGED <<taken, todo, streamVars>>

ReadLock(f) ==
    /\ fwd[f] = "asking"
    /\ Writers = {}
    /\ fwd' = [fwd EXCEPT ![f] = "handing"]
    /\ todo' = [todo EXCEPT ![f] = listeners]
    /\ UNCHANGED <<taken, streamVars>>

\* Mutant: a channel without room makes the forwarder wait.
HandWaits(f, s) ==
    /\ s \in todo[f]
    /\ todo' = [todo EXCEPT ![f] = @ \ {s}]
    /\ Len(channel[s]) < Buffer
    /\ channel' = [channel EXCEPT ![s] = Append(@, <<f, taken[f]>>)]
    /\ UNCHANGED <<fwd, taken, stream, listeners, held, delivered, missed>>

\* Mutant: the first channel without room ends the round.
HandStops(f, s) ==
    /\ s \in todo[f]
    /\ IF Len(channel[s]) < Buffer
       THEN /\ todo' = [todo EXCEPT ![f] = @ \ {s}]
            /\ channel' = [channel EXCEPT ![s] = Append(@, <<f, taken[f]>>)]
            /\ UNCHANGED missed
       ELSE /\ todo' = [todo EXCEPT ![f] = {}]
            /\ missed' = [missed EXCEPT ![s] = @ \cup {<<f, taken[f]>>}]
            /\ UNCHANGED channel
    /\ UNCHANGED <<fwd, taken, stream, listeners, held, delivered>>

\* The listeners come in the order of a map, which is any; a full channel drops.
Hand(f, s) ==
    /\ s \in todo[f]
    /\ todo' = [todo EXCEPT ![f] = @ \ {s}]
    /\ IF Len(channel[s]) < Buffer
       THEN /\ channel' = [channel EXCEPT ![s] = Append(@, <<f, taken[f]>>)]
            /\ UNCHANGED missed
       ELSE /\ missed' = [missed EXCEPT ![s] = @ \cup {<<f, taken[f]>>}]
            /\ UNCHANGED channel
    /\ UNCHANGED <<fwd, taken, stream, listeners, held, delivered>>

ReadUnlock(f) ==
    /\ fwd[f] = "handing"
    /\ todo[f] = {}
    /\ fwd' = [fwd EXCEPT ![f] = "recv"]
    /\ UNCHANGED <<taken, todo, streamVars>>

-----------------------------------------------------------------------------
(* StreamEvents.                                                           *)

Move(s, from, to) ==
    /\ stream[s] = from
    /\ stream' = [stream EXCEPT ![s] = to]

Open(s) ==
    /\ Move(s, "new", "adding")
    /\ UNCHANGED <<fwdVars, listeners, channel, held, delivered, missed>>

AddListener(s) ==
    /\ Move(s, "adding", "waiting")
    /\ Readers = {}
    /\ listeners' = listeners \cup {s}
    /\ UNCHANGED <<fwdVars, channel, held, delivered, missed>>

\* Of an event: whether the stream sends it on.
Visible(s, e) ==
    LET kind == Feed[e[1]][e[2]]
    IN  kind \notin Excluded[s] \cup Unmarshalable

Take(s) ==
    /\ stream[s] = "waiting"
    /\ channel[s] # <<>>
    /\ channel' = [channel EXCEPT ![s] = Tail(@)]
    /\ IF Visible(s, Head(channel[s]))
       THEN /\ Move(s, "waiting", "sending")
            /\ held' = [held EXCEPT ![s] = <<Head(channel[s])>>]
       ELSE UNCHANGED <<stream, held>>
    /\ UNCHANGED <<fwdVars, listeners, delivered, missed>>

\* stream.Send returns once the client has room for the event, or fails.
Send(s) ==
    /\ Move(s, "sending", "waiting")
    /\ delivered' = [delivered EXCEPT ![s] = @ \o held[s]]
    /\ held' = [held EXCEPT ![s] = <<>>]
    /\ UNCHANGED <<fwdVars, listeners, channel, missed>>

\* The client hangs up: the stream finds out when it waits or sends.
Leave(s) ==
    /\ Move(s, "waiting", "leaving") \/ Move(s, "sending", "leaving")
    /\ held' = [held EXCEPT ![s] = <<>>]
    /\ UNCHANGED <<fwdVars, listeners, channel, delivered, missed>>

\* Mutant: a listener is taken out of the map without the lock.
RemoveUnlocked(s) ==
    /\ Move(s, "leaving", "gone")
    /\ listeners' = listeners \ {s}
    /\ UNCHANGED <<fwdVars, channel, held, delivered, missed>>

\* The deferred removal, which closes the channel.
RemoveListener(s) ==
    /\ Move(s, "leaving", "gone")
    /\ Readers = {}
    /\ listeners' = listeners \ {s}
    /\ UNCHANGED <<fwdVars, channel, held, delivered, missed>>

ForwarderNext(f) ==
    Receive(f) \/ Finish(f) \/ ReadLock(f) \/ (\E s \in Streams : Hand(f, s)) \/ ReadUnlock(f)
StreamNext(s) ==
    Open(s) \/ AddListener(s) \/ Take(s) \/ Send(s) \/ Leave(s) \/ RemoveListener(s)
EventsNext == (\E f \in Forwarders : ForwarderNext(f)) \/ (\E s \in Streams : StreamNext(s))

\* The goroutines run; no client need ever read.
EventsFairness ==
    /\ \A f \in Forwarders :
         /\ WF_eventVars(ReadLock(f))
         /\ WF_eventVars(ReadUnlock(f))
         /\ \A s \in Streams : WF_eventVars(Hand(f, s))
    /\ \A s \in Streams :
         /\ WF_eventVars(AddListener(s))
         /\ WF_eventVars(RemoveListener(s))

EventsSpec == EventsInit /\ [][EventsNext]_eventVars /\ EventsFairness

-----------------------------------------------------------------------------
EventsTypeOK ==
    /\ fwd \in [Forwarders -> {"recv", "asking", "handing", "done"}]
    /\ taken \in [Forwarders -> Nat]
    /\ todo \in [Forwarders -> SUBSET Streams]
    /\ stream \in [Streams -> {"new", "adding", "waiting", "sending", "leaving", "gone"}]
    /\ listeners \subseteq Streams

\* server/events.go:73-86, 102-115 - an event is never sent into the channel of a
\* stream that has ended, which would stop the process: the listeners a forwarder
\* has yet to serve are those of the map, and all of them are open.
NeverSendsToClosed ==
    /\ \A f \in Forwarders : todo[f] \subseteq listeners
    /\ \A s \in listeners : stream[s] \in {"waiting", "sending", "leaving"}

\* server/events.go:50-70, 78-85 - what a client gets of one forwarder is in order
\* and without repetition, and has no gaps but for the events it did not want, that
\* could not be marshalled, or for which its own channel had no room.
Events(s) == delivered[s] \o held[s] \o channel[s]
Known(s) == Range(Events(s)) \cup missed[s]
InOrder(q) == \A i, j \in DOMAIN q : i < j /\ q[i][1] = q[j][1] => q[i][2] < q[j][2]
StreamHasNoGaps ==
    \A s \in Streams :
        /\ InOrder(Events(s))
        /\ stream[s] \in {"waiting", "sending"} =>
             \A a, b \in Known(s) : a[1] = b[1] =>
                \A n \in a[2] .. b[2] : Visible(s, <<a[1], n>>) => <<a[1], n>> \in Known(s)

\* server/events.go:78-85 - a client that does not read holds up nobody: every event
\* is handed on, and streams come and go.
SlowClientHoldsUpNobody ==
    /\ \A f \in Forwarders : []<>(fwd[f] \in {"recv", "done"})
    /\ \A s \in Streams : []<>(stream[s] \notin {"adding", "leaving"})
===============================================================================
