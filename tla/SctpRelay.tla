------------------------------ MODULE SctpRelay ------------------------------
(***************************************************************************)
(* SctpRelayManager (voip/transport/sctprelay.go): the WebRTC connections  *)
(* of one call to its relays, listed by relay id, and the callbacks, timer *)
(* and tear-downs that race over them.  A critical section of m.mu is one  *)
(* step; conn.state is also written and read outside it, as in the code.   *)
(* The STUN registrations, pings and packets themselves are left out.      *)
(***************************************************************************)
EXTENDS Naturals, FiniteSets

CONSTANTS
    Ids,        \* relay ids, IP:port#token
    Conns,      \* the relayConnection objects that may be created
    None,
    MaxDials    \* bound: connectToRelay goroutines of a relay not yet listed

ASSUME SctpRelayAssumption ==
    /\ None \notin Ids \cup Conns
    /\ MaxDials \in Nat \ {0}

VARIABLES
    connections, \* m.connections
    dialing,     \* connectToRelay goroutines that have not listed their own
    id,          \* conn.id, None before the connection is made
    state,       \* conn.state
    peer,        \* the peer connection and its data channel
    stopped,     \* conn.stopCh is closed
    opening,     \* connections whose OnOpen callback has yet to run
    closing,     \* connections whose OnClose callback has yet to run
    timer,       \* connections whose timeout goroutine waits
    tearing,     \* tear-downs of each connection that have yet to run
    cleaned      \* Cleanup has run and nothing was configured since

connVars == <<id, state, peer, stopped>>
callVars == <<opening, closing, timer, tearing>>
vars == <<connections, dialing, connVars, callVars, cleaned>>

Listed(c) == \E i \in Ids : connections[i] = c

\* HasConnection: what the call manager asks before it connects or promotes.
HasConnection == \E c \in Conns : Listed(c) /\ state[c] = "open"

-----------------------------------------------------------------------------
Init ==
    /\ connections = [i \in Ids |-> None]
    /\ dialing = [i \in Ids |-> 0]
    /\ id = [c \in Conns |-> None]
    /\ state = [c \in Conns |-> "new"]
    /\ peer = [c \in Conns |-> "none"]
    /\ stopped = [c \in Conns |-> FALSE]
    /\ opening = {}
    /\ closing = {}
    /\ timer = {}
    /\ tearing = [c \in Conns |-> 0]
    /\ cleaned = FALSE

-----------------------------------------------------------------------------
(* Connecting.                                                             *)

\* ConfigureRelays starts a goroutine for a relay that is not listed.
ConfigureRelay(i) ==
    /\ connections[i] = None /\ dialing[i] < MaxDials
    /\ dialing' = [dialing EXCEPT ![i] = @ + 1]
    /\ cleaned' = FALSE
    /\ UNCHANGED <<connections, connVars, callVars>>

\* connectToRelay lists its connection, over whatever is listed by then.
ListConnection(i) ==
    /\ dialing[i] > 0
    /\ \E c \in Conns :
         /\ id[c] = None
         /\ id' = [id EXCEPT ![c] = i]
         /\ state' = [state EXCEPT ![c] = "connecting"]
         /\ peer' = [peer EXCEPT ![c] = "dialing"]
         /\ connections' = [connections EXCEPT ![i] = c]
    /\ dialing' = [dialing EXCEPT ![i] = @ - 1]
    /\ UNCHANGED <<stopped, callVars, cleaned>>

\* Mutant: a connection fails and stays listed.
FailUnlisted(c) ==
    /\ state' = [state EXCEPT ![c] = "failed"]
    /\ tearing' = [tearing EXCEPT ![c] = @ + 1]
    /\ UNCHANGED connections

\* failConnection deletes what is listed under the id, its own or not.
FailConnection(c) ==
    /\ state' = [state EXCEPT ![c] = "failed"]
    /\ tearing' = [tearing EXCEPT ![c] = @ + 1]
    /\ connections' = [connections EXCEPT ![id[c]] = None]

\* Mutant: no timeout is armed.
DialUntimed(c) ==
    /\ peer[c] = "dialing"
    /\ peer' = [peer EXCEPT ![c] = "connecting"]
    /\ UNCHANGED <<connections, dialing, id, state, stopped, callVars, cleaned>>

\* The peer connection is made and its timeout armed, whether or not the
\* connection has been torn down meanwhile.
Dial(c) ==
    /\ peer[c] = "dialing"
    /\ peer' = [peer EXCEPT ![c] = "connecting"]
    /\ timer' = timer \cup {c}
    /\ UNCHANGED <<connections, dialing, id, state, stopped, opening, closing,
                   tearing, cleaned>>

\* The peer connection cannot be made.
DialFails(c) ==
    /\ peer[c] = "dialing" /\ state[c] # "failed"
    /\ peer' = [peer EXCEPT ![c] = "closed"]
    /\ FailConnection(c)
    /\ UNCHANGED <<dialing, id, stopped, opening, closing, timer, cleaned>>

\* ICE fails or disconnects.
IceFails(c) ==
    /\ peer[c] \in {"connecting", "open"} /\ state[c] # "failed"
    /\ FailConnection(c)
    /\ UNCHANGED <<dialing, id, peer, stopped, opening, closing, timer, cleaned>>

\* 20 seconds have passed; the state is read without the lock.
Timeout(c) ==
    /\ c \in timer
    /\ timer' = timer \ {c}
    /\ IF state[c] = "connecting"
       THEN FailConnection(c)
       ELSE UNCHANGED <<connections, state, tearing>>
    /\ UNCHANGED <<dialing, id, peer, stopped, opening, closing, cleaned>>

TimerStops(c) ==
    /\ c \in timer /\ stopped[c]
    /\ timer' = timer \ {c}
    /\ UNCHANGED <<connections, dialing, connVars, opening, closing, tearing, cleaned>>

-----------------------------------------------------------------------------
(* The data channel.                                                       *)
ChannelOpens(c) ==
    /\ peer[c] = "connecting"
    /\ peer' = [peer EXCEPT ![c] = "open"]
    /\ opening' = opening \cup {c}
    /\ UNCHANGED <<connections, dialing, id, state, stopped, closing, timer, tearing, cleaned>>

\* OnOpen writes the state without the lock, whatever it was, and reports the
\* connection to the call manager.
OnOpen(c) ==
    /\ c \in opening
    /\ opening' = opening \ {c}
    /\ state' = [state EXCEPT ![c] = "open"]
    /\ UNCHANGED <<connections, dialing, id, peer, stopped, closing, timer, tearing, cleaned>>

\* The relay closes the channel.
ChannelCloses(c) ==
    /\ peer[c] = "open"
    /\ peer' = [peer EXCEPT ![c] = "closed"]
    /\ closing' = closing \cup {c}
    /\ UNCHANGED <<connections, dialing, id, state, stopped, opening, timer, tearing, cleaned>>

\* Mutant: only a connection still connecting is closed.
OnCloseConnecting(c) ==
    /\ c \in closing
    /\ closing' = closing \ {c}
    /\ LET d == connections[id[c]] IN
         IF d = None \/ (d # None /\ state[d] # "connecting")
         THEN UNCHANGED <<connections, state, tearing>>
         ELSE /\ state' = [state EXCEPT ![d] = "closed"]
              /\ connections' = [connections EXCEPT ![id[c]] = None]
              /\ tearing' = [tearing EXCEPT ![d] = @ + 1]
    /\ UNCHANGED <<dialing, id, peer, stopped, opening, timer, cleaned>>

\* OnClose closes what is listed under the id: closeConnection.
OnClose(c) ==
    /\ c \in closing
    /\ closing' = closing \ {c}
    /\ LET d == connections[id[c]] IN
         IF d = None
         THEN UNCHANGED <<connections, state, tearing>>
         ELSE /\ state' = [state EXCEPT ![d] = "closed"]
              /\ connections' = [connections EXCEPT ![id[c]] = None]
              /\ tearing' = [tearing EXCEPT ![d] = @ + 1]
    /\ UNCHANGED <<dialing, id, peer, stopped, opening, timer, cleaned>>

-----------------------------------------------------------------------------
(* Tearing down.                                                           *)

\* teardown closes what the connection has by now; the channel reports it.
Teardown(c) ==
    /\ tearing[c] > 0
    /\ tearing' = [tearing EXCEPT ![c] = @ - 1]
    /\ stopped' = [stopped EXCEPT ![c] = TRUE]
    /\ IF peer[c] = "dialing"
       THEN UNCHANGED <<peer, closing>>
       ELSE /\ peer' = [peer EXCEPT ![c] = "closed"]
            /\ closing' = closing \cup (IF peer[c] = "open" THEN {c} ELSE {})
    /\ UNCHANGED <<connections, dialing, id, state, opening, timer, cleaned>>

\* Cleanup leaves the state of the connections as it is.
Cleanup ==
    /\ ~cleaned
    /\ connections' = [i \in Ids |-> None]
    /\ tearing' = [c \in Conns |-> IF Listed(c) THEN tearing[c] + 1 ELSE tearing[c]]
    /\ cleaned' = TRUE
    /\ UNCHANGED <<dialing, connVars, opening, closing, timer>>

-----------------------------------------------------------------------------
Next ==
    \/ \E i \in Ids : ConfigureRelay(i) \/ ListConnection(i)
    \/ \E c \in Conns :
         \/ Dial(c) \/ DialFails(c) \/ IceFails(c) \/ Timeout(c) \/ TimerStops(c)
         \/ ChannelOpens(c) \/ OnOpen(c) \/ ChannelCloses(c) \/ OnClose(c)
         \/ Teardown(c)
    \/ Cleanup

Spec == Init /\ [][Next]_vars

\* The goroutines, the timer and the callbacks run; whether the network lets a
\* channel open or close is its own affair.
FairSpec ==
    /\ Spec
    /\ \A c \in Conns :
         WF_vars(Dial(c)) /\ WF_vars(Timeout(c)) /\ WF_vars(OnOpen(c))
            /\ WF_vars(OnClose(c)) /\ WF_vars(Teardown(c))

-----------------------------------------------------------------------------
TypeOK ==
    /\ connections \in [Ids -> Conns \cup {None}]
    /\ dialing \in [Ids -> 0 .. MaxDials]
    /\ id \in [Conns -> Ids \cup {None}]
    /\ state \in [Conns -> {"new", "connecting", "open", "failed", "closed"}]
    /\ peer \in [Conns -> {"none", "dialing", "connecting", "open", "closed"}]
    /\ stopped \in [Conns -> BOOLEAN]
    /\ opening \in SUBSET Conns
    /\ closing \in SUBSET Conns
    /\ timer \in SUBSET Conns
    /\ tearing \in [Conns -> Nat]
    /\ cleaned \in BOOLEAN

\* A failed or closed connection is never listed, though conn.state is written
\* outside the lock, timers and callbacks come late and connections of one id
\* replace each other: a relay that stayed listed would never be connected
\* again, for ConfigureRelays skips what is listed.
ListedIsAlive ==
    \A c \in Conns : Listed(c) => state[c] \in {"connecting", "open"}

\* A listed connection that says it is open has an open channel, or the
\* callback that will take it off the list is to come: HasConnection may err
\* only that long.
ListedOpenIsReal ==
    \A c \in Conns : Listed(c) /\ state[c] = "open" /\ peer[c] # "open"
        => c \in closing

\* What is torn down stays off the list.
TornDownIsUnlisted ==
    \A c \in Conns : stopped[c] \/ tearing[c] > 0 => ~Listed(c)

\* A relay that never answers does not stay listed.
DialSettles ==
    \A c \in Conns : Listed(c) /\ state[c] = "connecting"
        ~> ~Listed(c) \/ state[c] # "connecting"

-----------------------------------------------------------------------------
\* callctl/controller.go:292 - the end of a call releases its resources: once
\* Cleanup has run and no goroutine is left, no peer connection is open.
CleanupClosesAll ==
    /\ cleaned
    /\ opening = {} /\ closing = {} /\ timer = {}
    /\ \A i \in Ids : dialing[i] = 0
    /\ \A c \in Conns : tearing[c] = 0 /\ peer[c] # "dialing"
    => \A c \in Conns : peer[c] # "open"
==============================================================================
