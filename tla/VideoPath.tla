------------------------------- MODULE VideoPath -------------------------------
(***************************************************************************)
(* The video pipeline of a call: access units are split into RTP payloads, *)
(* broadcast over every connection, and put together again by goroutines,  *)
(* one to a connection, that share a depacketizer outside the pipeline's   *)
(* lock and a frame buffer under it.  Sequence numbers are not looked at.  *)
(* Packets decrypt as AudioPath says they do.                              *)
(***************************************************************************)
EXTENDS H264

CONSTANTS
    Links,      \* the connections
    Units,      \* what the camera delivers: sequences of NAL units
    MaxLag      \* bound: packets sent after one that still arrives

\* A fragment holds a byte at least, and SplitAnnexB finds no empty unit.
ASSUME VideoPathAssumption ==
    /\ Mtu \in Nat /\ Mtu > 2
    /\ MaxReassembly \in Nat
    /\ Units \in Seq(Seq([name : STRING, len : Nat \ {0}]))
    /\ MaxLag \in Nat

VARIABLES
    up,        \* Setup has run, Reset has not
    fed,       \* access units taken from the camera
    broadcast, \* payloads sent, with the marker bit
    links,     \* <<connection, packet number>> under way
    depack,    \* the H264Depacketizer
    frameBuf,
    linkPc, packet, units,  \* of each connection's goroutine
    clean,     \* history: the packet that would continue an undisturbed run
    frame      \* history: the last frame of such a run: {} or [au, units]

linkVars == <<linkPc, packet, units>>
videoVars == <<up, fed, broadcast, links, depack, frameBuf, linkVars, clean, frame>>

\* What FeedCaptured makes of an access unit.
Payloads(au) == FlattenSeq([i \in DOMAIN au |-> PackageH264NALU(au[i])])

\* A peer may put it into one aggregate.
Packed(au) == {Payloads(au)} \cup {<<a>> : a \in PackageH264STAPA(au)}

VideoInit ==
    /\ up = TRUE
    /\ fed = 0
    /\ broadcast = <<>>
    /\ links = {}
    /\ depack = NewDepacketizer
    /\ frameBuf = <<>>
    /\ linkPc = [c \in Links |-> "idle"]
    /\ packet = [c \in Links |-> 0]
    /\ units = [c \in Links |-> <<>>]
    /\ clean = 1
    /\ frame = {}

\* An access unit is sent whole or, when a channel is congested, not at all.
FeedCaptured ==
    /\ up /\ fed < Len(Units)
    /\ fed' = fed + 1
    /\ LET sent == Len(broadcast) IN
       \/ \E ps \in Packed(Units[fed']) :
            /\ broadcast' = broadcast \o
                 [i \in DOMAIN ps |-> [au |-> fed', payload |-> ps[i], marker |-> i = Len(ps)]]
            /\ links' = {x \in links : x[2] + MaxLag > sent}
                            \cup (Links \X (sent + 1 .. sent + Len(ps)))
       \/ UNCHANGED <<broadcast, links>>
    /\ UNCHANGED <<up, depack, frameBuf, linkVars, clean, frame>>

Alone(c) == \A d \in Links \ {c} : linkPc[d] = "idle"

\* HandleRelayData: Depacketize, outside the lock ...
HandleRelayData(c) ==
    /\ up /\ linkPc[c] = "idle"
    /\ \E n \in DOMAIN broadcast :
         /\ <<c, n>> \in links
         /\ links' = links \ {<<c, n>>}
         /\ packet' = [packet EXCEPT ![c] = n]
         /\ units' = [units EXCEPT ![c] = Depacketize(depack, broadcast[n].payload)]
         /\ depack' = AfterPayload(depack, broadcast[n].payload)
         /\ clean' = IF Alone(c) /\ n = clean THEN clean ELSE 0
    /\ linkPc' = [linkPc EXCEPT ![c] = "collect"]
    /\ UNCHANGED <<up, fed, broadcast, frameBuf, frame>>

\* Mutant: a marker closes a frame only if its packet completes a unit.
CollectLeavesRest(c) ==
    LET n == packet[c]
        buf == frameBuf \o units[c]
        done == broadcast[n].marker /\ units[c] # <<>>
    IN  /\ linkPc[c] = "collect"
        /\ frameBuf' = IF done THEN <<>> ELSE buf
        /\ frame' = IF broadcast[n].marker /\ n = clean THEN {[au |-> broadcast[n].au, units |-> buf]} ELSE {}
        /\ clean' = IF n = clean \/ (broadcast[n].marker /\ Alone(c)) THEN n + 1 ELSE clean
        /\ linkPc' = [linkPc EXCEPT ![c] = "idle"]
        /\ packet' = [packet EXCEPT ![c] = 0]
        /\ units' = [units EXCEPT ![c] = <<>>]
        /\ UNCHANGED <<up, fed, broadcast, links, depack>>

\* ... then its units are collected, and the marker closes the frame.
Collect(c) ==
    LET n == packet[c]
        buf == frameBuf \o units[c]
        done == broadcast[n].marker /\ buf # <<>>
    IN  /\ linkPc[c] = "collect"
        /\ frameBuf' = IF done THEN <<>> ELSE buf
        /\ frame' = IF broadcast[n].marker /\ n = clean THEN {[au |-> broadcast[n].au, units |-> buf]} ELSE {}
        /\ clean' = IF n = clean \/ (broadcast[n].marker /\ Alone(c)) THEN n + 1 ELSE clean
        /\ linkPc' = [linkPc EXCEPT ![c] = "idle"]
        /\ packet' = [packet EXCEPT ![c] = 0]
        /\ units' = [units EXCEPT ![c] = <<>>]
        /\ UNCHANGED <<up, fed, broadcast, links, depack>>

\* cleanupMedia; goroutines under way finish on what is left.
Reset ==
    /\ up
    /\ up' = FALSE
    /\ depack' = NewDepacketizer
    /\ frameBuf' = <<>>
    /\ UNCHANGED <<fed, broadcast, links, linkVars, clean, frame>>

VideoNext == FeedCaptured \/ Reset \/ \E c \in Links : HandleRelayData(c) \/ Collect(c)

VideoSpec == VideoInit /\ [][VideoNext]_videoVars

-----------------------------------------------------------------------------
\* The reassembly buffer holds every unit of an access unit.
Fits(au) == \A i \in DOMAIN au : au[i].len <= MaxReassembly

\* After a marker has been collected the receiver is in step again, whatever was
\* lost, repeated or mixed by two connections before: an access unit whose
\* packets then come one after the other is delivered whole, with nothing of an
\* earlier one in it, if no unit of it is longer than what may be put together;
\* and such a one disturbs none but itself.
CleanUnitsArriveWhole ==
    up => \A f \in frame : Fits(Units[f.au]) =>
             f.units = [i \in DOMAIN Units[f.au] |-> Whole(Units[f.au][i])]
===============================================================================
