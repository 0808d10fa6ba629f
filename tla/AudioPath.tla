------------------------------- MODULE AudioPath -------------------------------
(***************************************************************************)
(* The audio of a call from one CallManager to another: RTP sequence       *)
(* numbers and time stamps, the SRTP packet index on both sides, and the   *)
(* alignment of what is played.  Every connection of the receiver handles  *)
(* its packets in a goroutine of its own, and the SRTP context is guarded  *)
(* by no lock: its reads and writes are steps of their own.  A frame is    *)
(* its number; numbers wrap at SeqSpace and TsSpace (2^16 and 2^32).       *)
(***************************************************************************)
EXTENDS Naturals, Sequences

CONSTANTS
    Conns,       \* connections that carry every packet
    Frame,       \* samples of a frame: 960
    NoiseLengths, \* samples of what was decrypted with a wrong index
    SeqSpace, TsSpace,
    MaxGap,      \* maxGapSamples: 8000
    Starts,      \* where randUint starts: [seq, ts]
    MaxPackets,  \* bound
    MaxLate      \* bound: packets sent after one that still arrives

\* Halves of the space of sequence numbers differ.
ASSUME AudioPathAssumption ==
    /\ {Frame, SeqSpace, TsSpace} \subseteq Nat \ {0} /\ SeqSpace > 2
    /\ NoiseLengths \subseteq Nat \ {0}
    /\ {MaxGap, MaxPackets, MaxLate} \subseteq Nat
    /\ Starts \subseteq [seq : 0 .. SeqSpace - 1, ts : 0 .. TsSpace - 1]

\* The time stamps of a call tell its packets apart: 74 hours of sound.
ASSUME CallIsShort ==
    \A x \in NoiseLengths \cup {Frame} : MaxPackets * Frame + x + MaxGap < TsSpace

VARIABLES
    rtp,       \* the sender's RtpSession
    sendCtx,   \* its SrtpContext
    sent,      \* the packets it broadcast
    net,       \* <<connection, packet number>> under way
    recvCtx,   \* the receiver's SrtpContext
    recvPc, handled,  \* of each connection's goroutine: its step, its packet,
    counted, samples, \* the roc it read, the samples it decoded
    timeline,  \* audioTimelineSet, audioBaseTs, audioPlayedSamples
    played,    \* samples handed to OnPeerAudio
    arrived,   \* history: the packet lastSeq is from, as its number
    skewed,    \* history: one was further from the one before than a wrap allows
    crossed,   \* history: connections whose packet met another's wrap
    torn,      \* history: one of these wrote on
    heard      \* history: first and last frame played, its samples, the way back

sendVars == <<rtp, sendCtx, sent>>
srtpVars == <<recvCtx, counted, arrived, crossed, torn>>
playVars == <<timeline, played, heard>>
audioVars == <<sendVars, net, srtpVars, recvPc, handled, skewed, samples, playVars>>

-----------------------------------------------------------------------------
(* SrtpContext.                                                            *)

NewSrtpContext == [roc |-> 0, lastSeq |-> 0, initialized |-> FALSE]

\* Mutant: every step back is a wrap.
WrapsEarly(c, seq) == c.initialized /\ c.lastSeq > seq

Wraps(c, seq) == c.initialized /\ c.lastSeq > seq + SeqSpace \div 2

\* As the sender runs it, whose send loop is alone.
UpdateRoc(c, seq) ==
    [roc |-> IF Wraps(c, seq) THEN c.roc + 1 ELSE c.roc, lastSeq |-> seq, initialized |-> TRUE]

PacketIndex(c, seq) == c.roc * SeqSpace + seq

-----------------------------------------------------------------------------
AudioInit ==
    /\ rtp \in Starts
    /\ sendCtx = NewSrtpContext
    /\ sent = <<>>
    /\ net = {}
    /\ recvCtx = NewSrtpContext
    /\ recvPc = [c \in Conns |-> "idle"]
    /\ handled = [c \in Conns |-> 0]
    /\ counted = [c \in Conns |-> 0]
    /\ samples = [c \in Conns |-> 0]
    /\ timeline = [set |-> FALSE, base |-> 0, played |-> 0]
    /\ played = 0
    /\ arrived = 0
    /\ skewed = FALSE
    /\ crossed = {}
    /\ torn = FALSE
    /\ heard = [first |-> 0, last |-> 0, len |-> 0, back |-> 0, jumped |-> FALSE]

\* A tick of the send loop, with captured sound or silence: the session stamps
\* the packet and moves on, the packet goes over every open connection.
SendFrame ==
    /\ Len(sent) < MaxPackets
    /\ LET ctx == UpdateRoc(sendCtx, rtp.seq)
           packet == [seq |-> rtp.seq, ts |-> rtp.ts, index |-> PacketIndex(ctx, rtp.seq)]
       IN  /\ sendCtx' = ctx
           /\ sent' = Append(sent, packet)
           /\ rtp' = [seq |-> (rtp.seq + 1) % SeqSpace, ts |-> (rtp.ts + Frame) % TsSpace]
    /\ net' = {x \in net : x[2] + MaxLate > Len(sent)} \cup (Conns \X {Len(sent) + 1})
    /\ UNCHANGED <<srtpVars, recvPc, handled, skewed, samples, playVars>>

\* How far apart packets may be for their wraps to be counted.
Epoch(n) == sent[n].index \div SeqSpace
Countable(n) ==
    IF arrived = 0 THEN Epoch(n) = 0
    ELSE \/ Epoch(n) = Epoch(arrived) /\ arrived <= n + SeqSpace \div 2
         \/ Epoch(n) = Epoch(arrived) + 1 /\ 2 * (n - arrived) < SeqSpace

\* handleAudioRelayData as far as Unprotect's updateRoc, which compares the
\* packet with the last one.  The history of crossed begins here: another
\* connection has counted a wrap and not written lastSeq yet.
Receive(c) ==
    /\ recvPc[c] = "idle"
    /\ \E n \in 1 .. Len(sent) :
         /\ <<c, n>> \in net
         /\ net' = net \ {<<c, n>>}
         /\ handled' = [handled EXCEPT ![c] = n]
         /\ skewed' = (skewed \/ ~Countable(n))
         /\ recvPc' = [recvPc EXCEPT ![c] = IF Wraps(recvCtx, sent[n].seq) THEN "wrap" ELSE "store"]
    /\ crossed' = crossed \cup {d \in {c} : \E e \in Conns : recvPc[e] = "raised"}
    /\ UNCHANGED <<sendVars, recvCtx, counted, arrived, torn, samples, playVars>>

\* c.roc++ is a read
ReadRoc(c) ==
    /\ recvPc[c] = "wrap"
    /\ counted' = [counted EXCEPT ![c] = recvCtx.roc]
    /\ recvPc' = [recvPc EXCEPT ![c] = "raise"]
    /\ UNCHANGED <<sendVars, net, recvCtx, arrived, crossed, torn, handled, skewed, samples, playVars>>

\* and a write.
RaiseRoc(c) ==
    /\ recvPc[c] = "raise"
    /\ recvCtx' = [recvCtx EXCEPT !.roc = counted[c] + 1]
    /\ counted' = [counted EXCEPT ![c] = 0]
    /\ recvPc' = [recvPc EXCEPT ![c] = "raised"]
    /\ torn' = (torn \/ c \in crossed)
    /\ crossed' = crossed \cup {d \in Conns \ {c} : recvPc[d] \notin {"idle", "align"}}
    /\ UNCHANGED <<sendVars, net, arrived, handled, skewed, samples, playVars>>

StoreSeq(c) ==
    /\ recvPc[c] \in {"store", "raised"}
    /\ recvCtx' = [recvCtx EXCEPT !.lastSeq = sent[handled[c]].seq, !.initialized = TRUE]
    /\ arrived' = handled[c]
    /\ torn' = (torn \/ c \in crossed)
    /\ recvPc' = [recvPc EXCEPT ![c] = "index"]
    /\ UNCHANGED <<sendVars, net, counted, crossed, handled, skewed, samples, playVars>>

Right(c) == PacketIndex(recvCtx, sent[handled[c]].seq) = sent[handled[c]].index

\* The packet index is computed from the context as it is then.  Decrypted with
\* another index a frame is noise, which the codec takes for whatever its first
\* octets say: it refuses nothing.
Decode(c) ==
    /\ recvPc[c] = "index"
    /\ \E len \in IF Right(c) THEN {Frame} ELSE NoiseLengths : samples' = [samples EXCEPT ![c] = len]
    /\ recvPc' = [recvPc EXCEPT ![c] = "align"]
    /\ crossed' = crossed \ {c}
    /\ UNCHANGED <<sendVars, net, recvCtx, counted, arrived, torn, handled, skewed, playVars>>

\* Mutant: time stamps are subtracted as 64-bit numbers.
GapUnwrapped(ts) == IF ts >= timeline.base + timeline.played
                    THEN {ts - timeline.base - timeline.played} ELSE {}

\* Samples between what has been played and ts: {} when that is in the past.
Gap(ts) ==
    LET target == (TsSpace + ts - timeline.base) % TsSpace
    IN  IF target >= timeline.played THEN {target - timeline.played} ELSE {}

\* alignPeerAudio and OnPeerAudio: a short gap is filled with silence, at a long
\* one or a step back time starts again.  In the history, start is where the
\* frame belongs and end where the one before it, heard.last, has ended.
Align(c) ==
    LET n == handled[c]
        ts == sent[n].ts
        fill == IF timeline.set THEN {g \in Gap(ts) : g <= MaxGap} ELSE {}
        pad == IF fill = {} THEN 0 ELSE CHOOSE g \in fill : TRUE
        start == n * Frame
        end == heard.last * Frame + heard.len
    IN  /\ recvPc[c] = "align"
        /\ timeline' =
             IF fill = {} THEN [set |-> TRUE, base |-> ts, played |-> samples[c]]
             ELSE [timeline EXCEPT !.played = @ + pad + samples[c]]
        /\ played' = played + pad + samples[c]
        /\ heard' =
             [first |-> IF heard.last = 0 THEN n ELSE heard.first,
              last |-> n,
              len |-> samples[c],
              back |-> IF end > start THEN heard.back + end - start ELSE heard.back,
              jumped |-> heard.jumped \/ (heard.last > 0 /\ start > end + MaxGap)]
        /\ samples' = [samples EXCEPT ![c] = 0]
        /\ handled' = [handled EXCEPT ![c] = 0]
        /\ recvPc' = [recvPc EXCEPT ![c] = "idle"]
        /\ UNCHANGED <<sendVars, net, srtpVars, skewed>>

AudioNext ==
    \/ SendFrame
    \/ \E c \in Conns :
         Receive(c) \/ ReadRoc(c) \/ RaiseRoc(c) \/ StoreSeq(c) \/ Decode(c) \/ Align(c)

AudioSpec == AudioInit /\ [][AudioNext]_audioVars

-----------------------------------------------------------------------------
\* Both ends count the same packets: the sender's index never falls behind the
\* number of packets, over any number of wraps, and the receiver decrypts with
\* the sender's index although packets are lost, repeated by the second
\* connection and reordered.  What breaks it for good is a packet that is late
\* over a wrap, half the space lost at once or a first packet from after the
\* wrap (skewed), and a connection that was between the steps of updateRoc while
\* another counted a wrap and that then counts one too or stores an older
\* sequence number (torn); for one packet, a wrap counted between its updateRoc
\* and its index (crossed).
IndexesAgree ==
    /\ \A n \in DOMAIN sent : sent[n].index = sent[1].index + n - 1
    /\ \A c \in Conns :
         recvPc[c] = "index" /\ ~skewed /\ ~torn /\ c \notin crossed => Right(c)

\* What is played keeps time with what was sent, over the wrap of the time
\* stamps, with lost frames filled in, and with noise of any length.  A frame
\* that comes before the last one has ended, late or because that was noise of
\* more than a frame, is played all the same, and what follows a late one fills
\* the way back with silence once more: that delay is never made up for.
PlaysInTime ==
    heard.last > 0 /\ ~heard.jumped =>
        played + heard.first * Frame = heard.last * Frame + heard.len + heard.back
===============================================================================
