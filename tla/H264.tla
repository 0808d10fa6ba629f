--------------------------------- MODULE H264 ---------------------------------
(***************************************************************************)
(* How NAL units are put into RTP payloads and taken out again.  A NAL     *)
(* unit is a name and a length; the bytes of one, after its header byte,   *)
(* are the numbers 1 .. len - 1.  A payload is a whole unit, several units *)
(* (STAP-A), or a range of the bytes of one (FU-A).                        *)
(***************************************************************************)
EXTENDS Naturals, Sequences, SequencesExt, FiniteSetsExt

CONSTANTS
    Mtu,           \* mtuPayloadMax: 800
    MaxReassembly  \* maxFuReassemblyBytes: 4 MiB

NaluBytes(nalu) == [i \in 1 .. nalu.len - 1 |-> i]
Whole(nalu) == [name |-> nalu.name, bytes |-> NaluBytes(nalu)]

Single(nalu) == [kind |-> "single", units |-> <<Whole(nalu)>>]
Fragment(nalu, from, to) ==
    [kind |-> "fua", name |-> nalu.name, start |-> from = 1, end |-> to = nalu.len - 1,
     bytes |-> SubSeq(NaluBytes(nalu), from, to)]

PackageH264NALU(nalu) ==
    LET frag == Mtu - 2
        body == nalu.len - 1
        count == (body + frag - 1) \div frag
    IN  IF nalu.len = 0 THEN <<>>
        ELSE IF nalu.len <= Mtu THEN <<Single(nalu)>>
        ELSE [k \in 1 .. count |->
                 Fragment(nalu, (k - 1) * frag + 1, Min({k * frag, body}))]

\* {} where they do not fit.
PackageH264STAPA(nalus) ==
    IF /\ Len(nalus) >= 2 /\ \A i \in DOMAIN nalus : nalus[i].len > 0
       /\ 1 + FoldSeq(LAMBDA n, sum : sum + 2 + n.len, 0, nalus) <= Mtu
    THEN {[kind |-> "stapa", units |-> [i \in DOMAIN nalus |-> Whole(nalus[i])]]}
    ELSE {}

-----------------------------------------------------------------------------
(* H264Depacketizer.                                                       *)

NewDepacketizer == [active |-> FALSE, name |-> "", buf |-> <<>>]

\* The depacketizer after a payload.
AfterPayload(d, p) ==
    IF p.kind # "fua" THEN [d EXCEPT !.active = FALSE]
    ELSE LET buf == IF p.start THEN p.bytes ELSE d.buf \o p.bytes
             fits == p.start \/ Len(d.buf) + 1 + Len(p.bytes) <= MaxReassembly
         IN  IF ~p.start /\ ~d.active THEN d
             ELSE IF p.end \/ ~fits THEN [d EXCEPT !.active = FALSE, !.buf = <<>>]
             ELSE [active |-> TRUE, name |-> IF p.start THEN p.name ELSE d.name, buf |-> buf]

\* The units a payload completes.
Depacketize(d, p) ==
    IF p.kind # "fua" THEN p.units
    ELSE IF p.start /\ p.end THEN <<[name |-> p.name, bytes |-> p.bytes]>>
    ELSE IF p.end /\ d.active /\ Len(d.buf) + 1 + Len(p.bytes) <= MaxReassembly
    THEN <<[name |-> d.name, bytes |-> d.buf \o p.bytes]>>
    ELSE <<>>
===============================================================================
