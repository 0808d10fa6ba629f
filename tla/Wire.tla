--------------------------------- MODULE Wire ---------------------------------
(***************************************************************************)
(* What goes over a relay connection, byte by byte: the STUN messages that *)
(* register a connection and keep it alive, the subscriptions in them,     *)
(* answers of the relay, RTP packets, and how the other end tells them     *)
(* apart.  HMAC and CRC are external: sums that depend on every byte.      *)
(***************************************************************************)
EXTENDS Integers, Sequences, SequencesExt, FiniteSetsExt

CONSTANTS
    Relays,    \* of ConnectRelay's info: [auth, token, raw, key, ip, port, ufrag]
    Ssrcs,     \* values an SSRC may have, 0 is none
    Streams,   \* what SetStreamSsrcs may have set: [self, peer], no self if nothing
    Answers,   \* messages of the relay: [type, attrs]
    Headers,   \* of RTP: [pt, marker, csrc, ext, words, pad, seq, ts, ssrc]
    RtpPayloads,  \* of RTP
    TxId,      \* 12 bytes, random
    TieBreaker \* 8 bytes, random

VARIABLE wire  \* the packets of the last send, each with what it was meant to say

Cookie == <<33, 18, 164, 66>>

\* encodeAttribute's types.
Username == 6
Integrity == 8
ErrorCode == 9
XorRelayed == 22
Priority == 36
Subscriptions == 16384
SsrcList == 16420
StableRouting == 16435
Fingerprint == 32808
Controlling == 32810

Field16(v) == <<(v \div 256) % 256, v % 256>>
Field32(v) == Field16(v \div 65536) \o Field16(v)
Uint16(b, at) == b[at] * 256 + b[at + 1]
Uint32(b, at) == Uint16(b, at) * 65536 + Uint16(b, at + 2)
Zeros(n) == [i \in 1 .. n |-> 0]
Drop(b, n) == SubSeq(b, n + 1, Len(b))

\* A sum that four bytes at a time are added to.
OctetAt(b, i) == IF i <= Len(b) THEN b[i] ELSE 0
Mixed(b, k, sum) ==
    (sum * 31 + OctetAt(b, 4 * k - 3) + OctetAt(b, 4 * k - 2) * 3 + OctetAt(b, 4 * k - 1) * 5 + OctetAt(b, 4 * k) * 7) % 65521
DigestSum(b) ==
    LET words == Len(b) \div 4 + 1
        sum[k \in 0 .. words] == IF k = 0 THEN Len(b) ELSE Mixed(b, k, sum[k - 1])
    IN  sum[words]
Digest(b, n) == [i \in 1 .. n |-> (DigestSum(b) * i) % 251]
Hmac(key, b) == Digest(key \o <<1>> \o b, 20)
Crc32(b) == Digest(b, 4)

\* The bits in which two bytes differ.
XorByte(x, y) ==
    LET Bits(w) == IF (x \div w) % 2 = (y \div w) % 2 THEN 0 ELSE w
    IN  Bits(1) + Bits(2) + Bits(4) + Bits(8) + Bits(16) + Bits(32) + Bits(64) + Bits(128)
XorBytes(a, b) == [i \in 1 .. Len(a) |-> XorByte(a[i], b[i])]

-----------------------------------------------------------------------------
(* STUN.                                                                   *)

Padding(n) == (4 - (n % 4)) % 4
EncodeAttribute(type, data) ==
    Field16(type) \o Field16(Len(data)) \o data \o Zeros(Padding(Len(data)))

StunHeader(type, length, tx) == Field16(type) \o Field16(length) \o Cookie \o tx

\* Mutant: the length under the HMAC ends before the attribute.
WithIntegrityShort(type, attrs, key) ==
    IF key = <<>> THEN attrs
    ELSE attrs \o EncodeAttribute(Integrity, Hmac(key[1], StunHeader(type, Len(attrs), TxId) \o attrs))

\* "key" is <<>> for nil, or <<key>>, which may be empty.
WithIntegrity(type, attrs, key) ==
    IF key = <<>> THEN attrs
    ELSE attrs \o EncodeAttribute(Integrity, Hmac(key[1], StunHeader(type, Len(attrs) + 24, TxId) \o attrs))

BuildStunMessage(type, attrs, key, fingerprint) ==
    LET sealed == WithIntegrity(type, attrs, key)
        whole == IF ~fingerprint THEN sealed
                 ELSE sealed \o EncodeAttribute(Fingerprint,
                        Crc32(StunHeader(type, Len(sealed) + 8, TxId) \o sealed))
    IN  StunHeader(type, Len(whole), TxId) \o whole

EncodeXorRelayedAddress(ip, port) ==
    <<0, 1>> \o XorBytes(Field16(port), SubSeq(Cookie, 1, 2)) \o XorBytes(ip, Cookie)

Attribute(type, data) == [type |-> type, data |-> data]
Encoded(attrs) == FlattenSeq([i \in DOMAIN attrs |-> EncodeAttribute(attrs[i].type, attrs[i].data)])

Octets == 0 .. 255
Is16(v) == v \in Nat /\ v < 65536
Is32(v) == v \in Nat /\ v \div 65536 < 65536
IsText(b) == b \in Seq(Octets) /\ Len(b) < 16384
IsList(list) == list \in Seq(Nat) /\ Len(list) < 1000 /\ \A i \in DOMAIN list : Is32(list[i])

IsRelay(r) ==
    /\ IsText(r.auth) /\ IsText(r.token) /\ IsText(r.raw) /\ IsText(r.key) /\ IsText(r.ufrag)
    /\ r.ip \in Seq(Octets) /\ Len(r.ip) \in {0, 4} /\ r.port \in Nat
\* The two first bits of a STUN message are 0.
StunTypes == 0 .. 16383
IsAnswer(a) ==
    /\ a.type \in StunTypes /\ a.attrs \in Seq([type : {v \in Nat : Is16(v)}, data : Seq(Octets)])
    /\ Is16(Len(Encoded(a.attrs)))
IsHeader(h) ==
    /\ h \in [pt : 0 .. 127, marker : BOOLEAN, csrc : Seq(Nat), ext : BOOLEAN, words : Seq(Octets),
               pad : BOOLEAN, seq : Nat, ts : Nat, ssrc : Nat]
    /\ Is16(h.seq) /\ Is32(h.ts) /\ Is32(h.ssrc) /\ Len(h.csrc) < 16 /\ \A i \in DOMAIN h.csrc : Is32(h.csrc[i])
    /\ Len(h.words) % 4 = 0 /\ Is16(Len(h.words) \div 4) /\ (~h.ext => h.words = <<>>)
IsNonce(b, n) == b \in Seq(Octets) /\ Len(b) = n

\* What a relay is sent, and what it answers, has a length of 16 bits, and its
\* type is of STUN; integers are as wide as in the code.
InputsAreTyped ==
    /\ \A r \in Relays : IsRelay(r)
    /\ \A v \in Ssrcs : Is32(v)
    /\ \A s \in Streams : IsList(s.self) /\ IsList(s.peer)
    /\ \A a \in Answers : IsAnswer(a)
    /\ \A h \in Headers : IsHeader(h)
    /\ \A p \in RtpPayloads : p \in Seq(Octets)
    /\ IsNonce(TxId, 12) /\ IsNonce(TieBreaker, 8)
ASSUME WireAssumption == InputsAreTyped

BuildPing == StunHeader(2049, 0, TxId)

\* The attributes of BuildAllocateForRelay and of BuildBindingRequestWithSubs.
AllocateAttributes(raw, list, ip, port) ==
    <<Attribute(Subscriptions, raw), Attribute(SsrcList, list)>>
    \o (IF ip = <<>> \/ port = 0 THEN <<>>
        ELSE <<Attribute(XorRelayed, EncodeXorRelayedAddress(ip, port))>>)

BindingAttributes(username, subs, controlling) ==
    (IF username = <<>> THEN <<>> ELSE <<Attribute(Username, username)>>)
    \o <<Attribute(Priority, <<0, 255, 255, 255>>)>>
    \o (IF controlling THEN <<Attribute(Controlling, TieBreaker)>> ELSE <<>>)
    \o (IF subs = <<>> THEN <<>> ELSE <<Attribute(Subscriptions, subs)>>)

IsStunPacket(b) == Len(b) >= 2 /\ b[1] < 64
IsRtpPacket(b) == Len(b) >= 2 /\ b[1] \div 64 = 2

\* An attribute at an offset goes no further than the data; no further than the
\* length in the header only its first four bytes.
AttributeFits(b, o) ==
    o + 4 <= 20 + Uint16(b, 3) /\ o + 4 <= Len(b) /\ o + 4 + Uint16(b, o + 3) <= Len(b)
AfterAttribute(b, o) ==
    IF AttributeFits(b, o) THEN o + 4 + Uint16(b, o + 3) + Padding(Uint16(b, o + 3)) ELSE o
AttributeAt(b, o) ==
    Attribute(Uint16(b, o + 1), SubSeq(b, o + 5, o + 4 + Uint16(b, o + 3)))

AttributesAt(b) ==
    LET at[k \in 1 .. Len(b) + 1] == IF k = 1 THEN 20 ELSE AfterAttribute(b, at[k - 1])
    IN  at

ParseAttributes(b) ==
    LET at == AttributesAt(b)
        count == CHOOSE n \in 0 .. Len(b) :
                   ~AttributeFits(b, at[n + 1]) /\ \A k \in 1 .. n : AttributeFits(b, at[k])
    IN  [k \in 1 .. count |-> AttributeAt(b, at[k])]

ClassOf(type) ==
    <<"request", "indication", "success", "error">>[2 * ((type \div 256) % 2) + ((type \div 16) % 2) + 1]
MethodBits(type) == ((type \div 512) % 32) * 128 + ((type \div 32) % 8) * 16 + (type % 16)

\* Of a ping and of its answer.
PingTypes == {2049, 2050}

\* Methods the parser knows: binding, allocate, refresh, send, data,
\* create-permission, channel-bind.
MethodOf(type) ==
    IF type \in PingTypes THEN type
    ELSE IF MethodBits(type) \in {1, 3, 4, 6, 7, 8, 9} THEN MethodBits(type) ELSE 0

Unparsed == [type |-> -1, class |-> "none", method |-> 0, attrs |-> <<>>, error |-> 0, conn |-> <<>>]

ParseStunResponse(b) ==
    LET type == Uint16(b, 1)
        attrs == ParseAttributes(b)
        errors == {k \in DOMAIN attrs : attrs[k].type = ErrorCode /\ Len(attrs[k].data) >= 4}
        conns == {k \in DOMAIN attrs : attrs[k].type = StableRouting /\ Len(attrs[k].data) = 8}
    IN  IF Len(b) < 20 THEN Unparsed
        ELSE IF SubSeq(b, 5, 8) # Cookie
             THEN IF type \in PingTypes
                  THEN [Unparsed EXCEPT !.type = type, !.class = "indication", !.method = type]
                  ELSE Unparsed
        ELSE [type |-> type, class |-> ClassOf(type), method |-> MethodOf(type), attrs |-> attrs,
              error |-> IF errors = {} THEN 0
                        ELSE (attrs[Max(errors)].data[3] % 8) * 100 + attrs[Max(errors)].data[4],
              conn |-> IF ClassOf(type) # "success" \/ conns = {} THEN <<>> ELSE attrs[Max(conns)].data]

ClassifyPacket(b) ==
    IF Len(b) < 2 THEN "tiny"
    ELSE <<IF Len(b) >= 20 /\ ParseStunResponse(b) # Unparsed THEN "STUN" ELSE "STUN?",
           "DTLS?", "RTP/SRTP", "unknown">>[b[1] \div 64 + 1]

-----------------------------------------------------------------------------
(* Subscriptions.                                                          *)

\* Seven bits to a byte; 32 bits and a length need five.
Weights == <<1, 128, 16384, 2097152, 268435456>>

EncodeVarint(v) ==
    LET size == Min({n \in 1 .. 5 : v \div Weights[n] < 128})
    IN  [k \in 1 .. size |-> ((v \div Weights[k]) % 128) + (IF k < size THEN 128 ELSE 0)]

EncodeProtobufVarintField(field, v) == EncodeVarint(field * 8) \o EncodeVarint(v)
EncodeProtobufLengthDelimited(field, data) ==
    EncodeVarint(field * 8 + 2) \o EncodeVarint(Len(data)) \o data

BuildSenderSubscriptions(ssrc) ==
    EncodeProtobufLengthDelimited(1, EncodeProtobufVarintField(3, ssrc)
      \o EncodeProtobufVarintField(5, 0) \o EncodeProtobufVarintField(6, 0))

SubscriptionEntry(pid, ssrc) ==
    EncodeProtobufLengthDelimited(1, EncodeProtobufVarintField(1, pid)
      \o EncodeProtobufVarintField(2, 1) \o EncodeProtobufVarintField(3, ssrc))

Entries(list, pid) ==
    FlattenSeq([i \in DOMAIN list |-> IF list[i] = 0 THEN <<>> ELSE SubscriptionEntry(pid, list[i])])
BuildSsrcSubscriptionList(self, peer, selfPid, peerPid) == Entries(self, selfPid) \o Entries(peer, peerPid)

-----------------------------------------------------------------------------
(* RTP.                                                                    *)

Bit(x) == IF x THEN 1 ELSE 0

\* RtpHeader.Encode; the length of an extension is its whole words.
EncodeRtp(h, payload) ==
    << 128 + 32 * Bit(h.pad) + 16 * Bit(h.ext) + Len(h.csrc), 128 * Bit(h.marker) + h.pt >>
    \o Field16(h.seq) \o Field32(h.ts) \o Field32(h.ssrc)
    \o FlattenSeq([i \in DOMAIN h.csrc |-> Field32(h.csrc[i])])
    \o (IF h.ext THEN Field16(48862) \o Field16(Len(h.words) \div 4) \o h.words ELSE <<>>)
    \o payload

NoPacket == [h |-> [pt |-> -1], payload |-> <<>>]   \* an error
Panic == [h |-> [pt |-> -2], payload |-> <<>>]

\* DecodeRtpPacket.  An extension that is cut short after its own header is taken
\* for none, and what there is of it for the payload; where the header of the
\* extension is missing, the payload would begin behind the end of the buffer.
DecodeRtp(b) ==
    LET count == b[1] % 16
        offset == 12 + 4 * count
        ext == (b[1] \div 16) % 2 = 1
        size == 4 * Uint16(b, offset + 3)
        words == IF ext /\ Len(b) >= offset + 4 /\ Len(b) >= offset + 4 + size
                 THEN SubSeq(b, offset + 5, offset + 4 + size) ELSE <<>>
    IN  IF Len(b) < 12 \/ b[1] \div 64 # 2 \/ Len(b) < offset THEN NoPacket
        ELSE IF ext /\ Len(b) < offset + 4 THEN Panic
        ELSE [h |-> [pt |-> b[2] % 128, marker |-> b[2] >= 128, pad |-> (b[1] \div 32) % 2 = 1,
                     ext |-> ext, words |-> words, seq |-> Uint16(b, 3), ts |-> Uint32(b, 5),
                     ssrc |-> Uint32(b, 9),
                     csrc |-> [i \in 1 .. count |-> Uint32(b, 9 + 4 * i)]],
              payload |-> Drop(b, offset + (IF ext THEN 4 + Len(words) ELSE 0))]

\* onRelayData; RTPSsrc is what Receive tells the streams apart with.
Route(b) ==
    IF IsStunPacket(b) \/ ~IsRtpPacket(b) \/ Len(b) < 12 THEN "none"
    ELSE IF b[2] % 128 = 120 THEN "audio" ELSE IF b[2] % 128 = 97 THEN "video" ELSE "none"
RtpSsrc(b) == Uint32(b, 9)

-----------------------------------------------------------------------------
(* What is sent.                                                           *)

\* "streams" is history: what the message asks for.
Stun(type, attrs, key, fingerprint, streams) ==
    [kind |-> "stun", bytes |-> BuildStunMessage(type, Encoded(attrs), key, fingerprint),
     type |-> type, attrs |-> attrs, key |-> key, fingerprint |-> fingerprint,
     streams |-> streams]

AskedOf(list) == FlattenSeq([i \in DOMAIN list |-> IF list[i] = 0 THEN <<>> ELSE <<list[i]>>])

\* The four packets of sendStunRegistration's send, of which only the last but
\* one is always there.  An empty key is none to a binding, and a key to an
\* allocation.
Binding(relay, name, ssrc) ==
    IF name = <<>> \/ relay.ufrag = <<>> THEN <<>>
    ELSE <<Stun(1, BindingAttributes(name \o <<58>> \o relay.ufrag, BuildSenderSubscriptions(ssrc), TRUE),
                IF relay.key = <<>> THEN <<>> ELSE <<relay.key>>, TRUE, <<ssrc>>)>>
PlainBinding(ssrc) ==
    <<Stun(1, BindingAttributes(<<>>, BuildSenderSubscriptions(ssrc), FALSE), <<>>, FALSE, <<ssrc>>)>>
Allocation(relay, lists) ==
    IF relay.raw = <<>> THEN <<>>
    ELSE <<Stun(3, AllocateAttributes(relay.raw, BuildSsrcSubscriptionList(lists.self, lists.peer, 0, 0),
                                      relay.ip, relay.port),
                <<relay.key>>, FALSE, AskedOf(lists.self) \o AskedOf(lists.peer))>>

WireInit == wire = <<>>

Register(relay, audio, subscribed, streams) ==
    LET ssrc == IF subscribed = 0 THEN audio ELSE subscribed
        remote == IF relay.auth = <<>> THEN relay.token ELSE relay.auth
        lists == IF streams.self # <<>> THEN streams
                 ELSE [self |-> <<audio>>, peer |-> IF subscribed = 0 THEN <<>> ELSE <<subscribed>>]
    IN  /\ remote # <<>> /\ ssrc # 0
        /\ wire' = Binding(relay, remote, ssrc)
                   \o (IF relay.token = remote THEN <<>> ELSE Binding(relay, relay.token, ssrc))
                   \o PlainBinding(ssrc) \o Allocation(relay, lists)

SendPing == wire' = <<[kind |-> "ping", bytes |-> BuildPing]>>

\* The relay's answers (external), a ping's with or without the cookie.
Answer(a) == wire' = <<[kind |-> "answer", bytes |-> StunHeader(a.type, Len(Encoded(a.attrs)), TxId) \o Encoded(a.attrs),
                        type |-> a.type, attrs |-> a.attrs]>>
Pong == wire' = <<[kind |-> "pong", bytes |-> Field16(2050) \o Zeros(18)]>>

SendRtp(h, payload) ==
    wire' = <<[kind |-> "rtp", bytes |-> EncodeRtp(h, payload), h |-> h, payload |-> payload]>>

WireNext ==
    /\ wire = <<>>
    /\ \/ \E relay \in Relays, audio, subscribed \in Ssrcs, streams \in Streams :
            Register(relay, audio, subscribed, streams)
       \/ SendPing
       \/ \E a \in Answers : Answer(a)
       \/ Pong
       \/ \E h \in Headers, payload \in RtpPayloads : SendRtp(h, payload)

WireSpec == WireInit /\ [][WireNext]_wire

-----------------------------------------------------------------------------
(* Properties.                                                             *)

\* As RFC 5389 has it: the HMAC covers what is before it, under a header whose
\* length ends with it; the fingerprint is the last attribute and covers all.
Verifies(p) ==
    LET n == Len(p.bytes) - (IF p.fingerprint THEN 8 ELSE 0)
        Under(end) == SubSeq(p.bytes, 1, 2) \o Field16(end - 20) \o SubSeq(p.bytes, 5, Len(p.bytes))
    IN  /\ p.key # <<>> => SubSeq(p.bytes, n - 19, n) = Hmac(p.key[1], SubSeq(Under(n), 1, n - 24))
        /\ p.fingerprint => SubSeq(p.bytes, n + 5, n + 8) = Crc32(SubSeq(Under(n + 8), 1, n))

\* How a protobuf reader sees a message: the varints and blocks of its fields.
ReadVarint(b, at) ==
    LET size == Min({n \in 1 .. 5 : at + n - 1 <= Len(b) /\ b[at + n - 1] < 128})
        part == [n \in 1 .. 5 |-> IF n > size THEN 0 ELSE (b[at + n - 1] % 128) * Weights[n]]
    IN  [v |-> part[1] + part[2] + part[3] + part[4] + part[5], next |-> at + size]

FieldAt(b, at) ==
    LET tag == ReadVarint(b, at)
        x == ReadVarint(b, tag.next)
    IN  IF tag.v % 8 = 0
        THEN [field |-> tag.v \div 8, v |-> x.v, data |-> <<>>, next |-> x.next]
        ELSE [field |-> tag.v \div 8, v |-> -1, data |-> SubSeq(b, x.next, x.next + x.v - 1),
              next |-> x.next + x.v]

AfterField(b, at) == IF at > Len(b) THEN at ELSE FieldAt(b, at).next
FieldsAt(b) ==
    LET at[k \in 1 .. Len(b) + 1] == IF k = 1 THEN 1 ELSE AfterField(b, at[k - 1])
    IN  at
ReadFields(b) ==
    LET at == FieldsAt(b)
        count == CHOOSE n \in 0 .. Len(b) : at[n + 1] > Len(b) /\ \A k \in 1 .. n : at[k] <= Len(b)
    IN  [k \in 1 .. count |-> FieldAt(b, at[k])]

\* The data of the first attribute of a type.
DataOf(attrs, type) == attrs[Min({k \in DOMAIN attrs : attrs[k].type = type})].data

\* The streams a message asks for, as the relay reads them.
StreamsRead(p) ==
    LET attrs == ParseStunResponse(p.bytes).attrs
        read == ReadFields(DataOf(attrs, IF p.type = 1 THEN Subscriptions ELSE SsrcList))
    IN  IF p.type = 1
        THEN ReadFields(read[1].data)[1].v = p.streams[1]
        ELSE /\ DOMAIN read = DOMAIN p.streams
             /\ \A k \in DOMAIN read :
                  LET f == ReadFields(read[k].data)
                  IN  DOMAIN f = 1 .. 3 /\ f[1].v = 0 /\ f[3].v = p.streams[k]

\* Each kind of packet, as it is read.
StunReadsBack(p) ==
    LET parsed == ParseStunResponse(p.bytes)
    IN  /\ Verifies(p) /\ StreamsRead(p) /\ parsed.type = p.type /\ parsed.class = "request"
        /\ Len(p.bytes) % 4 = 0 /\ Len(parsed.attrs) = Len(p.attrs) + (Len(p.key) + Bit(p.fingerprint))
        /\ SubSeq(parsed.attrs, 1, Len(p.attrs)) = p.attrs
        /\ Route(p.bytes) = "none" /\ ClassifyPacket(p.bytes) = "STUN"

AnswerReadsBack(p) ==
    LET parsed == ParseStunResponse(p.bytes)
    IN  parsed.type = p.type /\ parsed.attrs = p.attrs /\ Route(p.bytes) = "none"

PingReadsBack(p, type) == ParseStunResponse(p.bytes).method = type /\ Route(p.bytes) = "none"

RtpReadsBack(p) ==
    /\ DecodeRtp(p.bytes) = [h |-> p.h, payload |-> p.payload]
    /\ RtpSsrc(p.bytes) = p.h.ssrc /\ ClassifyPacket(p.bytes) = "RTP/SRTP"
    /\ Route(p.bytes) = (IF p.h.pt = 120 THEN "audio" ELSE IF p.h.pt = 97 THEN "video" ELSE "none")

PacketReadsBack(p) ==
    /\ p.kind = "stun" => StunReadsBack(p)
    /\ p.kind = "answer" => AnswerReadsBack(p)
    /\ p.kind = "ping" => PingReadsBack(p, 2049)
    /\ p.kind = "pong" => PingReadsBack(p, 2050)
    /\ p.kind = "rtp" => RtpReadsBack(p)

\* Every message a relay is sent verifies and comes apart into the attributes
\* it was made of, with their lengths before padding; what a relay answers is
\* read as it said it, and it reads the streams it is asked for, every one of
\* ours and of the peer's that has an SSRC and no other; an RTP packet gives
\* back its header and payload; and each goes to the one reader it is for
\* (buildStunMessage, ParseStunResponse, BuildSSRCSubscriptionList,
\* RtpHeader.Encode, DecodeRtpPacket, onRelayData).
PacketsReadBack == \A i \in DOMAIN wire : PacketReadsBack(wire[i])
===============================================================================
