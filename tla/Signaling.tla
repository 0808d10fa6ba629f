------------------------------- MODULE Signaling -------------------------------
(***************************************************************************)
(* How the two ends of a call come to the same SRTP keys and to each       *)
(* other's stream: the offer with the call key for every device, the       *)
(* relays and participants the server lists in the ack and in the offer,   *)
(* the accept.  Each end runs a CallManager; the server between them is    *)
(* external.                                                               *)
(*                                                                         *)
(* A JID is <<user, device>>, a JID without a device <<user, Bare>>.  The  *)
(* HKDF of a call key and a JID is the pair of them, the SSRC of a call    *)
(* and a JID is the JID.                                                   *)
(***************************************************************************)
EXTENDS Integers, Sequences, SequencesExt

CONSTANTS
    Caller,     \* the JID that calls
    Answerers,  \* the devices of the user who is called
    Callee,     \* that user's JID, as ResolveLIDForPN returns it
    Servers     \* what the server may add to a call: [list, relay] of the ack,
                \* [others, inOffer, attributes] of the offer

Bare == -1
None == -1
Nobody == <<>>
NoNode == [tag |-> "none", jid |-> Nobody, sub |-> <<>>]
NoKey == [key |-> "none", jid |-> Nobody]

\* This program is a linked device, never device 0.
ASSUME SignalingAssumption ==
    /\ Callee = <<Callee[1], Bare>> /\ Caller[1] # Callee[1]
    /\ Caller = <<Caller[1], Caller[2]>> /\ Caller[2] \in Nat \ {0}
    /\ Answerers \subseteq {Callee[1]} \X Nat

VARIABLES
    side,     \* per device: its CallManager
    mail,     \* stanzas the server has under way
    answered, \* whose accept passed the server, which lets one pass
    misled    \* history: the ack named another device than had accepted

sigVars == <<side, mail, answered, misled>>

Devices == {Caller} \cup Answerers

-----------------------------------------------------------------------------
(* JIDs as text.                                                           *)

\* types.JID writes no device 0.
JidString(j) == IF j[2] = 0 THEN <<j[1], Bare>> ELSE j
CleanJID(s) == <<s[1], Bare>>
EnsureDeviceJid(s) == IF s[2] = Bare THEN <<s[1], 0>> ELSE s

\* The first of those at the indexes S.
FirstOf(list, S) == IF S = {} THEN Nobody ELSE list[CHOOSE i \in S : \A j \in S : i <= j]

FindOurDevice(participants, ourBase, fallback) ==
    LET ours == {i \in DOMAIN participants :
                   CleanJID(participants[i]) = ourBase /\ participants[i][2] # Bare}
    IN  IF ours = {} THEN fallback ELSE FirstOf(participants, ours)

FirstPeerDevice(participants, ourBase) ==
    FirstOf(participants, {i \in DOMAIN participants : CleanJID(participants[i]) # ourBase})

-----------------------------------------------------------------------------
(* Nodes.                                                                  *)

Node(tag, jid, sub) == [tag |-> tag, jid |-> jid, sub |-> sub]
Enc(d) == Node("enc", d, <<>>)
HasChildTag(children, tag) == \E i \in DOMAIN children : children[i].tag = tag

\* BuildOfferStanza; a device no session could be made with is left out.
OfferNode(devices, video) ==
    << Node("privacy", Nobody, <<>>), Node("audio", Nobody, <<>>), Node("audio", Nobody, <<>>) >>
    \o (IF video THEN <<Node("video", Nobody, <<>>)>> ELSE <<>>)
    \o << Node("net", Nobody, <<>>), Node("capability", Nobody, <<>>),
          Node("destination", Nobody,
               [i \in DOMAIN devices |-> Node("to", devices[i], <<Enc(devices[i])>>)]),
          Node("encopt", Nobody, <<>>) >>

ExtractEncFromParticipant(nodes) ==
    LET encs == FlattenSeq([i \in DOMAIN nodes |->
                  SelectSeq(<<nodes[i]>> \o nodes[i].sub, LAMBDA n : n.tag = "enc")])
    IN  IF encs = <<>> THEN NoNode ELSE encs[1]

\* BuildAcceptStanza: the key goes to the device that made the call.
AcceptNode(creator, video) ==
    << Node("audio", Nobody, <<>>), Node("net", Nobody, <<>>),
       ExtractEncFromParticipant(<<Node("to", creator, <<Enc(creator)>>)>>),
       Node("encopt", Nobody, <<>>) >>
    \o (IF video THEN <<Node("video", Nobody, <<>>)>> ELSE <<>>)

FindEncNode(children) ==
    LET Encs(nodes) == SelectSeq(nodes, LAMBDA n : n.tag = "enc")
        tos == FlattenSeq([i \in DOMAIN children |->
                 IF children[i].tag = "destination" THEN children[i].sub ELSE <<>>])
        all == Encs(children) \o FlattenSeq([i \in DOMAIN tos |-> Encs(tos[i].sub)])
    IN  IF all = <<>> THEN NoNode ELSE all[1]

\* DecryptCallKeyInNode: what was encrypted for another device gives an error.
DecryptCallKey(d, children) == FindEncNode(children) # NoNode /\ FindEncNode(children).jid = d

NeedsDecryption(tag) == tag \in {"preaccept", "accept"}

-----------------------------------------------------------------------------
(* Relays.                                                                 *)

LessRtt(a, b) == a.rtt # None /\ (b.rtt = None \/ a.rtt < b.rtt)

\* sort.SliceStable of what stands at some places of a list: these places, the
\* k-th of which has k - 1 before it.
StandsBefore(list, i, j) == LessRtt(list[i], list[j]) \/ (~LessRtt(list[j], list[i]) /\ i < j)
SortRelaysByRtt(list, at) ==
    [k \in 1 .. Cardinality(at) |->
        CHOOSE i \in at : Cardinality({j \in at : StandsBefore(list, j, i)}) = k - 1]

ExtractRelayEndpoints(attributes) ==
    LET order == SortRelaysByRtt(attributes,
                   {i \in DOMAIN attributes : attributes[i].ip # None /\ attributes[i].token # None})
    IN  [k \in DOMAIN order |-> attributes[order[k]]]

AttrOr(v, fallback) == IF v = None THEN fallback ELSE v

\* The last token with an id counts.
TokenOf(children, tag, id) ==
    LET named == {i \in DOMAIN children : children[i].tag = tag /\ AttrOr(children[i].id, 0) = id}
    IN  IF named = {} THEN None ELSE children[Max(named)].val

\* Mutant: a relay takes the tokens named before it.
EndpointSoFar(children, i) ==
    LET c == children[i] IN
    [ip |-> c.val, rtt |-> c.rtt, token |-> TokenOf(SubSeq(children, 1, i), "token", AttrOr(c.id, 0)),
     auth |-> IF c.auth = None THEN None ELSE TokenOf(children, "auth_token", c.auth)]

Endpoint(children, i) ==
    LET c == children[i] IN
    [ip |-> c.val, rtt |-> c.rtt, token |-> TokenOf(children, "token", AttrOr(c.id, 0)),
     auth |-> IF c.auth = None THEN None ELSE TokenOf(children, "auth_token", c.auth)]

\* Only addresses of six bytes are taken.
ParseRelays(children) ==
    LET order == SortRelaysByRtt(children,
                   {i \in DOMAIN children : children[i].tag = "te2" /\ children[i].len = 6})
    IN  [k \in DOMAIN order |-> Endpoint(children, order[k])]

\* Every participant once, where it is named first.
ParticipantJids(list) ==
    LET seen[n \in 0 .. Len(list)] ==
          IF n = 0 THEN <<>>
          ELSE IF Contains(seen[n - 1], list[n]) THEN seen[n - 1] ELSE Append(seen[n - 1], list[n])
    IN  seen[Len(list)]

\* A call has two users, and the server lists devices of theirs.
ASSUME ListsAssumption ==
    \A server \in Servers : {server.list, server.others} \subseteq Seq({Caller[1], Callee[1]} \X Int)

\* A relay is known to be some time away, or not known to be.
ASSUME RelaysAssumption ==
    \A server \in Servers :
        /\ server.relay \in Seq(Range(server.relay))
        /\ \A i \in DOMAIN server.relay : server.relay[i].rtt \in Nat \cup {None}

-----------------------------------------------------------------------------
(* CallManager.                                                            *)

NewManager ==
    [inCall |-> FALSE, hasKey |-> FALSE, video |-> FALSE, peerJid |-> Nobody, accepted |-> FALSE,
     endpoints |-> <<>>, participants |-> <<>>, acceptedBy |-> Nobody,
     self |-> Nobody, peer |-> Nobody, actualPeer |-> FALSE,
     send |-> NoKey, recv |-> NoKey, subscribed |-> Nobody]

GenerateSecureSsrc(s) == s
DerivePerJidSrtpKey(s) == [key |-> "call key", jid |-> s]

OurDeviceJid(x, m) ==
    EnsureDeviceJid(FindOurDevice(m.participants, CleanJID(JidString(x)), JidString(x)))

\* Mutant: the list of participants knows better who accepted.
RawPeerListed(x, m) ==
    LET listed == FirstPeerDevice(m.participants, CleanJID(JidString(x)))
    IN  IF listed # Nobody THEN listed ELSE IF m.acceptedBy # Nobody THEN m.acceptedBy ELSE m.peerJid

RawPeer(x, m) ==
    LET listed == FirstPeerDevice(m.participants, CleanJID(JidString(x)))
    IN  IF m.acceptedBy # Nobody THEN m.acceptedBy
        ELSE IF listed # Nobody THEN listed ELSE m.peerJid

InitSrtpKeys(x, m) ==
    IF ~m.hasKey THEN m
    ELSE [m EXCEPT !.send = DerivePerJidSrtpKey(OurDeviceJid(x, m)),
                   !.recv = DerivePerJidSrtpKey(EnsureDeviceJid(RawPeer(x, m)))]

\* Mutant: a stream that is known stays.
AcceptedPeerIfNone(m, from) ==
    IF m.peer # Nobody THEN m.peer ELSE GenerateSecureSsrc(EnsureDeviceJid(from))

AcceptedPeer(m, from) ==
    IF m.actualPeer THEN m.peer ELSE GenerateSecureSsrc(EnsureDeviceJid(from))

\* What HandleCallAck and setupIncomingMedia make of the participants.
FromParticipants(x, m, actual) ==
    LET listed == FirstPeerDevice(m.participants, CleanJID(JidString(x)))
        ours == [m EXCEPT !.self = GenerateSecureSsrc(OurDeviceJid(x, m))]
    IN  IF m.participants = <<>> THEN m
        ELSE IF listed = Nobody THEN ours
        ELSE [ours EXCEPT !.peer = GenerateSecureSsrc(EnsureDeviceJid(listed)), !.actualPeer = @ \/ actual]

Subscribe(m) == [m EXCEPT !.subscribed = m.peer]
SetSide(x, m) == side' = [side EXCEPT ![x] = m]

SigInit ==
    /\ side = [x \in Devices |-> NewManager]
    /\ mail = {}
    /\ answered = Nobody
    /\ misled = FALSE

(* The server (external): each device gets the key that is for it, alone or   *)
(* in the node the offer had it in, with relays in one form or none.          *)
Fanout(children, d, direct) ==
    LET at == CHOOSE i \in DOMAIN children : children[i].tag = "destination"
        tos == children[at].sub
        its == {i \in DOMAIN tos : tos[i].jid = d}
        own == tos[CHOOSE i \in its : TRUE]
        keys == IF direct THEN (IF its = {} THEN <<>> ELSE own.sub)
                ELSE <<Node("destination", Nobody, IF its = {} THEN <<>> ELSE <<own>>)>>
    IN  SubSeq(children, 1, at - 1) \o keys \o SubSeq(children, at + 1, Len(children))

OfferTo(d, children, direct, server) ==
    [tag |-> "offer", to |-> d, children |-> Fanout(children, d, direct),
     list |-> server.others, relay |-> server.inOffer, attributes |-> server.attributes]

\* StartCall: the key for the devices a session could be made with.
StartCall(devices, video) ==
    /\ ~side[Caller].inCall
    /\ SetSide(Caller, [NewManager EXCEPT !.inCall = TRUE, !.hasKey = TRUE, !.video = video,
                         !.peerJid = Callee, !.self = GenerateSecureSsrc(JidString(Caller)),
                         !.peer = GenerateSecureSsrc(Callee)])
    /\ \E server \in Servers, direct \in BOOLEAN :
         mail' = {OfferTo(d, OfferNode(devices, video), direct, server) : d \in Answerers}
                   \cup {[tag |-> "ack", to |-> Caller, list |-> server.list, relay |-> server.relay]}
    /\ UNCHANGED <<answered, misled>>

\* Query gives up after 15 seconds; a later ack finds nobody waiting.
QueryTimesOut ==
    /\ \E s \in mail : s.tag = "ack" /\ mail' = mail \ {s}
    /\ UNCHANGED <<side, answered, misled>>

HandleCallOffer(d) ==
    \E s \in mail :
    /\ s.tag = "offer" /\ s.to = d
    /\ LET relays == ExtractRelayEndpoints(s.attributes)
           parsed == ParseRelays(s.relay)
           structured == relays = <<>> /\ parsed # <<>>
       IN  SetSide(d, [NewManager EXCEPT
             !.inCall = TRUE, !.hasKey = DecryptCallKey(d, s.children),
             !.video = HasChildTag(s.children, "video"), !.peerJid = JidString(Caller),
             !.endpoints = IF structured THEN parsed ELSE relays,
             !.participants = IF structured THEN ParticipantJids(s.list) ELSE <<>>,
             !.self = GenerateSecureSsrc(JidString(d)),
             !.peer = GenerateSecureSsrc(JidString(Caller))])
    /\ mail' = mail \ {s}
    /\ UNCHANGED <<answered, misled>>

\* AcceptCall with setupIncomingMedia and connectRelays; the accept may not be
\* built or sent, which is only logged.
AcceptCall(d) ==
    /\ side[d].inCall /\ ~side[d].accepted
    /\ LET m == [side[d] EXCEPT !.accepted = TRUE]
       IN  SetSide(d, IF m.endpoints = <<>> THEN m
                     ELSE InitSrtpKeys(d, Subscribe(FromParticipants(d, m, TRUE))))
    /\ \/ /\ side[d].hasKey /\ answered = Nobody
          /\ mail' = mail \cup {[tag |-> "accept", to |-> Caller, from |-> d,
                                 children |-> AcceptNode(Caller, side[d].video)]}
          /\ answered' = d
       \/ UNCHANGED <<mail, answered>>
    /\ UNCHANGED misled

\* The list has another device before the one that has accepted.
Misleads(list) ==
    LET listed == FirstPeerDevice(ParticipantJids(list), CleanJID(JidString(Caller)))
    IN  /\ side[Caller].acceptedBy # Nobody /\ listed # Nobody
        /\ EnsureDeviceJid(listed) # EnsureDeviceJid(side[Caller].acceptedBy)

\* An ack without a usable relay is dropped.
HandleCallAck ==
    \E s \in mail :
    /\ s.tag = "ack"
    /\ LET m == [side[Caller] EXCEPT !.endpoints = ParseRelays(s.relay),
                                     !.participants = ParticipantJids(s.list)]
           known == FromParticipants(Caller, m, FALSE)
       IN  SetSide(Caller, IF ParseRelays(s.relay) = <<>> THEN side[Caller]
                          ELSE IF m.participants = <<>> THEN Subscribe(m)
                          ELSE Subscribe(InitSrtpKeys(Caller, known)))
    /\ mail' = mail \ {s}
    /\ misled' = (ParseRelays(s.relay) # <<>> /\ Misleads(s.list))
    /\ UNCHANGED answered

\* The key in the accept is the call's own: whoever accepts sends it back.
HandleCallAccept ==
    \E s \in mail :
    /\ s.tag = "accept" /\ NeedsDecryption(s.tag)
    /\ LET from == JidString(s.from)
           m == [side[Caller] EXCEPT !.acceptedBy = from, !.peer = AcceptedPeer(side[Caller], from)]
       IN  SetSide(Caller, InitSrtpKeys(Caller, Subscribe(m)))
    /\ mail' = mail \ {s}
    /\ UNCHANGED <<answered, misled>>

\* handleAudioRelayData: the first stream that is not ours is the peer's.
HandleAudio(x, y) ==
    /\ side[x].send # NoKey /\ side[y].send # NoKey
    /\ {x, y} = {Caller, answered}
    /\ ~side[x].actualPeer /\ side[y].self # side[x].self
    /\ LET heard == [side[x] EXCEPT !.actualPeer = TRUE]
       IN  SetSide(x, IF side[x].peer = side[y].self THEN heard
                     ELSE [heard EXCEPT !.peer = side[y].self, !.subscribed = side[y].self])
    /\ misled' = IF x = Caller THEN FALSE ELSE misled
    /\ UNCHANGED <<mail, answered>>

OfferedTo == SetToAllKPermutations(Answerers)

SigNext ==
    \/ \E devices \in OfferedTo, video \in BOOLEAN : StartCall(devices, video)
    \/ QueryTimesOut
    \/ \E d \in Answerers : HandleCallOffer(d) \/ AcceptCall(d)
    \/ HandleCallAck
    \/ HandleCallAccept
    \/ \E x, y \in Devices : x # y /\ HandleAudio(x, y)

SigSpec == SigInit /\ [][SigNext]_sigVars

-----------------------------------------------------------------------------
(* Properties.                                                             *)

\* The server lists no other device of a user the reader takes one of.
ListsOnlyThe(x, participants) ==
    \A i \in DOMAIN participants :
      participants[i][1] = x[1] => EnsureDeviceJid(participants[i]) = x

\* The caller has handled d's accept, and neither end was shown a list with
\* other devices of its own user, or d one with other devices of the caller's.
Connected(d) ==
    /\ side[Caller].acceptedBy = JidString(d)
    /\ ListsOnlyThe(Caller, side[Caller].participants)
    /\ ListsOnlyThe(d, side[d].participants) /\ ListsOnlyThe(Caller, side[d].participants)

\* Whatever comes first of ack and accept, whatever form the relays and the JIDs
\* have and whichever device answers, each end opens what the other seals, and
\* they agree on audio or video (initSrtpKeysLocked, findOurDevice,
\* firstPeerDevice, ensureDeviceJid).
KeysCross ==
    \A d \in Answerers :
      Connected(d) /\ side[d].send # NoKey =>
        /\ side[Caller].send = side[d].recv
        /\ side[Caller].recv = side[d].send
        /\ side[Caller].video = side[d].video

\* Once both ends asked the relay for a stream, it is the one the other end
\* sends.  The exception is an ack that came after the accept with a list that
\* has another of the peer's devices first: HandleCallAck overwrites what the
\* accept said, until the peer's sound tells, or for good when some was heard
\* before.  (This program is never device 0, whose SSRC before any list has
\* another form.)
SubscribedToPeer ==
    \A d \in Answerers :
      Connected(d) /\ d[2] # 0 /\ side[d].send # NoKey =>
        /\ side[d].subscribed = side[Caller].self
        /\ side[Caller].subscribed = side[d].self \/ misled

\* The relays of a call are those the server named with an address of six
\* bytes, each with the tokens its ids name wherever they stand among its
\* siblings, nearest first, those of unknown distance last, as they came
\* otherwise (ParseRelayFromAck reads the children twice).
RelaysAreComplete ==
    \A s \in mail : s.tag = "ack" =>
      LET got == ParseRelays(s.relay)
          Named(r, i) ==
            LET c == s.relay[i]
                Tok(tag, id) ==
                  {k \in DOMAIN s.relay : s.relay[k].tag = tag /\ AttrOr(s.relay[k].id, 0) = id}
                Is(v, ks) == IF ks = {} THEN v = None
                             ELSE \E k \in ks : s.relay[k].val = v /\ \A l \in ks : l <= k
            IN  /\ c.tag = "te2" /\ c.len = 6 /\ r.ip = c.val /\ r.rtt = c.rtt
                /\ Is(r.token, Tok("token", AttrOr(c.id, 0)))
                /\ IF c.auth = None THEN r.auth = None ELSE Is(r.auth, Tok("auth_token", c.auth))
      IN  \E at \in [DOMAIN got -> DOMAIN s.relay] :
            /\ \A k \in DOMAIN got : Named(got[k], at[k])
            /\ \A i \in DOMAIN s.relay :
                 s.relay[i].tag = "te2" /\ s.relay[i].len = 6 => \E k \in DOMAIN got : at[k] = i
            /\ \A k, l \in DOMAIN got :
                 k < l => \/ got[l].rtt = None /\ got[k].rtt # None
                          \/ got[l].rtt # None /\ got[k].rtt # None /\ got[k].rtt < got[l].rtt
                          \/ got[k].rtt = got[l].rtt /\ at[k] < at[l]
===============================================================================
