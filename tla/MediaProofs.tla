----------------------------- MODULE MediaProofs -----------------------------
(***************************************************************************)
(* Theorems about AudioPath, for any number of connections, spaces of      *)
(* sequence numbers and time stamps, and calls of any length that the time *)
(* stamps can tell apart; about Signaling, for any users, devices and      *)
(* lists of participants and relays; about VideoPath, for any access units *)
(* and any MTU; and about MlowPayload, for any frames a peer may send.     *)
(***************************************************************************)
EXTENDS AudioPath, VideoPath, MlowPayload, Signaling, Integers, FiniteSetTheorems,
        WellFoundedInduction, NaturalsInduction, SequenceTheorems, TLAPS

-----------------------------------------------------------------------------
(* Arithmetic of what wraps.                                               *)

LEMMA DivModIs ==
    ASSUME NEW S \in Nat \ {0}, NEW x \in Nat
    PROVE  /\ x \div S \in Nat
           /\ x % S \in 0 .. S - 1
           /\ x = ((x \div S) * S) + (x % S)
  OBVIOUS

LEMMA ProductAtLeast ==
    ASSUME NEW S \in Nat \ {0}, NEW d \in Int, d >= 1
    PROVE  d * S >= S
  OBVIOUS

\* Quotient and remainder are the only ones.
LEMMA DivModUnique ==
    ASSUME NEW S \in Nat \ {0}, NEW e \in Int, NEW s \in 0 .. S - 1, NEW x \in Nat,
           x = e * S + s
    PROVE  x \div S = e /\ x % S = s
<1> DEFINE q == x \div S
           r == x % S
<1>2. q \in Nat /\ r \in 0 .. S - 1 /\ x = q * S + r
  BY DivModIs
<1>3. (q - e) * S = s - r
  BY <1>2
<1>4. ~(q - e >= 1)
  BY <1>2, <1>3, ProductAtLeast
<1>5. ~(e - q >= 1)
  <2>1. (e - q) * S = r - s
    BY <1>2
  <2> QED
    BY <1>2, <2>1, ProductAtLeast
<1> QED
  BY <1>2, <1>4, <1>5

\* A place among l, taken after a others; one that lies among the d there are; and
\* what is left of i when a node has given its place to K.
Lies(a, l, c, d, j) == a + j \in 1 .. d /\ a + j <= c
Follows(a, l, j) == a + j \in 1 .. a + l /\ ~(a + j <= a) /\ (a + j) - a = j
Behind(N, K, at, i) ==
    /\ i - (at - 1 + K) \in 1 .. (N - at) /\ at - 1 + K + (i - (at - 1 + K)) = i
    /\ at + (i - (at - 1 + K)) \in 1 .. N

LEMMA LiesIn == \A a, l, c, d \in Nat : a + l <= c /\ c <= d => \A j \in 1 .. l : Lies(a, l, c, d, j)
  BY DEF Lies

LEMMA FollowsOn == \A a, l \in Nat : \A j \in 1 .. l : Follows(a, l, j)
  BY DEF Follows

LEMMA BehindAll ==
  \A N, K \in Nat : \A at \in 1 .. N : \A i \in 1 .. (N + K - 1) : at + K <= i => Behind(N, K, at, i)
  BY DEF Behind

LEMMA PlusOne == \A a, j \in Nat : (a + j) + 1 = a + (j + 1)
  OBVIOUS

LEMMA PlusNone == \A a \in Nat : a + 0 = a
  OBVIOUS

LEMMA FromNone == \A l \in Nat \ {0} : 0 \in 0 .. l - 1
  OBVIOUS

LEMMA SizeIsNat == \A x \in 1 .. 255 : x \in Nat
  OBVIOUS

LEMMA NatIn == \A l \in Nat : \A x \in 0 .. l : x \in Nat
  OBVIOUS

LEMMA FromThree == \A l \in Nat : \A x \in 0 .. l : 3 + x \in 3 .. 3 + l
  OBVIOUS

LEMMA RoomLeft == \A a, c, b \in Nat, l \in Nat \ {0} : b = a + l /\ b <= c => a < c
  OBVIOUS

\* One more, and any number more, before or after the remainder is taken.
LEMMA ModAdd ==
    ASSUME NEW T \in Nat \ {0}, NEW x \in Nat, NEW k \in Nat
    PROVE  ((x % T) + k) % T = (x + k) % T
<1> DEFINE q == x \div T
           r == x % T
           p == (r + k) \div T
           s == (r + k) % T
<1>1. q \in Nat /\ r \in 0 .. T - 1 /\ x = q * T + r
  BY DivModIs
<1>2. p \in Nat /\ s \in 0 .. T - 1 /\ r + k = p * T + s
  <2>1. r + k \in Nat
    BY <1>1
  <2> HIDE DEF r
  <2> QED
    BY <2>1, DivModIs
<1>3. x + k = (q + p) * T + s /\ x + k \in Nat /\ q + p \in Int
  BY <1>1, <1>2
<1>4. (x + k) % T = s
  <2> HIDE DEF p, q, r, s
  <2> QED
    BY <1>2, <1>3, DivModUnique
<1> QED
  BY <1>4

\* The difference of two numbers, from their remainders.
LEMMA ModDifference ==
    ASSUME NEW T \in Nat \ {0}, NEW x \in Nat, NEW y \in Nat, x >= y, x - y < T
    PROVE  (T + (x % T) - (y % T)) % T = x - y
<1> DEFINE q == x \div T
           r == x % T
           p == y \div T
           s == y % T
           d == T + r - s
<1>1. q \in Nat /\ r \in 0 .. T - 1 /\ x = q * T + r
  BY DivModIs
<1>2. p \in Nat /\ s \in 0 .. T - 1 /\ y = p * T + s
  BY DivModIs
<1>3. d = (p - q + 1) * T + (x - y)
  BY <1>1, <1>2
<1>4. d \in Nat /\ x - y \in 0 .. T - 1 /\ p - q + 1 \in Int
  BY <1>1, <1>2
<1>5. d % T = x - y
  <2> HIDE DEF d, q, p
  <2> QED
    BY <1>3, <1>4, DivModUnique
<1> QED
  BY <1>5

-----------------------------------------------------------------------------
(* The invariants of AudioPath.                                            *)

SeqNumbers == 0 .. SeqSpace - 1
TimeStamps == 0 .. TsSpace - 1
Context == [roc : Nat, lastSeq : SeqNumbers, initialized : BOOLEAN]
Packet == [seq : SeqNumbers, ts : TimeStamps, index : Nat]
Numbers == 1 .. Len(sent)

RecvSteps == {"idle", "wrap", "raise", "raised", "store", "index", "align"}
Lengths == NoiseLengths \cup {Frame}
HeardType == [first : 0 .. Len(sent), last : 0 .. Len(sent), len : Nat, back : Nat, jumped : BOOLEAN]

AudioTypeOK ==
    /\ rtp \in [seq : SeqNumbers, ts : TimeStamps]
    /\ sendCtx \in Context /\ recvCtx \in Context
    /\ sent \in Seq(Packet) /\ Len(sent) <= MaxPackets
    /\ recvPc \in [Conns -> RecvSteps]
    /\ handled \in [Conns -> 0 .. Len(sent)]
    /\ \A c \in Conns : recvPc[c] # "idle" => handled[c] # 0
    /\ counted \in [Conns -> Nat] /\ samples \in [Conns -> Nat]
    /\ \A c \in Conns : recvPc[c] = "align" => samples[c] \in Lengths
    /\ timeline \in [set : BOOLEAN, base : TimeStamps, played : Nat]
    /\ played \in Nat
    /\ arrived \in 0 .. Len(sent)
    /\ skewed \in BOOLEAN /\ torn \in BOOLEAN
    /\ crossed \subseteq Conns
    /\ heard \in HeardType

\* The sender's context is that of its last packet, whose index is the number
\* of packets since the first; sequence numbers and time stamps are what is
\* left of them.
SenderCounts ==
    /\ sent = <<>> => sendCtx = NewSrtpContext
    /\ sent # <<>> =>
         /\ sendCtx.initialized /\ sendCtx.lastSeq = sent[Len(sent)].seq
         /\ sendCtx.roc * SeqSpace + sendCtx.lastSeq = sent[Len(sent)].index
         /\ rtp.seq = (sent[Len(sent)].index + 1) % SeqSpace
         /\ rtp.ts = (sent[1].ts + Len(sent) * Frame) % TsSpace
    /\ \A n \in Numbers :
         /\ sent[n].index = sent[1].index + n - 1
         /\ sent[n].seq = sent[n].index % SeqSpace
         /\ sent[n].ts = (sent[1].ts + (n - 1) * Frame) % TsSpace

\* Until something could not be counted: while one connection has counted a wrap
\* and not stored its sequence number, all others on their way are crossed;
\* otherwise the count is that of the last packet.  A connection that is not
\* crossed is about to raise the count to that of its packet, or finds it so.
RocFollows ==
    /\ \A c, d \in Conns :
         recvPc[c] = "raised" =>
             c \notin crossed /\ (d # c /\ recvPc[d] \notin {"idle", "align"} => d \in crossed)
    /\ arrived # 0 /\ (\A c \in Conns : recvPc[c] # "raised") => recvCtx.roc = Epoch(arrived)
    /\ \A c \in Conns \ crossed :
         /\ recvPc[c] \in {"wrap", "raise"} => recvCtx.roc + 1 = Epoch(handled[c])
         /\ recvPc[c] = "raise" => counted[c] = recvCtx.roc
         /\ recvPc[c] \in {"raised", "store", "index"} => recvCtx.roc = Epoch(handled[c])

\* The receiver's context is that of the last packet it was given.
ReceiverCounts ==
    /\ arrived = 0 => ~recvCtx.initialized /\ recvCtx.roc = 0
    /\ arrived # 0 => recvCtx.initialized /\ recvCtx.lastSeq = sent[arrived].seq
    /\ \A c \in Conns : recvPc[c] \in {"wrap", "raise", "raised"} => arrived # 0
    /\ ~skewed /\ ~torn => RocFollows

\* The time line ends where the last frame heard ends, counted from the packet
\* that set it.
PlayFits ==
    /\ heard.last > 0 =>
         /\ timeline.set /\ heard.first > 0 /\ heard.len \in Lengths
         /\ \E b \in 1 .. heard.last :
              /\ timeline.base = sent[b].ts
              /\ timeline.played = (heard.last - b) * Frame + heard.len
         /\ PlaysInTime
    /\ heard.last = 0 =>
         ~timeline.set /\ played = 0 /\ heard.first = 0 /\ heard.len = 0 /\ heard.back = 0

\* The counts need no bound on the length of a call, the time line does.
CountsIInv == AudioTypeOK /\ SenderCounts /\ ReceiverCounts
AudioIInv == CountsIInv /\ PlayFits

-----------------------------------------------------------------------------
(* A packet is sent.                                                       *)

LEMMA PacketsStay ==
    ASSUME AudioTypeOK, NEW p \in Packet, sent' = Append(sent, p)
    PROVE  /\ sent' \in Seq(Packet) /\ Len(sent') = Len(sent) + 1
           /\ \A n \in Numbers : sent'[n] = sent[n]
           /\ sent'[Len(sent) + 1] = p
  BY DEF AudioTypeOK, Numbers

\* updateRoc of the next packet counts its wrap.
LEMMA NextNumber ==
    ASSUME NEW S \in Nat, S > 2, NEW r \in Nat, NEW l \in 0 .. S - 1, NEW i \in Nat, i = r * S + l,
           NEW q, q = (i + 1) % S
    PROVE  (IF l > q + S \div 2 THEN r + 1 ELSE r) * S + q = i + 1
<1>1. CASE l = S - 1
  <2>1. i + 1 = (r + 1) * S + 0 /\ r + 1 \in Int /\ 0 \in 0 .. S - 1 /\ i + 1 \in Nat
    BY <1>1
  <2>2. q = 0
    BY <2>1, DivModUnique
  <2>3. l > q + S \div 2
    BY <1>1, <2>2
  <2> QED
    BY <2>1, <2>2, <2>3
<1>2. CASE l < S - 1
  <2>1. i + 1 = r * S + (l + 1) /\ l + 1 \in 0 .. S - 1 /\ i + 1 \in Nat /\ r \in Int
    BY <1>2
  <2>2. q = l + 1
    BY <2>1, DivModUnique
  <2>3. ~(l > q + S \div 2)
    BY <2>2
  <2> QED
    BY <2>1, <2>2, <2>3
<1> QED
  BY <1>1, <1>2

LEMMA IndexIs ==
    ASSUME NEW S \in Nat \ {0}, NEW r \in Nat, NEW q \in 0 .. S - 1
    PROVE  r * S + q \in Nat /\ (r * S + q) % S = q
<1> DEFINE x == r * S + q
<1>1. x \in Nat /\ r \in Int /\ x = r * S + q
  OBVIOUS
<1> HIDE DEF x
<1>2. x % S = q
  BY <1>1, DivModUnique
<1> QED
  BY <1>1, <1>2 DEF x

LEMMA NextIndex ==
    ASSUME AudioTypeOK, SenderCounts,
           NEW c, c = UpdateRoc(sendCtx, rtp.seq)
    PROVE  /\ c \in Context /\ c.initialized /\ c.lastSeq = rtp.seq
           /\ PacketIndex(c, rtp.seq) \in Nat
           /\ PacketIndex(c, rtp.seq) % SeqSpace = rtp.seq
           /\ sent # <<>> => PacketIndex(c, rtp.seq) = sent[Len(sent)].index + 1
<1> USE AudioPathAssumption
<1>1. rtp.seq \in SeqNumbers /\ sendCtx \in Context
  BY DEF AudioTypeOK
<1>2. c \in Context /\ c.initialized /\ c.lastSeq = rtp.seq
  BY <1>1 DEF UpdateRoc, Context, SeqNumbers
<1>3. PacketIndex(c, rtp.seq) \in Nat /\ PacketIndex(c, rtp.seq) % SeqSpace = rtp.seq
  <2>1. c.roc \in Nat /\ rtp.seq \in 0 .. SeqSpace - 1 /\ SeqSpace \in Nat \ {0}
    BY <1>1, <1>2 DEF Context, SeqNumbers
  <2> QED
    BY <2>1, IndexIs DEF PacketIndex
<1>4. ASSUME sent # <<>>
      PROVE  PacketIndex(c, rtp.seq) = sent[Len(sent)].index + 1
  <2>1. Len(sent) \in Numbers
    BY <1>4 DEF AudioTypeOK, Numbers
  <2>2. sent[Len(sent)] \in Packet
    BY <2>1 DEF AudioTypeOK, Numbers
  <2> DEFINE i == sent[Len(sent)].index
             r == sendCtx.roc
             l == sendCtx.lastSeq
             q == rtp.seq
  <2>3. i \in Nat /\ r \in Nat /\ l \in 0 .. SeqSpace - 1
    BY <2>2, <1>1 DEF Packet, Context, SeqNumbers
  <2>4. sendCtx.initialized /\ i = r * SeqSpace + l /\ q = (i + 1) % SeqSpace
    BY <1>4 DEF SenderCounts
  <2>5. c.roc = IF l > q + SeqSpace \div 2 THEN r + 1 ELSE r
    BY <2>4 DEF UpdateRoc, Wraps
  <2>6. (IF l > q + SeqSpace \div 2 THEN r + 1 ELSE r) * SeqSpace + q = i + 1
    <3> HIDE DEF i, r, l, q
    <3> QED
      BY <2>3, <2>4, NextNumber
  <2> QED
    BY <2>5, <2>6 DEF PacketIndex
<1> QED
  BY <1>2, <1>3, <1>4

LEMMA SmallIsRemainder ==
    ASSUME NEW T \in Nat \ {0}, NEW x \in 0 .. T - 1
    PROVE  x % T = x
<1>1. x = 0 * T + x /\ 0 \in Int /\ x \in Nat
  OBVIOUS
<1> QED
  BY <1>1, DivModUnique

LEMMA SendFrameType ==
    ASSUME AudioTypeOK, SenderCounts, SendFrame
    PROVE  AudioTypeOK'
<1> USE AudioPathAssumption
<1> DEFINE c == UpdateRoc(sendCtx, rtp.seq)
           p == [seq |-> rtp.seq, ts |-> rtp.ts, index |-> PacketIndex(c, rtp.seq)]
<1>1. c \in Context /\ PacketIndex(c, rtp.seq) \in Nat
  BY NextIndex
<1>2. rtp.seq \in SeqNumbers /\ rtp.ts \in TimeStamps
  BY DEF AudioTypeOK
<1>3. p \in Packet
  BY <1>1, <1>2 DEF Packet
<1>4. sendCtx' = c /\ sent' = Append(sent, p)
  BY DEF SendFrame
<1>5. sent' \in Seq(Packet) /\ Len(sent') = Len(sent) + 1
  BY <1>3, <1>4, PacketsStay
<1>6. rtp' = [seq |-> (rtp.seq + 1) % SeqSpace, ts |-> (rtp.ts + Frame) % TsSpace]
  BY DEF SendFrame
<1>7. (rtp.seq + 1) % SeqSpace \in SeqNumbers /\ (rtp.ts + Frame) % TsSpace \in TimeStamps
  BY <1>2 DEF SeqNumbers, TimeStamps
<1>8. rtp' \in [seq : SeqNumbers, ts : TimeStamps]
  BY <1>6, <1>7
<1>9. Len(sent) \in Nat /\ Len(sent') <= MaxPackets
  BY <1>5 DEF AudioTypeOK, SendFrame
<1>10. UNCHANGED <<srtpVars, recvPc, handled, skewed, samples, playVars>>
  BY DEF SendFrame
<1>11. /\ recvCtx' = recvCtx /\ arrived' = arrived /\ skewed' = skewed /\ recvPc' = recvPc
       /\ handled' = handled /\ crossed' = crossed /\ torn' = torn /\ counted' = counted
       /\ samples' = samples /\ timeline' = timeline /\ played' = played /\ heard' = heard
  BY <1>10 DEF srtpVars, playVars
<1>12. 0 .. Len(sent) \subseteq 0 .. Len(sent')
  BY <1>5, <1>9
<1>13. handled' \in [Conns -> 0 .. Len(sent')]
  BY <1>11, <1>12 DEF AudioTypeOK
<1>14. heard' \in [first : 0 .. Len(sent'), last : 0 .. Len(sent'), len : Nat, back : Nat, jumped : BOOLEAN]
  BY <1>11, <1>12 DEF AudioTypeOK, HeardType
<1>15. arrived' \in 0 .. Len(sent')
  BY <1>11, <1>12 DEF AudioTypeOK
<1>16. /\ recvCtx' \in Context /\ recvPc' \in [Conns -> RecvSteps]
       /\ \A d \in Conns : recvPc'[d] # "idle" => handled'[d] # 0
       /\ counted' \in [Conns -> Nat] /\ samples' \in [Conns -> Nat]
       /\ \A d \in Conns : recvPc'[d] = "align" => samples'[d] \in Lengths
       /\ timeline' \in [set : BOOLEAN, base : TimeStamps, played : Nat]
       /\ played' \in Nat /\ skewed' \in BOOLEAN /\ torn' \in BOOLEAN /\ crossed' \subseteq Conns
  BY <1>11 DEF AudioTypeOK
<1>17. sendCtx' \in Context /\ sent' \in Seq(Packet)
  BY <1>1, <1>4, <1>5
<1> QED
  BY <1>8, <1>9, <1>13, <1>14, <1>15, <1>16, <1>17
     DEF AudioTypeOK, SeqNumbers, TimeStamps, Context, Packet, RecvSteps, Lengths, HeardType

LEMMA SendFrameCounts ==
    ASSUME AudioTypeOK, SenderCounts, SendFrame
    PROVE  SenderCounts'
<1> USE AudioPathAssumption
<1> DEFINE N == Len(sent)
           c == UpdateRoc(sendCtx, rtp.seq)
           p == [seq |-> rtp.seq, ts |-> rtp.ts, index |-> PacketIndex(c, rtp.seq)]
<1>1. /\ c.initialized /\ c.lastSeq = rtp.seq /\ c.roc \in Nat
      /\ p.index \in Nat /\ p.index % SeqSpace = rtp.seq
      /\ sent # <<>> => p.index = sent[N].index + 1
  BY NextIndex DEF Context
<1>2. rtp.seq \in SeqNumbers /\ rtp.ts \in TimeStamps /\ p \in Packet /\ N \in Nat
  BY <1>1 DEF AudioTypeOK, Packet
<1>3. sendCtx' = c /\ sent' = Append(sent, p)
  BY DEF SendFrame
<1>4. sent' \in Seq(Packet) /\ Len(sent') = N + 1 /\ sent'[N + 1] = p /\ \A n \in 1 .. N : sent'[n] = sent[n]
  BY <1>2, <1>3, PacketsStay DEF Numbers
<1>5. rtp'.seq = (rtp.seq + 1) % SeqSpace /\ rtp'.ts = (rtp.ts + Frame) % TsSpace
  BY DEF SendFrame
<1> DEFINE t == sent'[1].ts
<1>6. t \in TimeStamps /\ rtp.ts = (t + N * Frame) % TsSpace
  <2>1. CASE sent = <<>>
    <3>1. N = 0 /\ t = rtp.ts /\ t + N * Frame = t
      BY <2>1, <1>2, <1>4 DEF TimeStamps
    <3> QED
      BY <1>2, <3>1, SmallIsRemainder DEF TimeStamps
  <2>2. CASE sent # <<>>
    <3>1. N >= 1 /\ t = sent[1].ts /\ sent[1] \in Packet
      BY <2>2, <1>4 DEF AudioTypeOK
    <3> QED
      BY <2>2, <3>1 DEF SenderCounts, Packet
  <2> QED
    BY <2>1, <2>2
<1>7. rtp'.ts = (t + (N + 1) * Frame) % TsSpace
  <2>1. t \in Nat /\ N \in Nat /\ Frame \in Nat
    BY <1>2, <1>6 DEF TimeStamps
  <2> HIDE DEF t, N
  <2>2. t + N * Frame \in Nat /\ (t + N * Frame) + Frame = t + (N + 1) * Frame
    BY <2>1
  <2> QED
    <3>1. PICK x \in Nat : x = t + N * Frame
      BY <2>2, Zenon
    <3>2. rtp'.ts = ((x % TsSpace) + Frame) % TsSpace
      BY <1>5, <1>6, <3>1, Zenon
    <3>3. ((x % TsSpace) + Frame) % TsSpace = (x + Frame) % TsSpace
      BY <2>1, ModAdd
    <3>4. x + Frame = t + (N + 1) * Frame
      BY <2>2, <3>1, Zenon
    <3> QED
      BY <3>2, <3>3, <3>4, Zenon
<1>8. rtp'.seq = (p.index + 1) % SeqSpace
  <2> HIDE DEF p
  <2>1. ((p.index % SeqSpace) + 1) % SeqSpace = (p.index + 1) % SeqSpace
    <3>1. p.index \in Nat /\ SeqSpace \in Nat \ {0} /\ 1 \in Nat
      BY <1>1
    <3> QED
      BY ONLY <3>1, ModAdd
  <2> QED
    BY <1>1, <1>5, <2>1
<1>9. ASSUME N # 0
      PROVE  sent # <<>> /\ sent[N].index = sent[1].index + N - 1
  <2>1. N \in 1 .. Len(sent)
    BY <1>2, <1>9
  <2>2. sent # <<>>
    BY <1>9
  <2> QED
    BY <2>1, <2>2 DEF SenderCounts, Numbers
<1>10. N = 0 => sent'[1] = p
  BY <1>4
<1>11. ASSUME NEW n \in 1 .. N + 1
       PROVE  /\ sent'[n].index = sent'[1].index + n - 1
              /\ sent'[n].seq = sent'[n].index % SeqSpace
              /\ sent'[n].ts = (t + (n - 1) * Frame) % TsSpace
  <2>1. CASE n <= N
    <3>1. n \in 1 .. N /\ 1 \in 1 .. N /\ sent'[n] = sent[n] /\ sent'[1] = sent[1]
      BY <2>1, <1>2, <1>4
    <3> QED
      BY <3>1 DEF SenderCounts, Numbers
  <2>2. CASE n = N + 1
    <3>1. sent'[n] = p /\ n - 1 = N
      BY <2>2, <1>2, <1>4
    <3>2. p.seq = p.index % SeqSpace /\ p.ts = (t + N * Frame) % TsSpace
      BY <1>1, <1>6
    <3>3. p.index = sent'[1].index + N
      <4>1. CASE N = 0
        BY <4>1, <1>1, <1>10
      <4>2. CASE N # 0
        <5>1. sent'[1] = sent[1] /\ sent[1] \in Packet
          BY <4>2, <1>2, <1>4 DEF AudioTypeOK
        <5> QED
          <6>1. p.index = sent[N].index + 1 /\ sent[N].index = sent'[1].index + N - 1
            BY <4>2, <5>1, <1>1, <1>9, Zenon
          <6>2. sent'[1].index \in Nat /\ N \in Nat
            BY <5>1, <1>2 DEF Packet
          <6> QED
            BY <6>1, <6>2
      <4> QED
        BY <4>1, <4>2
    <3>4. sent'[1].index \in Nat
      <4>1. 1 \in 1 .. Len(sent')
        BY <1>2, <1>4
      <4>2. sent'[1] \in Packet
        BY <4>1, <1>4
      <4> QED
        BY <4>2 DEF Packet
    <3> QED
      BY <3>1, <3>2, <3>3, <3>4, <1>2
  <2> QED
    BY <2>1, <2>2, <1>2
<1>12. /\ sendCtx'.initialized /\ sendCtx'.lastSeq = sent'[Len(sent')].seq
       /\ sendCtx'.roc * SeqSpace + sendCtx'.lastSeq = sent'[Len(sent')].index
       /\ rtp'.seq = (sent'[Len(sent')].index + 1) % SeqSpace
       /\ rtp'.ts = (sent'[1].ts + Len(sent') * Frame) % TsSpace
  <2>1. sent'[Len(sent')] = p
    BY <1>4
  <2>2. p.seq = rtp.seq /\ p.index = c.roc * SeqSpace + rtp.seq
    BY DEF PacketIndex
  <2>3. rtp'.ts = (sent'[1].ts + Len(sent') * Frame) % TsSpace
    BY <1>4, <1>7
  <2> HIDE DEF p, c
  <2> QED
    BY <1>1, <1>3, <1>8, <2>1, <2>2, <2>3
<1>13. sent' # <<>> /\ Len(sent') = N + 1
  BY <1>2, <1>4
<1> QED
  BY <1>11, <1>12, <1>13 DEF SenderCounts, Numbers

LEMMA SendFrameKeeps ==
    ASSUME CountsIInv, SendFrame
    PROVE  CountsIInv' /\ (PlayFits => PlayFits')
<1> USE DEF CountsIInv
<1> DEFINE p == [seq |-> rtp.seq, ts |-> rtp.ts, index |-> PacketIndex(UpdateRoc(sendCtx, rtp.seq), rtp.seq)]
<1>1. /\ recvCtx' = recvCtx /\ arrived' = arrived /\ skewed' = skewed /\ recvPc' = recvPc
      /\ handled' = handled /\ crossed' = crossed /\ torn' = torn /\ counted' = counted
      /\ timeline' = timeline /\ played' = played /\ heard' = heard /\ sent' = Append(sent, p)
  BY DEF SendFrame, srtpVars, playVars
<1>2. p \in Packet
  BY NextIndex DEF AudioTypeOK, Packet
<1>3. Len(sent) \in Nat /\ \A n \in 1 .. Len(sent) : sent'[n] = sent[n]
  BY <1>1, <1>2, PacketsStay DEF AudioTypeOK, Numbers
<1>4. arrived # 0 => arrived \in 1 .. Len(sent)
  BY <1>3 DEF AudioTypeOK
<1>5. \A c \in Conns : recvPc[c] # "idle" => handled[c] \in 1 .. Len(sent)
  BY <1>3 DEF AudioTypeOK
<1>6. ReceiverCounts'
  <2>1. RocFollows => RocFollows'
    BY <1>1, <1>3, <1>4, <1>5 DEF RocFollows, Epoch
  <2> QED
    BY <1>1, <1>3, <1>4, <2>1 DEF ReceiverCounts
<1>7. \A b \in 1 .. heard.last : b \in 1 .. Len(sent)
  BY <1>3 DEF AudioTypeOK, HeardType
<1>8. PlayFits => PlayFits'
  BY <1>1, <1>3, <1>7 DEF PlayFits, PlaysInTime, Lengths
<1> QED
  BY <1>6, <1>8, SendFrameType, SendFrameCounts

-----------------------------------------------------------------------------
(* A packet is received and decrypted.                                     *)

\* updateRoc counts exactly the wraps Countable allows.
LEMMA WrapIsCounted ==
    ASSUME NEW S \in Nat, S > 2, NEW i \in Nat, NEW j \in Nat, NEW a \in Nat, NEW n \in Nat,
           j - i = n - a,
           \/ j \div S = i \div S /\ a <= n + S \div 2
           \/ j \div S = (i \div S) + 1 /\ 2 * (n - a) < S
    PROVE  (IF i % S > (j % S) + (S \div 2) THEN (i \div S) + 1 ELSE i \div S) = j \div S
<1> DEFINE p == i \div S
           q == j \div S
           l == i % S
           s == j % S
<1>0. S \in Nat \ {0}
  OBVIOUS
<1>1. p \in Nat /\ l \in 0 .. S - 1 /\ i = p * S + l
  BY ONLY <1>0, i \in Nat, DivModIs
<1>2. q \in Nat /\ s \in 0 .. S - 1 /\ j = q * S + s
  BY ONLY <1>0, j \in Nat, DivModIs
<1> HIDE DEF p, q, l, s
<1>3. CASE q = p /\ a <= n + S \div 2
  <2>1. s - l = n - a
    BY <1>1, <1>2, <1>3
  <2>2. ~(l > s + (S \div 2))
    BY <1>1, <1>2, <1>3, <2>1
  <2> QED
    BY <1>3, <2>2
<1>4. CASE q = p + 1 /\ 2 * (n - a) < S
  <2>1. S + s - l = n - a
    BY <1>1, <1>2, <1>4
  <2>2. l > s + (S \div 2)
    BY <1>1, <1>2, <1>4, <2>1
  <2> QED
    BY <1>4, <2>2
<1> QED
  BY <1>3, <1>4 DEF p, q, l, s

\* What the receiver does to its context leaves the sender and the time line.
LEMMA ReceiverSteps ==
    ASSUME CountsIInv, UNCHANGED <<sendVars, playVars>>,
           recvCtx' \in Context, recvPc' \in [Conns -> RecvSteps], handled' \in [Conns -> 0 .. Len(sent)],
           counted' \in [Conns -> Nat], samples' \in [Conns -> Nat],
           \A c \in Conns : recvPc'[c] # "idle" => handled'[c] # 0,
           \A c \in Conns : recvPc'[c] = "align" => samples'[c] \in Lengths,
           arrived' \in 0 .. Len(sent), skewed' \in BOOLEAN, torn' \in BOOLEAN, crossed' \subseteq Conns,
           ReceiverCounts'
    PROVE  CountsIInv' /\ (PlayFits => PlayFits')
<1>1. /\ rtp' = rtp /\ sendCtx' = sendCtx /\ sent' = sent
      /\ timeline' = timeline /\ played' = played /\ heard' = heard
  BY DEF sendVars, playVars
<1>2. AudioTypeOK'
  BY <1>1 DEF CountsIInv, AudioTypeOK, SeqNumbers, TimeStamps, Context, Packet, RecvSteps, Lengths, HeardType
<1>3. SenderCounts'
  BY <1>1 DEF CountsIInv, SenderCounts, Numbers
<1>4. PlayFits => PlayFits'
  BY <1>1 DEF PlayFits, PlaysInTime, Lengths
<1> QED
  BY <1>2, <1>3, <1>4 DEF CountsIInv

\* A packet told apart from the last one.
LEMMA EpochIs ==
    ASSUME CountsIInv, NEW n \in Numbers, Countable(n), arrived # 0, recvCtx.roc = Epoch(arrived)
    PROVE  Epoch(n) = IF Wraps(recvCtx, sent[n].seq) THEN recvCtx.roc + 1 ELSE recvCtx.roc
<1> USE AudioPathAssumption DEF CountsIInv
<1> DEFINE i == sent[arrived].index
           j == sent[n].index
<1>1. /\ arrived \in 1 .. Len(sent) /\ sent[arrived] \in Packet /\ arrived \in Nat
      /\ sent[n] \in Packet /\ n \in Nat /\ 1 \in Numbers /\ sent[1] \in Packet
  BY DEF AudioTypeOK, Numbers
<1>2. i = sent[1].index + arrived - 1 /\ sent[arrived].seq = i % SeqSpace
  BY <1>1 DEF SenderCounts, Numbers
<1>3. j = sent[1].index + n - 1 /\ sent[n].seq = j % SeqSpace
  BY DEF SenderCounts
<1>4. i \in Nat /\ j \in Nat /\ sent[1].index \in Nat
  BY <1>1 DEF Packet
<1>5. j - i = n - arrived
  <2>1. n \in Nat /\ arrived \in Nat
    BY <1>1
  <2>2. i = sent[1].index + arrived - 1 /\ j = sent[1].index + n - 1
    BY <1>2, <1>3
  <2> HIDE DEF i, j
  <2> QED
    BY ONLY <1>4, <2>1, <2>2
<1>6. \/ j \div SeqSpace = i \div SeqSpace /\ arrived <= n + SeqSpace \div 2
      \/ j \div SeqSpace = (i \div SeqSpace) + 1 /\ 2 * (n - arrived) < SeqSpace
  BY DEF Countable, Epoch
<1>7. recvCtx.initialized /\ recvCtx.lastSeq = i % SeqSpace
  BY <1>2 DEF ReceiverCounts
<1>8. Wraps(recvCtx, sent[n].seq) <=> i % SeqSpace > (j % SeqSpace) + (SeqSpace \div 2)
  BY <1>3, <1>7 DEF Wraps
<1>9. SeqSpace \in Nat /\ SeqSpace > 2
  OBVIOUS
<1>10. (IF i % SeqSpace > (j % SeqSpace) + (SeqSpace \div 2)
        THEN (i \div SeqSpace) + 1 ELSE i \div SeqSpace) = j \div SeqSpace
  <2> HIDE DEF i, j
  <2> QED
    BY ONLY <1>1, <1>4, <1>5, <1>6, <1>9, WrapIsCounted
<1> QED
  BY <1>8, <1>10 DEF Epoch

LEMMA ReceiveKeeps ==
    ASSUME CountsIInv, NEW c \in Conns, Receive(c)
    PROVE  CountsIInv' /\ (PlayFits => PlayFits')
<1>1. PICK n \in 1 .. Len(sent) :
        /\ handled' = [handled EXCEPT ![c] = n]
        /\ skewed' = (skewed \/ ~Countable(n))
        /\ recvPc' = [recvPc EXCEPT ![c] = IF Wraps(recvCtx, sent[n].seq) THEN "wrap" ELSE "store"]
  BY DEF Receive
<1>2. /\ recvPc[c] = "idle" /\ UNCHANGED <<sendVars, recvCtx, counted, arrived, torn, samples, playVars>>
      /\ crossed' = crossed \cup {d \in {c} : \E e \in Conns : recvPc[e] = "raised"}
  BY DEF Receive
<1>3. recvCtx' = recvCtx /\ counted' = counted /\ arrived' = arrived /\ torn' = torn /\ samples' = samples /\ sent' = sent
  BY <1>2 DEF sendVars
<1>4. /\ recvCtx \in Context /\ recvPc \in [Conns -> RecvSteps] /\ handled \in [Conns -> 0 .. Len(sent)]
      /\ counted \in [Conns -> Nat] /\ samples \in [Conns -> Nat]
      /\ \A d \in Conns : recvPc[d] # "idle" => handled[d] # 0
      /\ \A d \in Conns : recvPc[d] = "align" => samples[d] \in Lengths
      /\ arrived \in 0 .. Len(sent) /\ torn \in BOOLEAN /\ crossed \subseteq Conns
  BY DEF CountsIInv, AudioTypeOK
<1>5. n \in Numbers /\ n # 0 /\ n \in 0 .. Len(sent)
  BY <1>4 DEF Numbers, CountsIInv, AudioTypeOK
<1>6. recvPc' \in [Conns -> RecvSteps] /\ handled' \in [Conns -> 0 .. Len(sent)]
  <2>1. {"wrap", "store"} \subseteq RecvSteps
    BY DEF RecvSteps
  <2> QED
    BY <1>1, <1>4, <1>5, <2>1
<1>7. /\ recvPc'[c] = (IF Wraps(recvCtx, sent[n].seq) THEN "wrap" ELSE "store") /\ handled'[c] = n
      /\ \A d \in Conns \ {c} : recvPc'[d] = recvPc[d] /\ handled'[d] = handled[d]
  BY <1>1, <1>4
<1>8. /\ \A d \in Conns : recvPc'[d] # "idle" => handled'[d] # 0
      /\ \A d \in Conns : recvPc'[d] = "align" => samples'[d] \in Lengths
  BY <1>3, <1>4, <1>5, <1>7
<1>9. skewed' \in BOOLEAN
  BY <1>1, Zenon
<1>10. crossed' \subseteq Conns
  BY <1>2, <1>4
<1>11. Wraps(recvCtx, sent[n].seq) => arrived # 0
  BY DEF Wraps, CountsIInv, ReceiverCounts
<1>12. ASSUME ~skewed', ~torn'
       PROVE  RocFollows'
  <2>1. RocFollows /\ Countable(n)
    BY <1>1, <1>3, <1>12 DEF CountsIInv, ReceiverCounts
  <2>2. \A d \in Conns : recvPc'[d] = "raised" <=> recvPc[d] = "raised"
    BY <1>2, <1>7
  <2>3. ASSUME NEW e \in Conns, NEW d \in Conns, recvPc'[e] = "raised"
        PROVE  e \notin crossed' /\ (d # e /\ recvPc'[d] \notin {"idle", "align"} => d \in crossed')
    <3>1. recvPc[e] = "raised" /\ e # c
      BY <1>2, <2>2, <2>3
    <3>2. crossed' = crossed \cup {c} /\ e \notin crossed
      BY <1>2, <2>1, <3>1 DEF RocFollows
    <3> QED
      BY <1>7, <2>1, <3>1, <3>2 DEF RocFollows
  <2>4. arrived # 0 /\ (\A d \in Conns : recvPc'[d] # "raised") => recvCtx.roc = Epoch(arrived)
    BY <2>1, <2>2 DEF RocFollows
  <2>5. ASSUME c \notin crossed'
        PROVE  /\ recvPc'[c] \in {"wrap", "raise"} => recvCtx.roc + 1 = Epoch(n)
               /\ recvPc'[c] \in {"raised", "store", "index"} => recvCtx.roc = Epoch(n)
    <3>1. \A d \in Conns : recvPc[d] # "raised"
      BY <1>2, <2>5
    <3>2. CASE arrived = 0
      <4>1. recvCtx.roc = 0 /\ recvPc'[c] = "store"
        BY <1>7, <1>11, <3>2 DEF CountsIInv, ReceiverCounts
      <4>2. Epoch(n) = 0
        BY <2>1, <3>2 DEF Countable
      <4> QED
        BY <4>1, <4>2
    <3>3. CASE arrived # 0
      <4>1. recvCtx.roc = Epoch(arrived)
        BY <2>1, <3>1, <3>3 DEF RocFollows
      <4>2. Epoch(n) = IF Wraps(recvCtx, sent[n].seq) THEN recvCtx.roc + 1 ELSE recvCtx.roc
        BY <1>5, <2>1, <3>3, <4>1, EpochIs
      <4> QED
        BY <1>7, <4>2
    <3> QED
      BY <3>2, <3>3
  <2>6. \A d \in Conns \ crossed' : d # c =>
           /\ recvPc'[d] \in {"wrap", "raise"} => recvCtx.roc + 1 = Epoch(handled'[d])
           /\ recvPc'[d] = "raise" => counted[d] = recvCtx.roc
           /\ recvPc'[d] \in {"raised", "store", "index"} => recvCtx.roc = Epoch(handled'[d])
    BY <1>2, <1>7, <2>1 DEF RocFollows
  <2>7. recvPc'[c] # "raise"
    BY <1>7
  <2> QED
    BY <1>3, <1>7, <2>3, <2>4, <2>5, <2>6, <2>7 DEF RocFollows, Epoch
<1>13. ReceiverCounts'
  <2>1. \A d \in Conns : recvPc'[d] \in {"wrap", "raise", "raised"} => arrived # 0
    BY <1>7, <1>11 DEF CountsIInv, ReceiverCounts
  <2> QED
    BY <1>3, <1>12, <2>1 DEF CountsIInv, ReceiverCounts
<1> QED
  BY <1>2, <1>3, <1>4, <1>6, <1>8, <1>9, <1>10, <1>13, ReceiverSteps

\* What these steps have in common.
RecvTypes ==
    /\ recvCtx \in Context /\ recvPc \in [Conns -> RecvSteps] /\ handled \in [Conns -> 0 .. Len(sent)]
    /\ counted \in [Conns -> Nat] /\ samples \in [Conns -> Nat]
    /\ \A d \in Conns : recvPc[d] # "idle" => handled[d] # 0
    /\ \A d \in Conns : recvPc[d] = "align" => samples[d] \in Lengths
    /\ arrived \in 0 .. Len(sent) /\ skewed \in BOOLEAN /\ torn \in BOOLEAN /\ crossed \subseteq Conns

LEMMA RecvTypesHold == CountsIInv => RecvTypes
  BY DEF CountsIInv, AudioTypeOK, RecvTypes

LEMMA ReadRocKeeps ==
    ASSUME CountsIInv, NEW c \in Conns, ReadRoc(c)
    PROVE  CountsIInv' /\ (PlayFits => PlayFits')
<1>1. /\ recvPc[c] = "wrap" /\ counted' = [counted EXCEPT ![c] = recvCtx.roc]
      /\ recvPc' = [recvPc EXCEPT ![c] = "raise"]
      /\ UNCHANGED <<sendVars, playVars>> /\ sent' = sent /\ recvCtx' = recvCtx /\ arrived' = arrived
      /\ crossed' = crossed /\ torn' = torn /\ handled' = handled /\ skewed' = skewed /\ samples' = samples
  BY DEF ReadRoc, sendVars
<1>2. RecvTypes
  BY RecvTypesHold
<1>3. recvCtx.roc \in Nat
  BY <1>2 DEF RecvTypes, Context
<1>4. counted' \in [Conns -> Nat] /\ recvPc' \in [Conns -> RecvSteps]
  <2>1. "raise" \in RecvSteps
    BY DEF RecvSteps
  <2> QED
    BY <1>1, <1>2, <1>3, <2>1 DEF RecvTypes
<1>5. /\ recvPc'[c] = "raise" /\ counted'[c] = recvCtx.roc
      /\ \A d \in Conns \ {c} : recvPc'[d] = recvPc[d] /\ counted'[d] = counted[d]
  BY <1>1, <1>2 DEF RecvTypes
<1>6. /\ \A d \in Conns : recvPc'[d] # "idle" => handled'[d] # 0
      /\ \A d \in Conns : recvPc'[d] = "align" => samples'[d] \in Lengths
  BY <1>1, <1>2, <1>5 DEF RecvTypes
<1>7. ASSUME RocFollows
      PROVE  RocFollows'
  <2>1. \A d \in Conns : /\ recvPc'[d] = "raised" <=> recvPc[d] = "raised"
                         /\ recvPc'[d] \notin {"idle", "align"} <=> recvPc[d] \notin {"idle", "align"}
                         /\ recvPc'[d] \in {"wrap", "raise"} <=> recvPc[d] \in {"wrap", "raise"}
                         /\ recvPc'[d] \in {"raised", "store", "index"} <=> recvPc[d] \in {"raised", "store", "index"}
    BY <1>1, <1>5
  <2>2. \A d \in Conns \ crossed : recvPc'[d] = "raise" => counted'[d] = recvCtx.roc
    BY <1>5, <1>7 DEF RocFollows
  <2> QED
    BY <1>1, <1>7, <2>1, <2>2 DEF RocFollows, Epoch
<1>8. ReceiverCounts'
  <2>1. \A d \in Conns : recvPc'[d] \in {"wrap", "raise", "raised"} => arrived # 0
    BY <1>1, <1>5 DEF CountsIInv, ReceiverCounts
  <2> QED
    BY <1>1, <1>7, <2>1 DEF CountsIInv, ReceiverCounts
<1> QED
  BY <1>1, <1>2, <1>4, <1>6, <1>8, ReceiverSteps DEF RecvTypes

LEMMA RaiseRocKeeps ==
    ASSUME CountsIInv, NEW c \in Conns, RaiseRoc(c)
    PROVE  CountsIInv' /\ (PlayFits => PlayFits')
<1>1. /\ recvPc[c] = "raise" /\ recvCtx' = [recvCtx EXCEPT !.roc = counted[c] + 1]
      /\ counted' = [counted EXCEPT ![c] = 0] /\ recvPc' = [recvPc EXCEPT ![c] = "raised"]
      /\ torn' = (torn \/ c \in crossed)
      /\ crossed' = crossed \cup {d \in Conns \ {c} : recvPc[d] \notin {"idle", "align"}}
      /\ UNCHANGED <<sendVars, playVars>> /\ sent' = sent /\ arrived' = arrived
      /\ handled' = handled /\ skewed' = skewed /\ samples' = samples
  BY DEF RaiseRoc, sendVars
<1>2. RecvTypes
  BY RecvTypesHold
<1>3. counted[c] + 1 \in Nat
  BY <1>2 DEF RecvTypes
<1>4. /\ recvCtx' \in Context /\ recvCtx'.roc = counted[c] + 1
      /\ recvCtx'.lastSeq = recvCtx.lastSeq /\ recvCtx'.initialized = recvCtx.initialized
  BY <1>1, <1>2, <1>3 DEF RecvTypes, Context
<1>5. counted' \in [Conns -> Nat] /\ recvPc' \in [Conns -> RecvSteps] /\ crossed' \subseteq Conns
  <2>1. "raised" \in RecvSteps
    BY DEF RecvSteps
  <2> QED
    BY <1>1, <1>2, <2>1 DEF RecvTypes
<1>6. torn' \in BOOLEAN
  BY <1>1, Zenon
<1>7. recvPc'[c] = "raised" /\ \A d \in Conns \ {c} : recvPc'[d] = recvPc[d] /\ counted'[d] = counted[d]
  BY <1>1, <1>2 DEF RecvTypes
<1>8. /\ \A d \in Conns : recvPc'[d] # "idle" => handled'[d] # 0
      /\ \A d \in Conns : recvPc'[d] = "align" => samples'[d] \in Lengths
  BY <1>1, <1>2, <1>7 DEF RecvTypes
<1>9. arrived # 0
  BY <1>1 DEF CountsIInv, ReceiverCounts
<1>10. ASSUME RocFollows, c \notin crossed
       PROVE  RocFollows'
  <2>1. recvCtx'.roc = Epoch(handled[c])
    BY <1>1, <1>4, <1>10 DEF RocFollows
  <2>2. \A e \in Conns : recvPc'[e] = "raised" => e = c
    <3>1. ASSUME NEW e \in Conns, recvPc[e] = "raised", e # c
          PROVE  FALSE
      BY <1>1, <1>10, <3>1 DEF RocFollows
    <3> QED
      BY <1>7, <3>1
  <2>3. \A d \in Conns : d # c /\ recvPc'[d] \notin {"idle", "align"} => d \in crossed'
    BY <1>1, <1>7
  <2>4. c \notin crossed'
    BY <1>1, <1>10
  <2>5. \A d \in Conns \ crossed' : d # c => recvPc'[d] \in {"idle", "align"}
    BY <2>3
  <2> QED
    BY <1>1, <1>7, <2>1, <2>2, <2>3, <2>4, <2>5 DEF RocFollows, Epoch
<1>11. ReceiverCounts'
  <2>1. ~skewed' /\ ~torn' => RocFollows'
    BY <1>1, <1>10 DEF CountsIInv, ReceiverCounts
  <2> QED
    BY <1>1, <1>4, <1>9, <2>1 DEF CountsIInv, ReceiverCounts
<1> QED
  BY <1>1, <1>2, <1>4, <1>5, <1>6, <1>8, <1>11, ReceiverSteps DEF RecvTypes

LEMMA StoreSeqKeeps ==
    ASSUME CountsIInv, NEW c \in Conns, StoreSeq(c)
    PROVE  CountsIInv' /\ (PlayFits => PlayFits')
<1>1. /\ recvPc[c] \in {"store", "raised"}
      /\ recvCtx' = [recvCtx EXCEPT !.lastSeq = sent[handled[c]].seq, !.initialized = TRUE]
      /\ arrived' = handled[c] /\ torn' = (torn \/ c \in crossed)
      /\ recvPc' = [recvPc EXCEPT ![c] = "index"]
      /\ UNCHANGED <<sendVars, playVars>> /\ sent' = sent /\ counted' = counted /\ crossed' = crossed
      /\ handled' = handled /\ skewed' = skewed /\ samples' = samples
  BY DEF StoreSeq, sendVars
<1>2. RecvTypes
  BY RecvTypesHold
<1>3. handled[c] \in 1 .. Len(sent) /\ handled[c] # 0 /\ sent[handled[c]].seq \in SeqNumbers
  <2>1. handled[c] \in 1 .. Len(sent)
    BY <1>1, <1>2 DEF RecvTypes, CountsIInv, AudioTypeOK
  <2>2. sent[handled[c]] \in Packet
    BY <2>1 DEF CountsIInv, AudioTypeOK
  <2> QED
    BY <2>1, <2>2 DEF Packet
<1>4. /\ recvCtx' \in Context /\ recvCtx'.roc = recvCtx.roc
      /\ recvCtx'.lastSeq = sent[handled[c]].seq /\ recvCtx'.initialized
  BY <1>1, <1>2, <1>3 DEF RecvTypes, Context
<1>5. recvPc' \in [Conns -> RecvSteps] /\ arrived' \in 0 .. Len(sent)
  <2>1. "index" \in RecvSteps
    BY DEF RecvSteps
  <2> QED
    BY <1>1, <1>2, <2>1 DEF RecvTypes
<1>6. torn' \in BOOLEAN
  BY <1>1, Zenon
<1>7. recvPc'[c] = "index" /\ \A d \in Conns \ {c} : recvPc'[d] = recvPc[d]
  BY <1>1, <1>2 DEF RecvTypes
<1>8. /\ \A d \in Conns : recvPc'[d] # "idle" => handled'[d] # 0
      /\ \A d \in Conns : recvPc'[d] = "align" => samples'[d] \in Lengths
  BY <1>1, <1>2, <1>7 DEF RecvTypes
<1>9. ASSUME RocFollows, c \notin crossed
      PROVE  RocFollows'
  <2>1. recvCtx'.roc = Epoch(handled[c])
    BY <1>1, <1>4, <1>9 DEF RocFollows
  <2>2. \A e \in Conns : recvPc'[e] # "raised"
    <3>1. ASSUME NEW e \in Conns, recvPc[e] = "raised", e # c
          PROVE  FALSE
      BY <1>1, <1>9, <3>1 DEF RocFollows
    <3> QED
      BY <1>7, <3>1
  <2>3. \A d \in Conns \ crossed : d # c =>
           /\ recvPc'[d] \in {"wrap", "raise"} => recvCtx.roc + 1 = Epoch(handled[d])
           /\ recvPc'[d] = "raise" => counted[d] = recvCtx.roc
           /\ recvPc'[d] \in {"raised", "store", "index"} => recvCtx.roc = Epoch(handled[d])
    BY <1>7, <1>9 DEF RocFollows
  <2> QED
    BY <1>1, <1>4, <1>7, <2>1, <2>2, <2>3 DEF RocFollows, Epoch
<1>10. ReceiverCounts'
  <2>1. ~skewed' /\ ~torn' => RocFollows'
    BY <1>1, <1>9 DEF CountsIInv, ReceiverCounts
  <2> QED
    BY <1>1, <1>3, <1>4, <2>1 DEF CountsIInv, ReceiverCounts
<1> QED
  BY <1>1, <1>2, <1>4, <1>5, <1>6, <1>8, <1>10, ReceiverSteps DEF RecvTypes

LEMMA DecodeKeeps ==
    ASSUME CountsIInv, NEW c \in Conns, Decode(c)
    PROVE  CountsIInv' /\ (PlayFits => PlayFits')
<1> USE AudioPathAssumption
<1>1. /\ recvPc[c] = "index" /\ recvPc' = [recvPc EXCEPT ![c] = "align"] /\ crossed' = crossed \ {c}
      /\ UNCHANGED <<sendVars, playVars>> /\ sent' = sent /\ recvCtx' = recvCtx /\ counted' = counted
      /\ arrived' = arrived /\ torn' = torn /\ handled' = handled /\ skewed' = skewed
  BY DEF Decode, sendVars
<1>2. PICK x \in Lengths : samples' = [samples EXCEPT ![c] = x]
  BY DEF Decode, Lengths
<1>3. RecvTypes
  BY RecvTypesHold
<1>4. x \in Nat
  BY DEF Lengths
<1>5. /\ samples' \in [Conns -> Nat] /\ recvPc' \in [Conns -> RecvSteps] /\ crossed' \subseteq Conns
  <2>1. "align" \in RecvSteps
    BY DEF RecvSteps
  <2> QED
    BY <1>1, <1>2, <1>3, <1>4, <2>1 DEF RecvTypes
<1>6. /\ recvPc'[c] = "align" /\ samples'[c] = x
      /\ \A d \in Conns \ {c} : recvPc'[d] = recvPc[d] /\ samples'[d] = samples[d]
  BY <1>1, <1>2, <1>3 DEF RecvTypes
<1>7. /\ \A d \in Conns : recvPc'[d] # "idle" => handled'[d] # 0
      /\ \A d \in Conns : recvPc'[d] = "align" => samples'[d] \in Lengths
  BY <1>1, <1>3, <1>6 DEF RecvTypes
<1>8. ASSUME RocFollows
      PROVE  RocFollows'
  <2>1. \A d \in Conns : recvPc'[d] = "raised" <=> recvPc[d] = "raised"
    BY <1>1, <1>6
  <2>2. ASSUME NEW e \in Conns, NEW d \in Conns, recvPc'[e] = "raised"
        PROVE  e \notin crossed' /\ (d # e /\ recvPc'[d] \notin {"idle", "align"} => d \in crossed')
    BY <1>1, <1>6, <1>8, <2>1, <2>2 DEF RocFollows
  <2>3. \A d \in Conns \ crossed' : recvPc'[d] # "align" => d \in Conns \ crossed /\ recvPc'[d] = recvPc[d]
    BY <1>1, <1>6
  <2> QED
    BY <1>1, <1>8, <2>1, <2>2, <2>3 DEF RocFollows, Epoch
<1>9. ReceiverCounts'
  <2>1. \A d \in Conns : recvPc'[d] \in {"wrap", "raise", "raised"} => arrived # 0
    BY <1>6 DEF CountsIInv, ReceiverCounts
  <2> QED
    BY <1>1, <1>8, <2>1 DEF CountsIInv, ReceiverCounts
<1> QED
  BY <1>1, <1>3, <1>5, <1>7, <1>9, ReceiverSteps DEF RecvTypes

-----------------------------------------------------------------------------
(* A frame is aligned and played.                                          *)

\* As ModDifference, when it is negative.
LEMMA ModDifferenceBack ==
    ASSUME NEW T \in Nat \ {0}, NEW x \in Nat, NEW y \in Nat, y > x, y - x < T
    PROVE  (T + (x % T) - (y % T)) % T = T - (y - x)
<1> DEFINE q == x \div T
           r == x % T
           p == y \div T
           s == y % T
           d == T + r - s
<1>1. q \in Nat /\ r \in 0 .. T - 1 /\ x = q * T + r
  BY DivModIs
<1>2. p \in Nat /\ s \in 0 .. T - 1 /\ y = p * T + s
  BY DivModIs
<1>3. d = (p - q) * T + (T - (y - x))
  BY <1>1, <1>2
<1> DEFINE m == T - (y - x)
           k == p - q
<1>4. d \in Nat /\ m \in 0 .. T - 1 /\ k \in Int /\ d = k * T + m
  BY <1>1, <1>2, <1>3
<1>5. d % T = m
  <2> HIDE DEF d, q, p, m, k
  <2> QED
    BY <1>4, DivModUnique
<1> QED
  BY <1>5

LEMMA ProductsAreOrdered ==
    ASSUME NEW F \in Nat \ {0}, NEW i \in Int, NEW j \in Int, i <= j
    PROVE  i * F <= j * F
  OBVIOUS

LEMMA SamplesAreNat ==
    ASSUME NEW F \in Nat, NEW l \in Nat, NEW x \in Nat
    PROVE  l * F \in Nat /\ l * F + x \in Nat
  OBVIOUS

\* With the time line as PlayFits says, what begins after the last frame has
\* ended leaves a gap of just that length, and what begins before is in the past
\* or too far ahead: x is the length of that frame.
LEMMA GapIs ==
    ASSUME NEW T \in Nat \ {0}, NEW F \in Nat \ {0}, NEW M \in Nat, NEW G \in Nat, NEW x \in Nat \ {0},
           M * F + x + G < T,
           NEW l \in 1 .. M, NEW n \in 1 .. M, NEW b \in 1 .. l,
           NEW target, target = IF n >= b THEN (n - b) * F ELSE T - (b - n) * F,
           NEW p, p = (l - b) * F + x,
           NEW s, s = n * F, NEW e, e = l * F + x
    PROVE  /\ s >= e => target >= p /\ target - p = s - e
           /\ ~(s >= e) => ~(target >= p /\ target - p <= G)
<1>1. CASE n >= b
  <2>1. target - p = s - e
    BY <1>1
  <2>2. target \in Int /\ p \in Int /\ s \in Int /\ e \in Int
    BY <1>1
  <2> QED
    BY <2>1, <2>2
<1>2. CASE ~(n >= b)
  <2>1. n <= l
    BY <1>2
  <2>2. n * F <= l * F
    BY <2>1, ProductsAreOrdered
  <2>3. ~(s >= e)
    <3>1. n * F \in Int /\ l * F \in Int
      OBVIOUS
    <3> QED
      BY <2>2, <3>1
  <2>4. target - p = T - (l - n) * F - x
    BY <1>2
  <2>5. (l - n) * F <= M * F
    BY <1>2, ProductsAreOrdered
  <2>6. target \in Int /\ p \in Int /\ (l - n) * F \in Int /\ M * F \in Int
    BY <1>2
  <2> QED
    BY <2>3, <2>4, <2>5, <2>6
<1> QED
  BY <1>1, <1>2

\* The time stamps of two packets, apart from the wrap.
LEMMA TargetIs ==
    ASSUME AudioTypeOK, SenderCounts, NEW n \in Numbers, NEW b \in Numbers
    PROVE  (TsSpace + sent[n].ts - sent[b].ts) % TsSpace
             = IF n >= b THEN (n - b) * Frame ELSE TsSpace - (b - n) * Frame
<1> USE AudioPathAssumption
<1> DEFINE t == sent[1].ts
           x == t + (n - 1) * Frame
           y == t + (b - 1) * Frame
<1>1. /\ Len(sent) \in Nat /\ Len(sent) <= MaxPackets /\ n \in Nat /\ b \in Nat /\ n >= 1 /\ b >= 1
      /\ n <= Len(sent) /\ b <= Len(sent) /\ 1 \in Numbers
  BY DEF AudioTypeOK, Numbers
<1>2. t \in Nat
  <2>1. sent[1] \in Packet
    BY <1>1 DEF AudioTypeOK, Numbers
  <2> QED
    BY <2>1 DEF Packet, TimeStamps
<1>3. sent[n].ts = x % TsSpace /\ sent[b].ts = y % TsSpace
  BY DEF SenderCounts
<1> HIDE DEF t
<1>4. Frame \in Nat \ {0} /\ TsSpace \in Nat \ {0} /\ MaxPackets \in Nat /\ MaxGap \in Nat
  OBVIOUS
<1>5. 0 * Frame <= (n - 1) * Frame /\ 0 * Frame <= (b - 1) * Frame
  BY <1>1, <1>4, ProductsAreOrdered
<1>6. x \in Nat /\ y \in Nat
  BY <1>1, <1>2, <1>4, <1>5
<1>7. x - y = (n - b) * Frame /\ y - x = (b - n) * Frame
  BY <1>1, <1>2, <1>4
<1>8. (n - b) * Frame <= MaxPackets * Frame /\ (b - n) * Frame <= MaxPackets * Frame
  BY <1>1, <1>4, ProductsAreOrdered
<1>9. MaxPackets * Frame < TsSpace /\ MaxPackets * Frame \in Nat
  <2>1. MaxPackets * Frame \in Nat
    BY <1>4
  <2>2. MaxPackets * Frame + Frame + MaxGap < TsSpace
    BY CallIsShort
  <2> QED
    BY <1>4, <2>1, <2>2
<1>10. x - y < TsSpace /\ y - x < TsSpace
  <2>1. x - y \in Int /\ y - x \in Int /\ TsSpace \in Int
    BY <1>4, <1>6
  <2> HIDE DEF x, y
  <2> QED
    BY <2>1, <1>7, <1>8, <1>9
<1>11. CASE n >= b
  <2>1. 0 * Frame <= (n - b) * Frame
    BY <1>1, <1>4, <1>11, ProductsAreOrdered
  <2>2. x >= y
    BY <1>4, <1>6, <1>7, <2>1
  <2> HIDE DEF x, y
  <2>3. (TsSpace + (x % TsSpace) - (y % TsSpace)) % TsSpace = x - y
    BY <1>4, <1>6, <1>10, <2>2, ModDifference
  <2> QED
    BY <1>3, <1>7, <1>11, <2>3
<1>12. CASE ~(n >= b)
  <2>1. 1 * Frame <= (b - n) * Frame
    BY <1>1, <1>4, <1>12, ProductsAreOrdered
  <2>2. y > x
    BY <1>4, <1>6, <1>7, <2>1
  <2> HIDE DEF x, y
  <2>3. (TsSpace + (x % TsSpace) - (y % TsSpace)) % TsSpace = TsSpace - (y - x)
    BY <1>4, <1>6, <1>10, <2>2, ModDifferenceBack
  <2> QED
    BY <1>3, <1>7, <1>12, <2>3
<1> QED
  BY <1>11, <1>12

\* What Align fills in before packet n.
Fill(n) == IF timeline.set THEN {g \in Gap(sent[n].ts) : g <= MaxGap} ELSE {}

LEMMA LengthsAre == Lengths \subseteq Nat \ {0}
  BY AudioPathAssumption DEF Lengths

LEMMA FillIs ==
    ASSUME AudioTypeOK, SenderCounts, PlayFits, NEW n \in Numbers,
           NEW end, end = heard.last * Frame + heard.len
    PROVE  /\ heard.last = 0 => Fill(n) = {}
           /\ heard.last > 0 =>
                Fill(n) = IF n * Frame >= end /\ n * Frame - end <= MaxGap THEN {n * Frame - end} ELSE {}
<1>1. heard.last = 0 => Fill(n) = {}
  BY DEF PlayFits, Fill
<1>2. ASSUME heard.last > 0
      PROVE  Fill(n) = IF n * Frame >= end /\ n * Frame - end <= MaxGap THEN {n * Frame - end} ELSE {}
  <2> USE AudioPathAssumption
  <2>1. PICK b \in 1 .. heard.last :
          timeline.base = sent[b].ts /\ timeline.played = (heard.last - b) * Frame + heard.len
    BY <1>2 DEF PlayFits
  <2> DEFINE l == heard.last
             x == heard.len
             target == (TsSpace + sent[n].ts - timeline.base) % TsSpace
             p == timeline.played
             s == n * Frame
  <2>2. /\ Len(sent) \in Nat /\ Len(sent) <= MaxPackets /\ MaxPackets \in Nat
        /\ l \in 0 .. Len(sent) /\ timeline.set
    BY <1>2 DEF AudioTypeOK, HeardType, PlayFits
  <2>3. l \in 1 .. MaxPackets /\ n \in 1 .. MaxPackets /\ b \in 1 .. l /\ b \in Numbers
    BY <1>2, <2>2 DEF Numbers
  <2>4. x \in Nat \ {0} /\ MaxPackets * Frame + x + MaxGap < TsSpace
    <3>1. heard.len \in Lengths
      BY <1>2 DEF PlayFits
    <3> QED
      BY <3>1, LengthsAre, CallIsShort DEF Lengths
  <2>5. target = IF n >= b THEN (n - b) * Frame ELSE TsSpace - (b - n) * Frame
    BY <2>1, <2>3, TargetIs
  <2>6. p = (l - b) * Frame + x /\ end = l * Frame + x
    BY <2>1
  <2>7. Gap(sent[n].ts) = IF target >= p THEN {target - p} ELSE {}
    BY DEF Gap
  <2>8. Fill(n) = {g \in Gap(sent[n].ts) : g <= MaxGap}
    BY <2>2 DEF Fill
  <2>9. TsSpace \in Nat \ {0} /\ Frame \in Nat \ {0} /\ MaxGap \in Nat /\ s = n * Frame
    OBVIOUS
  <2> HIDE DEF l, x, target, p, s
  <2>10. /\ s >= end => target >= p /\ target - p = s - end
         /\ ~(s >= end) => ~(target >= p /\ target - p <= MaxGap)
    BY ONLY <2>2, <2>3, <2>4, <2>5, <2>6, <2>9, GapIs
  <2>11. CASE s >= end
    <3>1. Gap(sent[n].ts) = {s - end}
      BY <2>7, <2>10, <2>11
    <3>2. Fill(n) = {g \in {s - end} : g <= MaxGap}
      BY <2>8, <3>1
    <3> QED
      BY <2>11, <3>2 DEF s
  <2>12. CASE ~(s >= end)
    <3>1. \A g \in Gap(sent[n].ts) : ~(g <= MaxGap)
      BY <2>7, <2>10, <2>12
    <3>2. Fill(n) = {}
      BY <2>8, <3>1
    <3> QED
      BY <2>12, <3>2 DEF s
  <2> QED
    BY <2>11, <2>12
<1> QED
  BY <1>1, <1>2

\* What Align does to the time line, as a frame that follows in time or not.
AlignsFrom(c, n, end, follows) ==
    /\ recvPc[c] = "align" /\ recvPc' = [recvPc EXCEPT ![c] = "idle"] /\ n \in Numbers
    /\ samples[c] \in Lengths
    /\ follows =>
         /\ timeline' = [timeline EXCEPT !.played = @ + (n * Frame - end) + samples[c]]
         /\ played' = played + (n * Frame - end) + samples[c]
    /\ ~follows =>
         /\ timeline' = [set |-> TRUE, base |-> sent[n].ts, played |-> samples[c]]
         /\ played' = played + samples[c]
    /\ heard' =
         [first |-> IF heard.last = 0 THEN n ELSE heard.first,
          last |-> n,
          len |-> samples[c],
          back |-> IF end > n * Frame THEN heard.back + end - n * Frame ELSE heard.back,
          jumped |-> heard.jumped \/ (heard.last > 0 /\ n * Frame > end + MaxGap)]

LEMMA AlignSets ==
    ASSUME AudioIInv, NEW c \in Conns, Align(c), NEW end, end = heard.last * Frame + heard.len
    PROVE  AlignsFrom(c, handled[c], end,
                      heard.last > 0 /\ handled[c] * Frame >= end /\ handled[c] * Frame - end <= MaxGap)
<1> USE AudioPathAssumption
<1> DEFINE n == handled[c]
           l == heard.last
           pad == IF Fill(n) = {} THEN 0 ELSE CHOOSE g \in Fill(n) : TRUE
           follows == l > 0 /\ n * Frame >= end /\ n * Frame - end <= MaxGap
<1>1. recvPc[c] = "align" /\ recvPc' = [recvPc EXCEPT ![c] = "idle"]
  BY DEF Align
<1>2. n \in Numbers /\ samples[c] \in Lengths
  BY <1>1 DEF AudioIInv, CountsIInv, AudioTypeOK, Numbers
<1>3. n \in Nat /\ l \in Nat /\ samples[c] \in Nat /\ played \in Nat /\ timeline.played \in Nat
  BY <1>2, LengthsAre DEF AudioIInv, CountsIInv, AudioTypeOK, Numbers, HeardType
<1>4. /\ l = 0 => Fill(n) = {}
      /\ l > 0 => Fill(n) = IF n * Frame >= end /\ n * Frame - end <= MaxGap THEN {n * Frame - end} ELSE {}
  BY <1>2, FillIs DEF AudioIInv, CountsIInv
<1>5. ASSUME follows
      PROVE  Fill(n) # {} /\ pad = n * Frame - end
  <2>1. Fill(n) = {n * Frame - end}
    BY <1>4, <1>5
  <2> HIDE DEF n, l
  <2> QED
    BY <2>1
<1>6. ASSUME ~follows
      PROVE  Fill(n) = {} /\ pad = 0
  <2>1. Fill(n) = {}
    BY <1>3, <1>4, <1>6
  <2> QED
    BY <2>1
<1>7. /\ timeline' =
           IF Fill(n) = {} THEN [set |-> TRUE, base |-> sent[n].ts, played |-> samples[c]]
           ELSE [timeline EXCEPT !.played = @ + pad + samples[c]]
      /\ played' = played + pad + samples[c]
      /\ heard' =
           [first |-> IF heard.last = 0 THEN n ELSE heard.first,
            last |-> n,
            len |-> samples[c],
            back |-> IF end > n * Frame THEN heard.back + end - n * Frame ELSE heard.back,
            jumped |-> heard.jumped \/ (heard.last > 0 /\ n * Frame > end + MaxGap)]
  BY DEF Align, Fill
<1> HIDE DEF pad
<1>8. ASSUME ~follows
      PROVE  /\ timeline' = [set |-> TRUE, base |-> sent[n].ts, played |-> samples[c]]
             /\ played' = played + samples[c]
  BY <1>3, <1>6, <1>7, <1>8
<1>9. ASSUME follows
      PROVE  /\ timeline' = [timeline EXCEPT !.played = @ + (n * Frame - end) + samples[c]]
             /\ played' = played + (n * Frame - end) + samples[c]
  BY <1>5, <1>7, <1>9
<1> QED
  BY <1>1, <1>2, <1>7, <1>8, <1>9 DEF AlignsFrom

\* The samples add up: x of the last frame, y of this one.
LEMMA SumsUp ==
    ASSUME NEW F \in Nat, NEW f \in Nat, NEW l \in Nat, NEW n \in Nat, NEW k \in Nat, NEW a \in Nat,
           NEW x \in Nat, NEW y \in Nat, NEW e, e = l * F + x,
           a + f * F = l * F + x + k
    PROVE  /\ (a + (n * F - e) + y) + f * F = n * F + y + k
           /\ (a + y) + f * F = n * F + y + (k + e - n * F)
  OBVIOUS

LEMMA AlignPlays ==
    ASSUME AudioIInv, NEW c \in Conns, Align(c)
    PROVE  PlayFits'
<1> USE AudioPathAssumption
<1> DEFINE n == handled[c]
           l == heard.last
           x == heard.len
           y == samples[c]
           end == l * Frame + x
           start == n * Frame
           follows == l > 0 /\ start >= end /\ start - end <= MaxGap
<1>1. /\ n \in Numbers /\ y \in Lengths
      /\ follows =>
           /\ timeline' = [timeline EXCEPT !.played = @ + (start - end) + y]
           /\ played' = played + (start - end) + y
      /\ ~follows =>
           /\ timeline' = [set |-> TRUE, base |-> sent[n].ts, played |-> y]
           /\ played' = played + y
      /\ heard' =
           [first |-> IF l = 0 THEN n ELSE heard.first,
            last |-> n,
            len |-> y,
            back |-> IF end > start THEN heard.back + end - start ELSE heard.back,
            jumped |-> heard.jumped \/ (l > 0 /\ start > end + MaxGap)]
  BY AlignSets DEF AlignsFrom
<1>2. /\ heard \in HeardType /\ timeline \in [set : BOOLEAN, base : TimeStamps, played : Nat]
      /\ played \in Nat /\ Len(sent) \in Nat /\ sent \in Seq(Packet)
  BY DEF AudioIInv, CountsIInv, AudioTypeOK
<1>3. n \in 1 .. Len(sent) /\ n \in Nat /\ l \in Nat /\ x \in Nat /\ y \in Nat /\ sent[n].ts \in TimeStamps
  <2>1. n \in 1 .. Len(sent) /\ l \in Nat /\ x \in Nat /\ y \in Nat
    BY <1>1, <1>2, LengthsAre DEF Numbers, HeardType
  <2>2. sent[n] \in Packet /\ n \in Nat
    BY <2>1, <1>2
  <2> QED
    BY <2>1, <2>2 DEF Packet
<1>4. Frame \in Nat \ {0} /\ MaxGap \in Nat
  OBVIOUS
<1>5. sent' = sent
  BY DEF Align, sendVars
<1>6. /\ l = 0 => ~timeline.set /\ played = 0 /\ heard.first = 0 /\ heard.back = 0 /\ x = 0
      /\ l > 0 => timeline.set /\ heard.first > 0 /\ PlaysInTime
  BY DEF AudioIInv, CountsIInv, PlayFits
<1>7. ASSUME l > 0
      PROVE  \E b \in 1 .. l : timeline.base = sent[b].ts /\ timeline.played = (l - b) * Frame + x
  BY <1>7 DEF AudioIInv, CountsIInv, PlayFits
<1>8. start \in Nat /\ end \in Nat /\ start = n * Frame /\ end = l * Frame + x
  <2> HIDE DEF n, l, x
  <2> QED
    BY <1>3, <1>4, SamplesAreNat
<1> HIDE DEF n, l, x, y, start, end
<1>9. /\ heard'.last = n /\ heard'.first = (IF l = 0 THEN n ELSE heard.first) /\ heard'.len = y
      /\ heard'.back = (IF end > start THEN heard.back + end - start ELSE heard.back)
  BY <1>1
<1>10. timeline'.set
  <2>1. CASE follows
    BY <2>1, <1>1, <1>2, <1>6, <1>3
  <2>2. CASE ~follows
    BY <2>2, <1>1
  <2> QED
    BY <2>1, <2>2
<1>11. heard'.first > 0
  BY <1>3, <1>6, <1>9, <1>2 DEF HeardType
<1>12. \E b \in 1 .. n : timeline'.base = sent[b].ts /\ timeline'.played = (n - b) * Frame + y
  <2>1. CASE follows
    <3>1. PICK b \in 1 .. l : timeline.base = sent[b].ts /\ timeline.played = (l - b) * Frame + x
      BY <1>7, <2>1
    <3>2. timeline'.base = timeline.base /\ timeline'.played = timeline.played + (start - end) + y
      BY <1>1, <1>2, <2>1
    <3>3. ((l - b) * Frame + x) + (start - end) + y = (n - b) * Frame + y
      BY <1>3, <1>4, <1>8, <3>1
    <3>4. b \in 1 .. n
      <4>1. l <= n
        <5>1. ASSUME n + 1 <= l
              PROVE  FALSE
          <6>1. (n + 1) * Frame <= l * Frame /\ (n + 1) * Frame = n * Frame + Frame
            BY <1>3, <1>4, <5>1, ProductsAreOrdered
          <6>2. n * Frame \in Nat /\ l * Frame \in Nat
            BY <1>3, <1>4
          <6> QED
            BY <1>3, <1>4, <1>8, <2>1, <6>1, <6>2
        <5> QED
          BY <1>3, <5>1
      <4> QED
        BY <1>3, <3>1, <4>1
    <3> QED
      BY <3>1, <3>2, <3>3, <3>4
  <2>2. CASE ~follows
    <3>1. timeline'.base = sent[n].ts /\ timeline'.played = y
      BY <1>1, <2>2
    <3>2. n \in 1 .. n /\ (n - n) * Frame + y = y
      BY <1>3, <1>4
    <3> QED
      BY <3>1, <3>2
  <2> QED
    BY <2>1, <2>2
<1>13. ASSUME ~heard'.jumped
       PROVE  played' + heard'.first * Frame = n * Frame + y + heard'.back
  <2>1. ~heard.jumped /\ ~(l > 0 /\ start > end + MaxGap)
    BY <1>1, <1>13
  <2>2. CASE l = 0
    <3>1. end = 0
      BY <1>4, <1>6, <1>8, <2>2
    <3>2. played' = y /\ heard'.first = n /\ heard'.back = 0
      BY <2>2, <1>1, <1>3, <1>6, <1>8, <1>9, <3>1
    <3> QED
      BY <3>2, <1>3, <1>4
  <2>3. CASE l > 0
    <3> DEFINE f == heard.first
               k == heard.back
    <3>1. f \in Nat /\ k \in Nat /\ heard'.first = f
      BY <1>2, <1>3, <1>9, <2>3 DEF HeardType
    <3>2. played + f * Frame = l * Frame + x + k
      BY <1>6, <2>1, <2>3 DEF PlaysInTime, l, x
    <3> HIDE DEF f, k
    <3>3. /\ (played + (n * Frame - end) + y) + f * Frame = n * Frame + y + k
          /\ (played + y) + f * Frame = n * Frame + y + (k + end - n * Frame)
      BY ONLY <1>2, <1>3, <1>4, <1>8, <3>1, <3>2, SumsUp
    <3>4. CASE start >= end
      <4>1. follows
        BY <1>4, <1>8, <2>1, <2>3, <3>4
      <4>2. played' = played + (start - end) + y /\ heard'.back = k
        BY <1>1, <1>8, <1>9, <3>4, <4>1 DEF k
      <4> QED
        BY <1>8, <3>1, <3>3, <4>2
    <3>5. CASE ~(start >= end)
      <4>1. played' = played + y /\ heard'.back = k + end - start
        BY <1>1, <1>8, <1>9, <3>5 DEF k
      <4> QED
        BY <1>8, <3>1, <3>3, <4>1
    <3> QED
      BY <3>4, <3>5
  <2> QED
    BY <1>3, <2>2, <2>3
<1>14. PlaysInTime'
  BY <1>9, <1>13 DEF PlaysInTime
<1>15. n > 0
  BY <1>3
<1> QED
  BY <1>1, <1>5, <1>9, <1>10, <1>11, <1>12, <1>14, <1>15 DEF PlayFits, Lengths

\* The same without PlayFits: types and counts.
LEMMA AlignKeeps ==
    ASSUME CountsIInv, NEW c \in Conns, Align(c)
    PROVE  CountsIInv'
<1> USE AudioPathAssumption
<1> DEFINE n == handled[c]
           ts == sent[n].ts
           y == samples[c]
           end == heard.last * Frame + heard.len
           pad == IF Fill(n) = {} THEN 0 ELSE CHOOSE g \in Fill(n) : TRUE
<1>1. /\ rtp' = rtp /\ sendCtx' = sendCtx /\ sent' = sent /\ recvCtx' = recvCtx /\ arrived' = arrived
      /\ skewed' = skewed /\ crossed' = crossed /\ torn' = torn /\ counted' = counted
      /\ handled' = [handled EXCEPT ![c] = 0] /\ samples' = [samples EXCEPT ![c] = 0]
      /\ recvPc[c] = "align" /\ recvPc' = [recvPc EXCEPT ![c] = "idle"]
      /\ timeline' = IF Fill(n) = {} THEN [set |-> TRUE, base |-> ts, played |-> y]
                     ELSE [timeline EXCEPT !.played = timeline.played + pad + y]
      /\ played' = played + pad + y
      /\ heard' =
           [first |-> IF heard.last = 0 THEN n ELSE heard.first,
            last |-> n,
            len |-> y,
            back |-> IF end > n * Frame THEN heard.back + end - n * Frame ELSE heard.back,
            jumped |-> heard.jumped \/ (heard.last > 0 /\ n * Frame > end + MaxGap)]
  BY DEF Align, Fill, sendVars, srtpVars
<1>2. /\ RecvTypes /\ Len(sent) \in Nat /\ sent \in Seq(Packet)
      /\ timeline \in [set : BOOLEAN, base : TimeStamps, played : Nat] /\ played \in Nat
      /\ heard \in HeardType
  BY RecvTypesHold DEF CountsIInv, AudioTypeOK
<1>3. /\ recvPc' \in [Conns -> RecvSteps] /\ handled' \in [Conns -> 0 .. Len(sent)]
      /\ samples' \in [Conns -> Nat]
      /\ \A d \in Conns : recvPc'[d] # "idle" => handled'[d] # 0
      /\ \A d \in Conns : recvPc'[d] = "align" => samples'[d] \in Lengths
  <2>1. "idle" \in RecvSteps /\ 0 \in 0 .. Len(sent)
    BY <1>2 DEF RecvSteps
  <2> QED
    BY <1>1, <1>2, <2>1 DEF RecvTypes
<1>4. n \in 1 .. Len(sent) /\ n \in Nat /\ ts \in TimeStamps /\ y \in Nat
  <2>1. n \in 1 .. Len(sent) /\ y \in Lengths
    BY <1>1, <1>2 DEF RecvTypes
  <2>2. sent[n] \in Packet /\ n \in Nat
    BY <2>1, <1>2
  <2> QED
    BY <2>1, <2>2, LengthsAre DEF Packet
<1>5. Frame \in Nat /\ TsSpace \in Nat \ {0}
  OBVIOUS
<1>6. pad \in Nat
  <2> DEFINE target == (TsSpace + ts - timeline.base) % TsSpace
  <2>1. timeline.base \in TimeStamps /\ timeline.played \in Nat
    BY <1>2
  <2>2. TsSpace + ts - timeline.base \in Nat
    <3> HIDE DEF ts
    <3> QED
      BY <1>4, <1>5, <2>1 DEF TimeStamps
  <2>3. target \in Nat
    BY <1>5, <2>2
  <2>4. Fill(n) \subseteq Gap(ts)
    BY DEF Fill
  <2>5. Gap(ts) = IF target >= timeline.played THEN {target - timeline.played} ELSE {}
    BY DEF Gap
  <2> HIDE DEF target
  <2>6. Gap(ts) \subseteq Nat
    BY <2>1, <2>3, <2>5
  <2>7. CASE Fill(n) = {}
    BY <2>7
  <2>8. CASE Fill(n) # {}
    <3>1. pad \in Fill(n)
      BY <2>8
    <3> QED
      BY <3>1, <2>4, <2>6
  <2> QED
    BY <2>7, <2>8
<1>7. end \in Nat /\ n * Frame \in Nat
  <2>1. heard.last \in Nat /\ heard.len \in Nat
    BY <1>2 DEF HeardType
  <2> HIDE DEF n
  <2> QED
    BY <1>4, <1>5, <2>1, SamplesAreNat
<1> HIDE DEF n, ts, pad, y, end
<1>8. timeline' \in [set : BOOLEAN, base : TimeStamps, played : Nat]
  <2>1. CASE Fill(n) = {}
    BY <2>1, <1>1, <1>4, <1>5
  <2>2. CASE Fill(n) # {}
    <3>1. timeline' = [timeline EXCEPT !.played = timeline.played + pad + y]
      BY <2>2, <1>1
    <3>2. timeline.played + pad + y \in Nat
      BY <1>2, <1>4, <1>6
    <3> QED
      BY <3>1, <3>2, <1>2
  <2> QED
    BY <2>1, <2>2
<1>9. played' \in Nat
  <2>1. played' = played + pad + y /\ played \in Nat
    BY <1>1, <1>2
  <2> QED
    BY <1>4, <1>6, <2>1
<1>10. heard' \in HeardType
  <2>1. /\ heard.first \in 0 .. Len(sent) /\ heard.last \in Nat /\ heard.back \in Nat
        /\ heard.jumped \in BOOLEAN
    BY <1>2 DEF HeardType
  <2>2. (IF heard.last = 0 THEN n ELSE heard.first) \in 0 .. Len(sent) /\ n \in 0 .. Len(sent)
    BY <1>4, <2>1
  <2>3. (IF end > n * Frame THEN heard.back + end - n * Frame ELSE heard.back) \in Nat
    <3>1. PICK s \in Nat : s = n * Frame
      BY <1>7
    <3> QED
      BY <1>7, <2>1, <3>1
  <2>4. (heard.jumped \/ (heard.last > 0 /\ n * Frame > end + MaxGap)) \in BOOLEAN
    BY Zenon
  <2> QED
    BY <1>1, <1>4, <2>1, <2>2, <2>3, <2>4 DEF HeardType
<1>11. AudioTypeOK'
  BY <1>1, <1>2, <1>3, <1>8, <1>9, <1>10
     DEF CountsIInv, AudioTypeOK, RecvTypes, SeqNumbers, TimeStamps, Context, Packet, RecvSteps, Lengths, HeardType
<1>12. SenderCounts'
  BY <1>1 DEF CountsIInv, SenderCounts, Numbers
<1>13. recvPc'[c] = "idle" /\ \A d \in Conns \ {c} : recvPc'[d] = recvPc[d] /\ handled'[d] = handled[d]
  BY <1>1, <1>2 DEF RecvTypes
<1>14. ASSUME RocFollows
       PROVE  RocFollows'
  <2>1. \A d \in Conns : recvPc'[d] = "raised" <=> recvPc[d] = "raised"
    BY <1>1, <1>13
  <2>2. ASSUME NEW e \in Conns, NEW d \in Conns, recvPc'[e] = "raised"
        PROVE  e \notin crossed' /\ (d # e /\ recvPc'[d] \notin {"idle", "align"} => d \in crossed')
    BY <1>1, <1>13, <1>14, <2>1, <2>2 DEF RocFollows
  <2>3. \A d \in Conns \ crossed' : recvPc'[d] # "idle" => recvPc'[d] = recvPc[d] /\ handled'[d] = handled[d]
    BY <1>13
  <2> QED
    BY <1>1, <1>14, <2>1, <2>2, <2>3 DEF RocFollows, Epoch
<1>15. ReceiverCounts'
  <2>1. \A d \in Conns : recvPc'[d] \in {"wrap", "raise", "raised"} => arrived # 0
    BY <1>13 DEF CountsIInv, ReceiverCounts
  <2> QED
    BY <1>1, <1>14, <2>1 DEF CountsIInv, ReceiverCounts
<1> QED
  BY <1>11, <1>12, <1>15 DEF CountsIInv

-----------------------------------------------------------------------------
(* The theorems.                                                           *)

LEMMA AudioStarts == AudioInit => AudioIInv
<1> USE AudioPathAssumption
<1> SUFFICES ASSUME AudioInit PROVE AudioIInv
  OBVIOUS
<1>1. rtp \in [seq : SeqNumbers, ts : TimeStamps]
  BY DEF AudioInit, SeqNumbers, TimeStamps
<1>2. NewSrtpContext \in Context
  BY DEF NewSrtpContext, Context, SeqNumbers
<1>3. sent = <<>> /\ Len(sent) = 0 /\ sent \in Seq(Packet)
  BY DEF AudioInit
<1>4. AudioTypeOK
  <2>1. sendCtx \in Context /\ recvCtx \in Context
    BY <1>2 DEF AudioInit
  <2>2. /\ recvPc \in [Conns -> RecvSteps] /\ handled \in [Conns -> 0 .. Len(sent)]
        /\ counted \in [Conns -> Nat] /\ samples \in [Conns -> Nat]
        /\ \A c \in Conns : recvPc[c] # "idle" => handled[c] # 0
        /\ \A c \in Conns : recvPc[c] = "align" => samples[c] \in Lengths
    BY <1>3 DEF AudioInit, RecvSteps
  <2>3. timeline \in [set : BOOLEAN, base : TimeStamps, played : Nat]
    BY DEF AudioInit, TimeStamps
  <2>4. heard \in HeardType
    BY <1>3 DEF AudioInit, HeardType
  <2>5. Len(sent) <= MaxPackets
    BY <1>3
  <2>6. played \in Nat /\ arrived \in 0 .. Len(sent) /\ crossed \subseteq Conns
    BY <1>3 DEF AudioInit
  <2>7. skewed \in BOOLEAN /\ torn \in BOOLEAN
    BY Zenon DEF AudioInit
  <2> QED
    BY <1>1, <1>3, <2>1, <2>2, <2>3, <2>4, <2>5, <2>6, <2>7 DEF AudioTypeOK
<1>5. SenderCounts /\ ReceiverCounts /\ PlayFits
  <2>1. RocFollows
    BY DEF AudioInit, RocFollows
  <2> QED
    BY <1>3, <2>1 DEF AudioInit, NewSrtpContext, SenderCounts, ReceiverCounts, PlayFits, Numbers
<1> QED
  BY <1>4, <1>5 DEF AudioIInv, CountsIInv

LEMMA CountsStep ==
    CountsIInv /\ [AudioNext]_audioVars => CountsIInv'
<1> SUFFICES ASSUME CountsIInv, [AudioNext]_audioVars PROVE CountsIInv'
  OBVIOUS
<1>1. CASE SendFrame
  BY <1>1, SendFrameKeeps
<1>2. ASSUME NEW c \in Conns, Receive(c) PROVE CountsIInv'
  BY <1>2, ReceiveKeeps
<1>3. ASSUME NEW c \in Conns, ReadRoc(c) PROVE CountsIInv'
  BY <1>3, ReadRocKeeps
<1>4. ASSUME NEW c \in Conns, RaiseRoc(c) PROVE CountsIInv'
  BY <1>4, RaiseRocKeeps
<1>5. ASSUME NEW c \in Conns, StoreSeq(c) PROVE CountsIInv'
  BY <1>5, StoreSeqKeeps
<1>6. ASSUME NEW c \in Conns, Decode(c) PROVE CountsIInv'
  BY <1>6, DecodeKeeps
<1>7. ASSUME NEW c \in Conns, Align(c) PROVE CountsIInv'
  BY <1>7, AlignKeeps
<1>8. CASE UNCHANGED audioVars
  <2>1. /\ UNCHANGED <<sendVars, playVars>> /\ sent' = sent /\ recvCtx' = recvCtx /\ recvPc' = recvPc
        /\ handled' = handled /\ counted' = counted /\ samples' = samples /\ arrived' = arrived
        /\ skewed' = skewed /\ torn' = torn /\ crossed' = crossed
    BY <1>8 DEF audioVars, sendVars, srtpVars, playVars
  <2>2. ReceiverCounts'
    BY <2>1 DEF CountsIInv, ReceiverCounts, RocFollows, Epoch
  <2> QED
    BY <2>1, <2>2, RecvTypesHold, ReceiverSteps DEF RecvTypes
<1> QED
  BY <1>1, <1>2, <1>3, <1>4, <1>5, <1>6, <1>7, <1>8 DEF AudioNext

LEMMA PlayStep ==
    AudioIInv /\ [AudioNext]_audioVars => PlayFits'
<1> SUFFICES ASSUME AudioIInv, [AudioNext]_audioVars PROVE PlayFits'
  OBVIOUS
<1>1. CASE SendFrame
  BY <1>1, SendFrameKeeps DEF AudioIInv
<1>2. ASSUME NEW c \in Conns, Receive(c) PROVE PlayFits'
  BY <1>2, ReceiveKeeps DEF AudioIInv
<1>3. ASSUME NEW c \in Conns, ReadRoc(c) PROVE PlayFits'
  BY <1>3, ReadRocKeeps DEF AudioIInv
<1>4. ASSUME NEW c \in Conns, RaiseRoc(c) PROVE PlayFits'
  BY <1>4, RaiseRocKeeps DEF AudioIInv
<1>5. ASSUME NEW c \in Conns, StoreSeq(c) PROVE PlayFits'
  BY <1>5, StoreSeqKeeps DEF AudioIInv
<1>6. ASSUME NEW c \in Conns, Decode(c) PROVE PlayFits'
  BY <1>6, DecodeKeeps DEF AudioIInv
<1>7. ASSUME NEW c \in Conns, Align(c) PROVE PlayFits'
  BY <1>7, AlignPlays
<1>8. CASE UNCHANGED audioVars
  BY <1>8 DEF AudioIInv, PlayFits, PlaysInTime, Lengths, audioVars, sendVars, playVars
<1> QED
  BY <1>1, <1>2, <1>3, <1>4, <1>5, <1>6, <1>7, <1>8 DEF AudioNext

LEMMA CountsInvariant == AudioSpec => []CountsIInv
<1>1. AudioInit => CountsIInv
  BY AudioStarts DEF AudioIInv
<1> QED
  BY <1>1, CountsStep, PTL DEF AudioSpec

LEMMA AudioInvariant == AudioSpec => []AudioIInv
<1>1. AudioInit => PlayFits
  BY AudioStarts DEF AudioIInv
<1>2. CountsIInv /\ PlayFits /\ [AudioNext]_audioVars => PlayFits'
  BY PlayStep DEF AudioIInv
<1>3. CountsIInv /\ PlayFits => AudioIInv
  BY DEF AudioIInv
<1> QED
  BY <1>1, <1>2, <1>3, CountsInvariant, PTL DEF AudioSpec

\* Both ends count the same packets, over any number of wraps and connections
\* (SrtpContext.updateRoc, packetIndex).
THEOREM IndexesCross == AudioSpec => []IndexesAgree
<1>1. CountsIInv => IndexesAgree
  <2> SUFFICES ASSUME CountsIInv PROVE IndexesAgree
    OBVIOUS
  <2>1. DOMAIN sent = Numbers
    BY DEF CountsIInv, AudioTypeOK, Numbers
  <2>2. \A n \in DOMAIN sent : sent[n].index = sent[1].index + n - 1
    BY <2>1 DEF CountsIInv, SenderCounts
  <2>3. ASSUME NEW c \in Conns, recvPc[c] = "index", ~skewed, ~torn, c \notin crossed
        PROVE  Right(c)
    <3> DEFINE n == handled[c]
               i == sent[n].index
    <3>1. n \in Numbers
      BY <2>3 DEF CountsIInv, AudioTypeOK, Numbers
    <3>2. i \in Nat
      <4>1. sent[n] \in Packet
        BY <3>1 DEF CountsIInv, AudioTypeOK, Numbers
      <4> QED
        BY <4>1 DEF Packet
    <3>3. recvCtx.roc = i \div SeqSpace /\ sent[n].seq = i % SeqSpace
      <4>1. RocFollows
        BY <2>3 DEF CountsIInv, ReceiverCounts
      <4> QED
        BY <2>3, <3>1, <4>1 DEF CountsIInv, RocFollows, SenderCounts, Epoch
    <3>4. SeqSpace \in Nat \ {0}
      BY AudioPathAssumption
    <3>5. i = ((i \div SeqSpace) * SeqSpace) + (i % SeqSpace)
      <4> HIDE DEF i
      <4> QED
        BY ONLY <3>2, <3>4, DivModIs
    <3> QED
      BY <3>3, <3>5 DEF Right, PacketIndex
  <2> QED
    BY <2>2, <2>3 DEF IndexesAgree
<1> QED
  BY <1>1, CountsInvariant, PTL

\* What is played keeps time with what was sent (alignPeerAudio).
THEOREM PlaybackKeepsTime == AudioSpec => []PlaysInTime
<1>1. AudioIInv => PlaysInTime
  BY DEF AudioIInv, PlayFits, PlaysInTime
<1> QED
  BY <1>1, AudioInvariant, PTL

-----------------------------------------------------------------------------
(* Signaling: JIDs and the lists of participants.                          *)

LEMMA FirstExists ==
    ASSUME NEW S \in SUBSET Nat, S # {}
    PROVE  \E i \in S : \A j \in S : i <= j
<1>1. PICK i \in S : \A j \in S : ~(<<j, i>> \in OpToRel(<, Nat))
  BY WFMin, NatLessThanWellFounded
<1>2. ASSUME NEW j \in S PROVE i <= j
  <2>1. <<j, i>> \in Nat \X Nat /\ <<j, i>>[1] = j /\ <<j, i>>[2] = i
    BY <1>1
  <2>2. ~(j < i)
    BY <1>1, <2>1 DEF OpToRel
  <2>3. i \in Nat /\ j \in Nat
    OBVIOUS
  <2> QED
    BY <2>2, <2>3
<1> QED
  BY <1>1, <1>2

IsList(list) == DOMAIN list \in SUBSET Nat

LEMMA FirstOfIs ==
    ASSUME NEW list, NEW S \in SUBSET DOMAIN list, IsList(list)
    PROVE  IF S = {} THEN FirstOf(list, S) = Nobody ELSE \E i \in S : FirstOf(list, S) = list[i]
<1>1. CASE S = {}
  BY <1>1 DEF FirstOf
<1>2. CASE S # {}
  <2>1. \E i \in S : \A j \in S : i <= j
    BY <1>2, FirstExists DEF IsList
  <2>2. (CHOOSE i \in S : \A j \in S : i <= j) \in S
    BY <2>1
  <2> QED
    BY <1>2, <2>2 DEF FirstOf
<1> QED
  BY <1>1, <1>2

IsJid(x) == x = <<x[1], x[2]>> /\ x[2] \in Nat

LEMMA JidOfString ==
    ASSUME NEW x, IsJid(x)
    PROVE  /\ EnsureDeviceJid(JidString(x)) = x /\ CleanJID(JidString(x)) = <<x[1], Bare>>
           /\ JidString(x) # Nobody /\ x # Nobody
           /\ x[2] # 0 => JidString(x) = x
           /\ EnsureDeviceJid(x) = x
  BY DEF IsJid, EnsureDeviceJid, JidString, CleanJID, Bare, Nobody

\* A list that has no other device of x's user leads findOurDevice to x.
LEMMA OurDeviceIs ==
    ASSUME NEW x, NEW m, IsJid(x), IsList(m.participants), ListsOnlyThe(x, m.participants)
    PROVE  OurDeviceJid(x, m) = x
<1> DEFINE list == m.participants
           base == CleanJID(JidString(x))
           ours == {i \in DOMAIN list : CleanJID(list[i]) = base /\ list[i][2] # Bare}
<1>1. base = <<x[1], Bare>> /\ EnsureDeviceJid(JidString(x)) = x
  BY JidOfString
<1>2. FindOurDevice(list, base, JidString(x)) = IF ours = {} THEN JidString(x) ELSE FirstOf(list, ours)
  BY DEF FindOurDevice
<1>3. CASE ours = {}
  BY <1>1, <1>2, <1>3 DEF OurDeviceJid
<1>4. CASE ours # {}
  <2>1. PICK i \in ours : FirstOf(list, ours) = list[i]
    BY <1>4, FirstOfIs
  <2>2. list[i][1] = x[1]
    BY <1>1, <2>1 DEF CleanJID
  <2>3. EnsureDeviceJid(list[i]) = x
    BY <2>1, <2>2 DEF ListsOnlyThe
  <2> QED
    BY <1>2, <1>4, <2>1, <2>3 DEF OurDeviceJid
<1> QED
  BY <1>3, <1>4

\* A list of two users that has no other device of the caller's leads
\* firstPeerDevice to the caller, or to nobody.
LEMMA PeerDeviceIs ==
    ASSUME NEW d \in Answerers, NEW list, IsList(list), ListsOnlyThe(Caller, list),
           \A i \in DOMAIN list : list[i][1] \in {Caller[1], Callee[1]}
    PROVE  LET p == FirstPeerDevice(list, CleanJID(JidString(d)))
           IN  p = Nobody \/ EnsureDeviceJid(p) = Caller
<1> DEFINE base == CleanJID(JidString(d))
           others == {i \in DOMAIN list : CleanJID(list[i]) # base}
<1>1. IsJid(d) /\ d[1] = Callee[1]
  BY SignalingAssumption DEF IsJid
<1>2. base = <<Callee[1], Bare>>
  BY <1>1, JidOfString
<1>3. FirstPeerDevice(list, base) = FirstOf(list, others)
  BY DEF FirstPeerDevice
<1>4. CASE others = {}
  BY <1>3, <1>4, FirstOfIs
<1>5. CASE others # {}
  <2>1. PICK i \in others : FirstOf(list, others) = list[i]
    BY <1>5, FirstOfIs
  <2>2. list[i][1] # Callee[1]
    BY <1>2, <2>1 DEF CleanJID
  <2>3. EnsureDeviceJid(list[i]) = Caller
    BY <2>1, <2>2 DEF ListsOnlyThe
  <2> QED
    BY <1>3, <2>1, <2>3
<1> QED
  BY <1>4, <1>5
-----------------------------------------------------------------------------
(* The fold over a list of participants.                                   *)

\* Induction, with the property as a set.
LEMMA AllNumbers ==
    ASSUME NEW P, 0 \in P, \A n \in Nat : n \in P => n + 1 \in P
    PROVE  Nat \subseteq P
<1> DEFINE bad == {n \in Nat : n \notin P}
<1>1. ASSUME bad # {} PROVE FALSE
  <2>1. bad \in SUBSET Nat
    OBVIOUS
  <2>2. PICK n \in bad : \A j \in bad : n <= j
    BY <1>1, <2>1, FirstExists
  <2>3. n \in Nat /\ n # 0
    BY <2>2
  <2>4. n - 1 \in Nat /\ n - 1 \notin bad
    BY <2>2, <2>3
  <2>5. n - 1 \in P /\ (n - 1) + 1 = n
    BY <2>3, <2>4
  <2> QED
    BY <2>2, <2>4, <2>5
<1> QED
  BY <1>1

\* ParticipantJids makes a list of what it is given.
LEMMA ParticipantsAreListed ==
    ASSUME NEW S, NEW list \in Seq(S)
    PROVE  ParticipantJids(list) \in Seq(S)
<1> DEFINE N == Len(list)
           Step(f, n) == IF Contains(f[n - 1], list[n]) THEN f[n - 1] ELSE Append(f[n - 1], list[n])
           IsFold(f, k) == f \in [0 .. k -> Seq(S)] /\ f[0] = <<>> /\ \A n \in 1 .. k : f[n] = Step(f, n)
           folded == {k \in Nat : k <= N => \E f : IsFold(f, k)}
           seen == CHOOSE f : f = [n \in 0 .. N |-> IF n = 0 THEN <<>> ELSE Step(f, n)]
<1>0. N \in Nat /\ <<>> \in Seq(S) /\ \A n \in 1 .. N : list[n] \in S
  OBVIOUS
<1>1. 0 \in folded
  <2> DEFINE f == [n \in 0 .. 0 |-> <<>>]
  <2>1. IsFold(f, 0)
    BY <1>0
  <2> HIDE DEF IsFold
  <2> QED
    BY <2>1
<1>2. ASSUME NEW k \in Nat, k \in folded PROVE k + 1 \in folded
  <2> HIDE DEF IsFold
  <2>1. SUFFICES ASSUME k + 1 <= N PROVE \E f : IsFold(f, k + 1)
    OBVIOUS
  <2>2. PICK f : IsFold(f, k)
    <3>1. k <= N
      BY <1>0, <2>1
    <3> QED
      BY <1>2, <3>1
  <2> USE DEF IsFold
  <2> DEFINE last == Step(f, k + 1)
             g == [n \in 0 .. (k + 1) |-> IF n = k + 1 THEN last ELSE f[n]]
  <2>3. (k + 1) - 1 = k /\ k \in 0 .. k /\ k + 1 \in 1 .. N
    BY <1>0, <2>1
  <2>4. f[k] \in Seq(S) /\ list[k + 1] \in S
    BY <1>0, <2>2, <2>3
  <2>5. last \in Seq(S)
    BY <2>3, <2>4
  <2>6. \A n \in 0 .. k : g[n] = f[n] /\ f[n] \in Seq(S)
    BY <2>2
  <2>7. g[k + 1] = last
    OBVIOUS
  <2>8. g \in [0 .. (k + 1) -> Seq(S)] /\ g[0] = <<>>
    <3> HIDE DEF last
    <3> QED
      BY <2>2, <2>5
  <2>9. ASSUME NEW n \in 1 .. (k + 1) PROVE g[n] = Step(g, n)
    <3>1. n - 1 \in 0 .. k
      OBVIOUS
    <3>2. g[n - 1] = f[n - 1]
      BY <2>6, <3>1
    <3>3. Step(g, n) = Step(f, n)
      BY <3>2
    <3>4. CASE n = k + 1
      BY <2>7, <3>3, <3>4
    <3>5. CASE n # k + 1
      <4>1. n \in 1 .. k /\ n \in 0 .. k
        BY <3>5
      <4> QED
        <5>1. g[n] = f[n]
          BY <2>6, <4>1, Zenon
        <5>2. f[n] = Step(f, n)
          <6> HIDE DEF Step
          <6> QED
            BY <2>2, <4>1, Zenon
        <5> HIDE DEF Step
        <5> QED
          BY <3>3, <5>1, <5>2, Zenon
    <3> QED
      BY <3>4, <3>5
  <2>10. IsFold(g, k + 1)
    BY <2>8, <2>9
  <2> HIDE DEF IsFold, g
  <2> QED
    BY <2>10
<1>3. \E f : IsFold(f, N)
  <2> HIDE DEF IsFold
  <2>1. folded \subseteq Nat /\ 0 \in folded /\ \A n \in Nat : n \in folded => n + 1 \in folded
    BY <1>1, <1>2
  <2>2. N \in folded
    <3> HIDE DEF folded
    <3> QED
      BY <1>0, <2>1, AllNumbers
  <2> QED
    BY <1>0, <2>2
<1>4. seen = [n \in 0 .. N |-> IF n = 0 THEN <<>> ELSE Step(seen, n)]
  <2>1. PICK f : IsFold(f, N)
    BY <1>3
  <2>2. f = [n \in 0 .. N |-> f[n]]
    BY <2>1
  <2>3. ASSUME NEW n \in 0 .. N PROVE f[n] = IF n = 0 THEN <<>> ELSE Step(f, n)
    <3>1. CASE n = 0
      BY <2>1, <3>1
    <3>2. CASE n # 0
      <4>1. n \in 1 .. N
        BY <1>0, <3>2
      <4>2. f[n] = Step(f, n)
        BY <2>1, <4>1
      <4> QED
        BY <3>2, <4>2
    <3> QED
      BY <3>1, <3>2
  <2>4. f = [n \in 0 .. N |-> IF n = 0 THEN <<>> ELSE Step(f, n)]
    <3> HIDE DEF Step, IsFold
    <3> QED
      BY <2>2, <2>3
  <2> HIDE DEF Step
  <2> QED
    BY <2>4
<1> HIDE DEF seen
<1> DEFINE lists == {n \in Nat : n <= N => seen[n] \in Seq(S)}
<1>5. 0 \in lists
  BY <1>0, <1>4
<1>6. ASSUME NEW n \in Nat, n \in lists PROVE n + 1 \in lists
  <2>1. SUFFICES ASSUME n + 1 <= N PROVE seen[n + 1] \in Seq(S)
    OBVIOUS
  <2>2. seen[n] \in Seq(S) /\ list[n + 1] \in S
    BY <1>0, <1>6, <2>1
  <2>3. n + 1 \in 0 .. N /\ n + 1 # 0 /\ (n + 1) - 1 = n
    BY <1>0, <2>1
  <2>4. seen[n + 1] = Step(seen, n + 1)
    <3> HIDE DEF Step
    <3> QED
      BY <1>4, <2>3
  <2>5. Step(seen, n + 1) \in Seq(S)
    BY <2>2, <2>3
  <2> QED
    BY <2>4, <2>5
<1>7. N \in lists
  <2>1. 0 \in lists /\ \A n \in Nat : n \in lists => n + 1 \in lists
    BY <1>5, <1>6
  <2> HIDE DEF lists
  <2> QED
    BY <1>0, <2>1, AllNumbers
<1>8. ParticipantJids(list) = seen[N]
  BY DEF ParticipantJids, seen
<1> QED
  BY <1>0, <1>7, <1>8
-----------------------------------------------------------------------------
(* Signaling: a CallManager and what its handlers make of it.              *)

Fields == {"inCall", "hasKey", "video", "peerJid", "accepted", "endpoints", "participants", "acceptedBy",
           "self", "peer", "actualPeer", "send", "recv", "subscribed"}
IsManager(m) == m = [f \in Fields |-> m[f]] /\ IsList(m.participants) /\ m.actualPeer \in BOOLEAN

\* Two managers that differ in streams and keys alone.
SameCall(m, k) ==
    /\ k.inCall = m.inCall /\ k.hasKey = m.hasKey /\ k.video = m.video /\ k.peerJid = m.peerJid
    /\ k.accepted = m.accepted /\ k.endpoints = m.endpoints /\ k.participants = m.participants
    /\ k.acceptedBy = m.acceptedBy

LEMMA NewManagerIs ==
    IsManager(NewManager) /\ IsList(<<>>)
<1>1. DOMAIN <<>> = {}
  OBVIOUS
<1> QED
  BY <1>1 DEF IsManager, NewManager, IsList, Fields

LEMMA SubscribeIs ==
    ASSUME NEW m, IsManager(m)
    PROVE  /\ IsManager(Subscribe(m)) /\ SameCall(m, Subscribe(m))
           /\ Subscribe(m).subscribed = m.peer /\ Subscribe(m).self = m.self /\ Subscribe(m).peer = m.peer
           /\ Subscribe(m).actualPeer = m.actualPeer
           /\ Subscribe(m).send = m.send /\ Subscribe(m).recv = m.recv
  BY DEF Subscribe, IsManager, SameCall, Fields

LEMMA InitSrtpKeysIs ==
    ASSUME NEW m, NEW x, IsManager(m)
    PROVE  LET k == InitSrtpKeys(x, m)
           IN  /\ IsManager(k) /\ SameCall(m, k)
               /\ k.subscribed = m.subscribed /\ k.self = m.self /\ k.peer = m.peer /\ k.actualPeer = m.actualPeer
               /\ m.hasKey => /\ k.send = DerivePerJidSrtpKey(OurDeviceJid(x, m))
                              /\ k.recv = DerivePerJidSrtpKey(EnsureDeviceJid(RawPeer(x, m)))
               /\ ~m.hasKey => k = m
  BY DEF InitSrtpKeys, IsManager, SameCall, Fields

\* The keys depend on the call alone.
LEMMA KeysOfCall ==
    ASSUME NEW m, NEW k, NEW x, SameCall(m, k)
    PROVE  OurDeviceJid(x, k) = OurDeviceJid(x, m) /\ RawPeer(x, k) = RawPeer(x, m)
  BY DEF SameCall, OurDeviceJid, RawPeer

LEMMA FromParticipantsIs ==
    ASSUME NEW m, NEW x, NEW actual \in BOOLEAN, IsManager(m)
    PROVE  LET k == FromParticipants(x, m, actual)
               listed == FirstPeerDevice(m.participants, CleanJID(JidString(x)))
           IN  /\ IsManager(k) /\ SameCall(m, k)
               /\ k.subscribed = m.subscribed /\ k.send = m.send /\ k.recv = m.recv
               /\ k.self = IF m.participants = <<>> THEN m.self ELSE OurDeviceJid(x, m)
               /\ k.peer = IF m.participants = <<>> \/ listed = Nobody THEN m.peer ELSE EnsureDeviceJid(listed)
               /\ ~actual => k.actualPeer = m.actualPeer
<1> DEFINE listed == FirstPeerDevice(m.participants, CleanJID(JidString(x)))
           s == OurDeviceJid(x, m)
           p == EnsureDeviceJid(listed)
           ours == [m EXCEPT !.self = s]
           both == [ours EXCEPT !.peer = p, !.actualPeer = @ \/ actual]
<1>1. FromParticipants(x, m, actual) = IF m.participants = <<>> THEN m ELSE IF listed = Nobody THEN ours ELSE both
  BY DEF FromParticipants, GenerateSecureSsrc
<1> HIDE DEF listed, s, p
<1>2. IsManager(ours) /\ SameCall(m, ours) /\ ours.subscribed = m.subscribed /\ ours.send = m.send
      /\ ours.recv = m.recv /\ ours.self = s /\ ours.peer = m.peer /\ ours.actualPeer = m.actualPeer
  BY DEF IsManager, SameCall, Fields
<1> HIDE DEF ours
<1>3. IsManager(both) /\ SameCall(m, both) /\ both.subscribed = m.subscribed /\ both.send = m.send
      /\ both.recv = m.recv /\ both.self = s /\ both.peer = p
      /\ (~actual => both.actualPeer = m.actualPeer)
  BY <1>2 DEF IsManager, SameCall, Fields
<1>4. SameCall(m, m)
  BY DEF SameCall
<1> HIDE DEF both
<1> QED
  BY <1>1, <1>2, <1>3, <1>4 DEF listed, s, p

\* HandleCallOffer makes a manager for the call alone.
OfferedCall(h, v, q, e, l, s, p) ==
    [NewManager EXCEPT !.inCall = TRUE, !.hasKey = h, !.video = v, !.peerJid = q,
                       !.endpoints = e, !.participants = l, !.self = s, !.peer = p]

LEMMA CallIsSet ==
    ASSUME NEW h, NEW v, NEW q, NEW e, NEW l, NEW s, NEW p, IsList(l)
    PROVE  LET m == OfferedCall(h, v, q, e, l, s, p)
           IN  /\ IsManager(m) /\ m.inCall /\ m.hasKey = h /\ m.video = v /\ m.peerJid = q
               /\ ~m.accepted /\ m.participants = l /\ m.acceptedBy = Nobody
               /\ m.self = s /\ m.peer = p /\ ~m.actualPeer /\ m.send = NoKey
<1> DEFINE n == NewManager
<1>1. /\ IsManager(n) /\ ~n.accepted /\ n.acceptedBy = Nobody /\ ~n.actualPeer
      /\ n.send = NoKey
  BY NewManagerIs DEF NewManager
<1> HIDE DEF n
<1> QED
  BY <1>1 DEF IsManager, Fields, OfferedCall, n

-----------------------------------------------------------------------------
(* Signaling: the offer.                                                   *)

\* A node put in the place of another leaves the others.
LEMMA ReplacedChild ==
    ASSUME NEW S, NEW children \in Seq(S), NEW keys \in Seq(S), NEW at \in DOMAIN children,
           NEW tag, children[at].tag # tag, ~HasChildTag(keys, tag)
    PROVE  HasChildTag(SubSeq(children, 1, at - 1) \o keys \o SubSeq(children, at + 1, Len(children)), tag)
             = HasChildTag(children, tag)
<1> DEFINE front == SubSeq(children, 1, at - 1)
           back == SubSeq(children, at + 1, Len(children))
           all == front \o keys \o back
           N == Len(children)
           K == Len(keys)
<1>1. at \in 1 .. N /\ N \in Nat /\ K \in Nat
  OBVIOUS
<1>2. front \in Seq(S) /\ Len(front) = at - 1 /\ \A i \in 1 .. (at - 1) : front[i] = children[i]
  BY <1>1
<1>3. back \in Seq(S) /\ Len(back) = N - at /\ \A i \in 1 .. (N - at) : back[i] = children[at + i]
  BY <1>1
<1> HIDE DEF front, back
<1>0. Len(front) = at - 1 /\ Len(back) = N - at /\ K = Len(keys)
  BY <1>2, <1>3
<1> HIDE DEF N, K
<1> DEFINE both == front \o keys
<1>8. both \in Seq(S) /\ Len(both) = at - 1 + K
      /\ \A i \in 1 .. (at - 1 + K) : both[i] = IF i <= at - 1 THEN front[i] ELSE keys[i - (at - 1)]
  <2>1. both \in Seq(S) /\ Len(both) = Len(front) + Len(keys)
        /\ \A i \in 1 .. Len(front) + Len(keys) : both[i] = IF i <= Len(front) THEN front[i] ELSE keys[i - Len(front)]
    BY <1>2, ConcatProperties
  <2> HIDE DEF both
  <2> QED
    BY <1>0, <2>1
<1>9. all = both \o back
  OBVIOUS
<1> HIDE DEF both, all
<1>10. all \in Seq(S) /\ Len(all) = (at - 1 + K) + (N - at)
       /\ \A i \in 1 .. ((at - 1 + K) + (N - at)) :
             all[i] = IF i <= at - 1 + K THEN both[i] ELSE back[i - (at - 1 + K)]
  <2>1. (both \o back) \in Seq(S) /\ Len(both \o back) = Len(both) + Len(back)
        /\ \A i \in 1 .. Len(both) + Len(back) :
              (both \o back)[i] = IF i <= Len(both) THEN both[i] ELSE back[i - Len(both)]
    BY <1>3, <1>8, ConcatProperties
  <2> QED
    BY <1>0, <1>8, <1>9, <2>1
<1>4. DOMAIN all = 1 .. (N + K - 1) /\ DOMAIN children = 1 .. N /\ DOMAIN keys = 1 .. K
  BY <1>1, <1>10 DEF N, K
<1>5. /\ \A i \in 1 .. (at - 1) : all[i] = children[i]
      /\ \A i \in 1 .. K : all[at - 1 + i] = keys[i]
      /\ \A i \in 1 .. (N - at) : all[at - 1 + K + i] = children[at + i]
  <2>1. ASSUME NEW i \in 1 .. (at - 1) PROVE all[i] = children[i]
    <3>1. i \in 1 .. (at - 1 + K) /\ i \in 1 .. ((at - 1 + K) + (N - at)) /\ i <= at - 1 + K /\ i <= at - 1
      BY <1>1
    <3> QED
      BY <1>2, <1>8, <1>10, <3>1
  <2>2. ASSUME NEW i \in 1 .. K PROVE all[at - 1 + i] = keys[i]
    <3>1. /\ at - 1 + i \in 1 .. (at - 1 + K) /\ at - 1 + i \in 1 .. ((at - 1 + K) + (N - at))
          /\ at - 1 + i <= at - 1 + K /\ ~(at - 1 + i <= at - 1) /\ (at - 1 + i) - (at - 1) = i
      BY <1>1
    <3>2. both[at - 1 + i] = keys[(at - 1 + i) - (at - 1)]
      BY <1>8, <3>1
    <3> QED
      BY <1>10, <3>1, <3>2
  <2>3. ASSUME NEW i \in 1 .. (N - at) PROVE all[at - 1 + K + i] = children[at + i]
    <3>1. /\ at - 1 + K + i \in 1 .. ((at - 1 + K) + (N - at))
          /\ ~(at - 1 + K + i <= at - 1 + K) /\ (at - 1 + K + i) - (at - 1 + K) = i
      BY <1>1
    <3>2. all[at - 1 + K + i] = back[(at - 1 + K + i) - (at - 1 + K)]
      BY <1>10, <3>1
    <3> QED
      BY <1>3, <3>1, <3>2
  <2> QED
    BY <2>1, <2>2, <2>3
<1>6. ASSUME NEW i \in DOMAIN children, children[i].tag = tag PROVE HasChildTag(all, tag)
  <2>1. CASE i < at
    <3>1. i \in 1 .. (at - 1) /\ i \in DOMAIN all
      BY <1>1, <1>4, <2>1
    <3> QED
      BY <1>5, <1>6, <3>1 DEF HasChildTag
  <2>2. CASE at < i
    <3>1. i - at \in 1 .. (N - at) /\ at + (i - at) = i
      BY <1>1, <1>4, <2>2
    <3>3. at - 1 + K + (i - at) \in 1 .. (N + K - 1)
      BY <1>1, <1>4, <2>2
    <3>2. all[at - 1 + K + (i - at)] = children[i]
      BY <1>5, <3>1
    <3> QED
      BY <1>4, <1>6, <3>2, <3>3 DEF HasChildTag
  <2> QED
    BY <1>1, <1>6, <2>1, <2>2
<1>7. ASSUME NEW i \in DOMAIN all, all[i].tag = tag PROVE HasChildTag(children, tag)
  <2>1. CASE i < at
    <3>1. i \in 1 .. (at - 1) /\ i \in DOMAIN children
      BY <1>1, <1>4, <2>1
    <3> QED
      BY <1>5, <1>7, <3>1 DEF HasChildTag
  <2>2. CASE at <= i /\ i < at + K
    <3>1. i - (at - 1) \in 1 .. K /\ at - 1 + (i - (at - 1)) = i
      BY <1>1, <1>4, <2>2
    <3>2. all[i] = keys[i - (at - 1)] /\ i - (at - 1) \in DOMAIN keys
      <4>1. all[at - 1 + (i - (at - 1))] = keys[i - (at - 1)]
        BY <1>5, <3>1
      <4> QED
        BY <1>4, <3>1, <4>1
    <3> QED
      BY <1>7, <3>2 DEF HasChildTag
  <2>3. CASE at + K <= i
    <3>1. i - (at - 1 + K) \in 1 .. (N - at) /\ at - 1 + K + (i - (at - 1 + K)) = i
          /\ at + (i - (at - 1 + K)) \in DOMAIN children
      <4>1. i \in 1 .. (N + K - 1)
        BY <1>4, Zenon
      <4>2. Behind(N, K, at, i)
        BY <1>1, <2>3, <4>1, BehindAll, Zenon
      <4> QED
        BY <1>4, <4>2, Zenon DEF Behind
    <3>2. all[i] = children[at + (i - (at - 1 + K))]
      BY <1>5, <3>1
    <3> QED
      BY <1>7, <3>1, <3>2 DEF HasChildTag
  <2> QED
    BY <1>1, <1>4, <2>1, <2>2, <2>3
<1> QED
  BY <1>6, <1>7 DEF HasChildTag, all, front, back, N

\* Whichever form the keys have for a device, the offer says video as the call does.
LEMMA FanoutKeepsVideo ==
    ASSUME NEW devices, NEW video \in BOOLEAN, NEW d, NEW direct \in BOOLEAN
    PROVE  HasChildTag(Fanout(OfferNode(devices, video), d, direct), "video") = video
<1> DEFINE dest == Node("destination", Nobody, [i \in DOMAIN devices |-> Node("to", devices[i], <<Enc(devices[i])>>)])
           children == OfferNode(devices, video)
           at == CHOOSE i \in DOMAIN children : children[i].tag = "destination"
           tos == children[at].sub
           its == {i \in DOMAIN tos : tos[i].jid = d}
           own == tos[CHOOSE i \in its : TRUE]
           keys == IF direct THEN (IF its = {} THEN <<>> ELSE own.sub)
                   ELSE <<Node("destination", Nobody, IF its = {} THEN <<>> ELSE <<own>>)>>
           v == Node("video", Nobody, <<>>)
           p == Node("privacy", Nobody, <<>>)
           u == Node("audio", Nobody, <<>>)
           n == Node("net", Nobody, <<>>)
           c == Node("capability", Nobody, <<>>)
           e == Node("encopt", Nobody, <<>>)
           front == SubSeq(children, 1, at - 1)
           back == SubSeq(children, at + 1, Len(children))
           S == {p, u, n, c, dest, e}
<1>2. /\ v.tag = "video" /\ dest.tag = "destination" /\ p.tag = "privacy" /\ u.tag = "audio"
      /\ n.tag = "net" /\ c.tag = "capability" /\ e.tag = "encopt"
      /\ dest.sub = [i \in DOMAIN devices |-> Node("to", devices[i], <<Enc(devices[i])>>)]
  BY DEF Node
<1>14. children = <<p, u, u>> \o (IF video THEN <<v>> ELSE <<>>) \o <<n, c, dest, e>>
  BY DEF OfferNode
<1> HIDE DEF v, p, u, n, c, e, dest, children
<1>15. <<p, u, u>> \in Seq(S \cup {v}) /\ <<v>> \in Seq(S \cup {v}) /\ <<n, c, dest, e>> \in Seq(S \cup {v})
      /\ <<p, u, u>> \in Seq(S) /\ <<>> \in Seq(S) /\ <<n, c, dest, e>> \in Seq(S)
      /\ Len(<<p, u, u>>) = 3 /\ Len(<<v>>) = 1 /\ Len(<<n, c, dest, e>>) = 4 /\ Len(<<>>) = 0
  OBVIOUS
<1>16. <<v>>[1] = v /\ <<n, c, dest, e>>[3] = dest
  OBVIOUS
<1>1. /\ video => children \in Seq(S \cup {v}) /\ Len(children) = 8 /\ children[4] = v /\ children[7] = dest
      /\ ~video => children \in Seq(S) /\ Len(children) = 7 /\ children[6] = dest
  <2>1. CASE video
    <3> DEFINE f == <<p, u, u>> \o <<v>>
    <3>1. f \in Seq(S \cup {v}) /\ Len(f) = 4 /\ f[4] = v
      BY <1>15, <1>16, ConcatProperties
    <3>2. children = f \o <<n, c, dest, e>>
      BY <1>14, <2>1
    <3> HIDE DEF f, S
    <3> DEFINE g == <<n, c, dest, e>>
    <3>4. g \in Seq(S \cup {v}) /\ Len(g) = 4
      BY <1>15
    <3> HIDE DEF g
    <3>3. (f \o g) \in Seq(S \cup {v}) /\ Len(f \o g) = 8 /\ (f \o g)[4] = f[4] /\ (f \o g)[7] = g[3]
      <4>1. /\ (f \o g) \in Seq(S \cup {v}) /\ Len(f \o g) = Len(f) + Len(g)
            /\ \A i \in 1 .. Len(f) + Len(g) :
                  (f \o g)[i] = IF i <= Len(f) THEN f[i] ELSE g[i - Len(f)]
        BY <3>1, <3>4, ConcatProperties
      <4> QED
        BY <3>1, <3>4, <4>1
    <3> QED
      BY <1>16, <2>1, <3>1, <3>2, <3>3 DEF g
  <2>2. CASE ~video
    <3> DEFINE f == <<p, u, u>> \o <<>>
    <3>1. f \in Seq(S) /\ Len(f) = 3
      BY <1>15, ConcatProperties
    <3>2. children = f \o <<n, c, dest, e>>
      BY <1>14, <2>2
    <3> HIDE DEF f, S
    <3> DEFINE g == <<n, c, dest, e>>
    <3>4. g \in Seq(S) /\ Len(g) = 4
      BY <1>15
    <3> HIDE DEF g
    <3>3. (f \o g) \in Seq(S) /\ Len(f \o g) = 7 /\ (f \o g)[6] = g[3]
      <4>1. /\ (f \o g) \in Seq(S) /\ Len(f \o g) = Len(f) + Len(g)
            /\ \A i \in 1 .. Len(f) + Len(g) :
                  (f \o g)[i] = IF i <= Len(f) THEN f[i] ELSE g[i - Len(f)]
        BY <3>1, <3>4, ConcatProperties
      <4> QED
        BY <3>1, <3>4, <4>1
    <3> QED
      BY <1>16, <2>2, <3>2, <3>3 DEF g
  <2> QED
    BY <2>1, <2>2
<1>3. HasChildTag(children, "video") = video
  <2>1. CASE video
    <3>1. 4 \in DOMAIN children
      BY <1>1, <2>1
    <3> QED
      BY <1>1, <1>2, <2>1, <3>1 DEF HasChildTag
  <2>2. CASE ~video
    <3>1. \A i \in DOMAIN children : children[i] \in S
      <4>1. children \in Seq(S)
        BY <1>1, <2>2
      <4> HIDE DEF S
      <4> QED
        BY <4>1
    <3> QED
      BY <1>2, <2>2, <3>1 DEF HasChildTag
  <2>3. HasChildTag(children, "video") \in BOOLEAN
    BY DEF HasChildTag
  <2> QED
    BY <2>1, <2>2, <2>3
<1>17. children \in Seq(S \cup {v})
  <2>1. CASE ~video
    <3>1. children \in Seq(S) /\ S \subseteq S \cup {v}
      BY <1>1, <2>1
    <3> HIDE DEF S
    <3> QED
      BY <3>1
  <2> QED
    BY <1>1, <2>1
<1>4. \A i \in DOMAIN children : children[i].tag = "destination" => children[i] = dest
  <2>1. \A i \in DOMAIN children : children[i] \in S \cup {v}
    <3> HIDE DEF S
    <3> QED
      BY <1>17
  <2> QED
    BY <1>2, <2>1
<1>5. \E i \in DOMAIN children : children[i].tag = "destination"
  <2>1. CASE video
    <3>1. 7 \in DOMAIN children /\ children[7] = dest
      BY <1>1, <2>1
    <3> QED
      BY <1>2, <3>1
  <2>2. CASE ~video
    <3>1. 6 \in DOMAIN children /\ children[6] = dest
      BY <1>1, <2>2
    <3> QED
      BY <1>2, <3>1
  <2> QED
    BY <2>1, <2>2
<1>6. at \in DOMAIN children /\ children[at].tag = "destination"
  BY <1>5
<1> HIDE DEF at
<1>7. tos = [i \in DOMAIN devices |-> Node("to", devices[i], <<Enc(devices[i])>>)]
  BY <1>2, <1>4, <1>6
<1>8. its # {} => \E k : own.sub = <<k>> /\ k.tag = "enc"
  <2>1. SUFFICES ASSUME its # {} PROVE \E k : own.sub = <<k>> /\ k.tag = "enc"
    OBVIOUS
  <2>2. PICK i \in DOMAIN devices : own = Node("to", devices[i], <<Enc(devices[i])>>)
    <3>1. (CHOOSE i \in its : TRUE) \in its
      BY <2>1
    <3> QED
      BY <1>7, <3>1
  <2>3. own.sub = <<Enc(devices[i])>> /\ Enc(devices[i]).tag = "enc"
    BY <2>2 DEF Enc, Node
  <2> QED
    BY <2>3
<1>9. \E k : (keys = <<>> \/ keys = <<k>>) /\ k.tag # "video"
  <2>1. CASE its = {} /\ direct
    <3>1. keys = <<>>
      BY <2>1
    <3> HIDE DEF keys
    <3> QED
      BY <1>2, <3>1
  <2>2. CASE its # {} /\ direct
    <3>1. keys = own.sub
      BY <2>2
    <3> HIDE DEF keys, own, its
    <3> QED
      BY <1>8, <2>2, <3>1
  <2>3. CASE ~direct
    <3> DEFINE k == Node("destination", Nobody, IF its = {} THEN <<>> ELSE <<own>>)
    <3>1. keys = <<k>>
      BY <2>3
    <3>2. k.tag = "destination"
      BY DEF Node
    <3> HIDE DEF keys, k
    <3> QED
      BY <3>1, <3>2
  <2> QED
    BY <2>1, <2>2, <2>3
<1> HIDE DEF keys
<1>10. Fanout(children, d, direct) = front \o keys \o back
  BY DEF Fanout, at, keys, front, back, its, own, tos
<1>11. PICK k : (keys = <<>> \/ keys = <<k>>) /\ k.tag # "video"
  BY <1>9
<1> DEFINE T == S \cup {v, k}
<1>12. children \in Seq(T) /\ keys \in Seq(T) /\ ~HasChildTag(keys, "video")
  <2>1. children \in Seq(T)
    <3>1. S \cup {v} \subseteq T
      OBVIOUS
    <3> HIDE DEF S, T
    <3> QED
      BY <1>17, <3>1
  <2>2. keys \in Seq(T)
    <3>1. k \in T
      OBVIOUS
    <3> HIDE DEF S, T
    <3>2. <<>> \in Seq(T) /\ <<k>> \in Seq(T)
      BY <3>1
    <3> QED
      BY <1>11, <3>2
  <2>3. ~HasChildTag(keys, "video")
    <3>1. CASE keys = <<>>
      BY <3>1 DEF HasChildTag
    <3>2. CASE keys = <<k>>
      BY <1>11, <3>2 DEF HasChildTag
    <3> QED
      BY <1>11, <3>1, <3>2
  <2> QED
    BY <2>1, <2>2, <2>3
<1> HIDE DEF S, T
<1>13. HasChildTag(front \o keys \o back, "video") = HasChildTag(children, "video")
  <2>1. children[at].tag # "video"
    BY <1>6
  <2> QED
    BY <1>6, <1>12, <2>1, ReplacedChild
<1> QED
  BY <1>3, <1>10, <1>13 DEF children
-----------------------------------------------------------------------------
(* Signaling: the inductive invariant.                                     *)

SidesAre == side = [x \in Devices |-> side[x]] /\ \A x \in Devices : IsManager(side[x])

\* The keys are those of the call as it stands.
KeysAreOfCall(x, m) ==
    /\ m.send = DerivePerJidSrtpKey(OurDeviceJid(x, m))
    /\ m.recv = DerivePerJidSrtpKey(EnsureDeviceJid(RawPeer(x, m)))

CallerIs(m) ==
    /\ m.inCall => m.hasKey
    /\ m.inCall /\ ListsOnlyThe(Caller, m.participants) => m.self = Caller
    /\ m.send # NoKey => KeysAreOfCall(Caller, m) /\ m.subscribed = m.peer
    /\ m.acceptedBy # Nobody => m.send # NoKey

\* Nobody tells an answerer who accepted, and what it has heard before it has
\* accepted is the offer alone.
AnswererIs(d, m) ==
    /\ m.acceptedBy = Nobody
    /\ \A i \in DOMAIN m.participants : m.participants[i][1] \in {Caller[1], Callee[1]}
    /\ m.inCall => m.peerJid = Caller
    /\ m.inCall /\ d[2] # 0 /\ ListsOnlyThe(d, m.participants) => m.self = d
    /\ m.inCall /\ ~m.accepted => m.peer = Caller
    /\ m.send # NoKey => m.inCall /\ m.accepted /\ KeysAreOfCall(d, m)

\* What an answerer asked for, when neither end was shown another device.
AnswererHears(d) ==
    /\ side[d].send # NoKey
    /\ ListsOnlyThe(Caller, side[d].participants) /\ ListsOnlyThe(Caller, side[Caller].participants)
    => side[d].subscribed = Caller

BeforeCall ==
    ~side[Caller].inCall =>
      /\ mail = {} /\ answered = Nobody /\ ~misled
      /\ \A d \in Answerers : ~side[d].inCall

AcceptIs(s) == s.from \in Answerers /\ s.from = answered

AckIs(s) ==
    /\ side[Caller].participants = <<>> /\ ~misled
    /\ s.list \in Seq({Caller[1], Callee[1]} \X Int)
    /\ side[Caller].acceptedBy = Nobody => side[Caller].send = NoKey /\ ~side[Caller].actualPeer

OfferIs(s) ==
    /\ s.to \in Answerers /\ ~side[s.to].inCall
    /\ HasChildTag(s.children, "video") = side[Caller].video
    /\ s.list \in Seq({Caller[1], Callee[1]} \X Int)

MailIs ==
    \A s \in mail :
      /\ s.tag \in {"offer", "ack", "accept"}
      /\ s.tag = "offer" => OfferIs(s) /\ \A t \in mail : t.tag = "offer" /\ t.to = s.to => t = s
      /\ s.tag = "ack" => AckIs(s) /\ \A t \in mail : t.tag = "ack" => t = s
      /\ s.tag = "accept" => AcceptIs(s)

AnsweredIs ==
    /\ answered = Nobody => side[Caller].acceptedBy = Nobody /\ ~side[Caller].actualPeer
    /\ answered # Nobody =>
         /\ answered \in Answerers /\ side[answered].inCall
         /\ side[Caller].acceptedBy \in {Nobody, JidString(answered)}

\* A caller that has heard who answers keeps to that device.
PeerIs ==
    /\ answered # Nobody /\ ~misled
    /\ side[Caller].acceptedBy # Nobody \/ side[Caller].actualPeer
    /\ answered[2] # 0 /\ ListsOnlyThe(answered, side[answered].participants)
    => side[Caller].peer = answered

SigIInv ==
    /\ SidesAre /\ BeforeCall /\ MailIs /\ AnsweredIs /\ PeerIs
    /\ CallerIs(side[Caller])
    /\ \A d \in Answerers :
         /\ AnswererIs(d, side[d]) /\ AnswererHears(d)
         /\ side[d].inCall => side[d].video = side[Caller].video

LEMMA DevicesAre ==
    /\ IsJid(Caller) /\ Caller[2] # 0 /\ JidString(Caller) = Caller /\ Caller \in Devices
    /\ \A d \in Answerers : IsJid(d) /\ d[1] = Callee[1] /\ d # Caller /\ d \in Devices /\ d # Nobody
    /\ Devices = Answerers \cup {Caller} /\ Caller # Nobody
<1>1. IsJid(Caller) /\ Caller[2] # 0
  BY SignalingAssumption DEF IsJid
<1>2. ASSUME NEW d \in Answerers PROVE IsJid(d) /\ d[1] = Callee[1] /\ d # Caller
  BY SignalingAssumption DEF IsJid
<1> QED
  BY <1>1, <1>2, JidOfString DEF Devices

LEMMA SideIsSet ==
    ASSUME NEW x \in Devices, NEW m, SidesAre, IsManager(m), SetSide(x, m)
    PROVE  SidesAre' /\ side'[x] = m /\ \A y \in Devices : y # x => side'[y] = side[y]
<1>1. side' = [y \in Devices |-> IF y = x THEN m ELSE side[y]]
  BY DEF SidesAre, SetSide
<1>2. side'[x] = m /\ \A y \in Devices : y # x => side'[y] = side[y]
  BY <1>1
<1>3. \A y \in Devices : IsManager(side'[y])
  BY <1>2 DEF SidesAre
<1>4. side' = [y \in Devices |-> side'[y]]
  BY <1>1, <1>2
<1> QED
  BY <1>2, <1>3, <1>4 DEF SidesAre

LEMMA KeysAreKeys == \A s : DerivePerJidSrtpKey(s) # NoKey
  BY DEF DerivePerJidSrtpKey, NoKey

\* An empty list names nobody.
LEMMA EmptyIsClear ==
    \A x : ListsOnlyThe(x, <<>>)
<1>1. DOMAIN <<>> = {}
  OBVIOUS
<1> QED
  BY <1>1 DEF ListsOnlyThe

\* The keys of a manager that has the call key.
LEMMA KeysAreDerived ==
    ASSUME NEW m, NEW x, IsManager(m), m.hasKey
    PROVE  KeysAreOfCall(x, InitSrtpKeys(x, m)) /\ InitSrtpKeys(x, m).send # NoKey
<1> DEFINE k == InitSrtpKeys(x, m)
<1>1. SameCall(m, k) /\ k.send = DerivePerJidSrtpKey(OurDeviceJid(x, m))
      /\ k.recv = DerivePerJidSrtpKey(EnsureDeviceJid(RawPeer(x, m)))
  BY InitSrtpKeysIs
<1> HIDE DEF k
<1>2. OurDeviceJid(x, k) = OurDeviceJid(x, m) /\ RawPeer(x, k) = RawPeer(x, m)
  BY <1>1, KeysOfCall
<1> QED
  BY <1>1, <1>2, KeysAreKeys DEF KeysAreOfCall, k

Accepting(m) == [m EXCEPT !.accepted = TRUE]

\* AcceptCall with setupIncomingMedia and connectRelays.
LEMMA AcceptingIs ==
    ASSUME NEW d \in Answerers, NEW m, NEW k, NEW actual \in BOOLEAN, IsManager(m), AnswererIs(d, m), m.inCall, ~m.accepted,
           k \in {Accepting(m), InitSrtpKeys(d, Subscribe(FromParticipants(d, Accepting(m), actual)))}
    PROVE  /\ IsManager(k) /\ AnswererIs(d, k)
           /\ k.inCall /\ k.video = m.video /\ k.participants = m.participants
           /\ k.send # NoKey /\ ListsOnlyThe(Caller, k.participants) => k.subscribed = Caller
<1> DEFINE n == Accepting(m)
<1>1. /\ IsManager(n) /\ n.accepted /\ n.inCall = m.inCall /\ n.hasKey = m.hasKey /\ n.video = m.video
      /\ n.peerJid = m.peerJid /\ n.participants = m.participants /\ n.acceptedBy = m.acceptedBy
      /\ n.self = m.self /\ n.peer = m.peer /\ n.send = m.send
  BY DEF IsManager, Fields, Accepting
<1> HIDE DEF n
<1>2. m.send = NoKey /\ m.peer = Caller
  BY DEF AnswererIs
<1>3. CASE k = n
  BY <1>1, <1>2, <1>3 DEF AnswererIs
<1>4. CASE k = InitSrtpKeys(d, Subscribe(FromParticipants(d, n, actual)))
  <2> DEFINE o == FromParticipants(d, n, actual)
             q == Subscribe(o)
             listed == FirstPeerDevice(n.participants, CleanJID(JidString(d)))
  <2>1. /\ IsManager(o) /\ SameCall(n, o) /\ o.send = n.send
        /\ o.self = IF n.participants = <<>> THEN n.self ELSE OurDeviceJid(d, n)
        /\ o.peer = IF n.participants = <<>> \/ listed = Nobody THEN n.peer ELSE EnsureDeviceJid(listed)
    BY <1>1, FromParticipantsIs
  <2> HIDE DEF o
  <2>2. IsManager(q) /\ SameCall(o, q) /\ q.send = o.send /\ q.self = o.self /\ q.subscribed = o.peer
    BY <2>1, SubscribeIs
  <2> HIDE DEF q
  <2>3. k = InitSrtpKeys(d, q)
    BY <1>4 DEF q, o, n
  <2>4. IsManager(k) /\ SameCall(q, k) /\ k.subscribed = q.subscribed /\ k.self = q.self
        /\ (~q.hasKey => k = q)
    BY <2>2, <2>3, InitSrtpKeysIs
  <2>5. SameCall(n, k)
    BY <2>1, <2>2, <2>4 DEF SameCall
  <2>6. k.send # NoKey => KeysAreOfCall(d, k)
    <3>1. CASE q.hasKey
      BY <2>2, <2>3, <3>1, KeysAreDerived
    <3>2. CASE ~q.hasKey
      BY <1>1, <1>2, <2>1, <2>2, <2>4, <3>2
    <3> QED
      BY <3>1, <3>2
  <2>7. ListsOnlyThe(Caller, n.participants) => k.subscribed = Caller
    <3>1. SUFFICES ASSUME ListsOnlyThe(Caller, n.participants) PROVE k.subscribed = Caller
      OBVIOUS
    <3>2. IsList(n.participants) /\ \A i \in DOMAIN n.participants : n.participants[i][1] \in {Caller[1], Callee[1]}
      BY <1>1 DEF AnswererIs, IsManager
    <3>3. listed = Nobody \/ EnsureDeviceJid(listed) = Caller
      BY <3>1, <3>2, PeerDeviceIs DEF listed
    <3> QED
      BY <1>1, <1>2, <2>1, <2>2, <2>4, <3>3
  <2>8. d[2] # 0 /\ ListsOnlyThe(d, n.participants) => k.self = d
    <3>1. SUFFICES ASSUME d[2] # 0, ListsOnlyThe(d, n.participants) PROVE k.self = d
      OBVIOUS
    <3>2. OurDeviceJid(d, n) = d
      BY <1>1, <3>1, DevicesAre, OurDeviceIs DEF IsManager
    <3>3. n.self = d
      BY <1>1, <3>1 DEF AnswererIs
    <3> QED
      BY <2>1, <2>2, <2>4, <3>2, <3>3
  <2> QED
    BY <1>1, <2>4, <2>5, <2>6, <2>7, <2>8 DEF AnswererIs, SameCall
<1> QED
  BY <1>3, <1>4 DEF n

LEMMA NewIsQuiet ==
    /\ IsManager(NewManager) /\ CallerIs(NewManager) /\ \A d \in Answerers : AnswererIs(d, NewManager)
    /\ ~NewManager.inCall /\ NewManager.send = NoKey /\ NewManager.acceptedBy = Nobody
    /\ ~NewManager.actualPeer /\ NewManager.participants = <<>>
<1>1. /\ IsManager(NewManager) /\ ~NewManager.inCall /\ NewManager.send = NoKey
      /\ NewManager.acceptedBy = Nobody /\ ~NewManager.actualPeer /\ NewManager.participants = <<>>
  BY NewManagerIs DEF NewManager
<1>2. DOMAIN <<>> = {}
  OBVIOUS
<1> QED
  BY <1>1, <1>2 DEF CallerIs, AnswererIs

LEMMA SigStart == SigInit => SigIInv
<1> SUFFICES ASSUME SigInit PROVE SigIInv
  OBVIOUS
<1>1. \A x \in Devices : side[x] = NewManager
  BY DEF SigInit
<1>2. SidesAre
  BY <1>1, NewIsQuiet DEF SidesAre, SigInit
<1>3. side[Caller] = NewManager /\ \A d \in Answerers : side[d] = NewManager
  BY <1>1, DevicesAre
<1>4. mail = {} /\ answered = Nobody /\ misled = FALSE
  BY DEF SigInit
<1>5. BeforeCall /\ MailIs /\ AnsweredIs /\ PeerIs
  BY <1>3, <1>4, NewIsQuiet DEF BeforeCall, MailIs, AnsweredIs, PeerIs
<1> QED
  BY <1>2, <1>3, <1>5, NewIsQuiet DEF SigIInv, AnswererHears

\* A call starts with a manager of its own, an offer for each device and an ack.
LEMMA StartingIs ==
    ASSUME NEW v
    PROVE  LET m == [NewManager EXCEPT !.inCall = TRUE, !.hasKey = TRUE, !.video = v,
                         !.peerJid = Callee, !.self = GenerateSecureSsrc(JidString(Caller)),
                         !.peer = GenerateSecureSsrc(Callee)]
           IN  /\ IsManager(m) /\ CallerIs(m) /\ m.inCall /\ m.video = v
               /\ m.participants = <<>> /\ m.acceptedBy = Nobody /\ ~m.actualPeer /\ m.send = NoKey
<1> DEFINE n == NewManager
           m == [n EXCEPT !.inCall = TRUE, !.hasKey = TRUE, !.video = v,
                         !.peerJid = Callee, !.self = GenerateSecureSsrc(JidString(Caller)),
                         !.peer = GenerateSecureSsrc(Callee)]
<1>1. /\ IsManager(n) /\ ~n.accepted /\ n.acceptedBy = Nobody /\ ~n.actualPeer
      /\ n.send = NoKey /\ n.participants = <<>>
  BY NewIsQuiet DEF NewManager
<1> HIDE DEF n
<1>2. /\ IsManager(m) /\ m.inCall /\ m.video = v /\ m.hasKey
      /\ m.participants = <<>> /\ m.acceptedBy = Nobody /\ ~m.actualPeer /\ m.send = NoKey
      /\ m.self = JidString(Caller)
  BY <1>1 DEF IsManager, Fields, GenerateSecureSsrc
<1> HIDE DEF m
<1>3. CallerIs(m)
  BY <1>2, DevicesAre DEF CallerIs
<1> QED
  BY <1>2, <1>3 DEF m, n

LEMMA StartCallKeeps ==
    ASSUME NEW devices \in OfferedTo, NEW video \in BOOLEAN, SigIInv, StartCall(devices, video)
    PROVE  SigIInv'
<1> DEFINE m == [NewManager EXCEPT !.inCall = TRUE, !.hasKey = TRUE, !.video = video,
                         !.peerJid = Callee, !.self = GenerateSecureSsrc(JidString(Caller)),
                         !.peer = GenerateSecureSsrc(Callee)]
<1>1. SetSide(Caller, m) /\ ~side[Caller].inCall /\ answered' = answered /\ misled' = misled
  BY DEF StartCall
<1>2. PICK server \in Servers, direct \in BOOLEAN :
         mail' = {OfferTo(d, OfferNode(devices, video), direct, server) : d \in Answerers}
                   \cup {[tag |-> "ack", to |-> Caller, list |-> server.list, relay |-> server.relay]}
  BY DEF StartCall
<1>3. /\ IsManager(m) /\ CallerIs(m) /\ m.inCall /\ m.video = video
      /\ m.participants = <<>> /\ m.acceptedBy = Nobody /\ ~m.actualPeer /\ m.send = NoKey
  BY StartingIs
<1> HIDE DEF m
<1>4. SidesAre' /\ side'[Caller] = m /\ \A d \in Answerers : side'[d] = side[d]
  BY <1>1, <1>3, SideIsSet, DevicesAre DEF SigIInv
<1>5. mail = {} /\ answered = Nobody /\ ~misled /\ \A d \in Answerers : ~side[d].inCall
  BY <1>1 DEF SigIInv, BeforeCall
<1>6. ASSUME NEW s \in mail'
      PROVE  \/ \E d \in Answerers : s = OfferTo(d, OfferNode(devices, video), direct, server)
             \/ s = [tag |-> "ack", to |-> Caller, list |-> server.list, relay |-> server.relay]
  BY <1>2
<1>7. ASSUME NEW d \in Answerers
      PROVE  LET s == OfferTo(d, OfferNode(devices, video), direct, server)
             IN  s.tag = "offer" /\ s.to = d /\ HasChildTag(s.children, "video") = video
                 /\ s.list = server.others
  BY FanoutKeepsVideo DEF OfferTo
<1>8. server.list \in Seq({Caller[1], Callee[1]} \X Int) /\ server.others \in Seq({Caller[1], Callee[1]} \X Int)
  BY ListsAssumption
<1>9. MailIs'
  <2>1. ASSUME NEW s \in mail', s.tag = "offer" PROVE OfferIs(s)' /\ s = OfferTo(s.to, OfferNode(devices, video), direct, server)
    <3>1. PICK d \in Answerers : s = OfferTo(d, OfferNode(devices, video), direct, server)
      BY <1>6, <2>1
    <3>2. s.to = d /\ HasChildTag(s.children, "video") = video /\ s.list = server.others
      BY <1>7, <3>1
    <3> QED
      BY <1>3, <1>4, <1>5, <1>8, <3>1, <3>2 DEF OfferIs
  <2>2. ASSUME NEW s \in mail', s.tag = "ack"
        PROVE  AckIs(s)' /\ s = [tag |-> "ack", to |-> Caller, list |-> server.list, relay |-> server.relay]
    <3>1. s = [tag |-> "ack", to |-> Caller, list |-> server.list, relay |-> server.relay]
      BY <1>6, <1>7, <2>2
    <3> QED
      BY <1>1, <1>3, <1>4, <1>5, <1>8, <3>1 DEF AckIs
  <2>3. ASSUME NEW s \in mail' PROVE s.tag \in {"offer", "ack"}
    BY <1>6, <1>7
  <2> QED
    BY <2>1, <2>2, <2>3 DEF MailIs
<1>10. BeforeCall' /\ AnsweredIs' /\ PeerIs'
  BY <1>1, <1>3, <1>4, <1>5 DEF BeforeCall, AnsweredIs, PeerIs
<1>11. ASSUME NEW d \in Answerers
       PROVE  AnswererIs(d, side'[d]) /\ AnswererHears(d)'
              /\ (side'[d].inCall => side'[d].video = side'[Caller].video)
  BY <1>4, <1>5 DEF SigIInv, AnswererHears, AnswererIs
<1> QED
  BY <1>3, <1>4, <1>9, <1>10, <1>11 DEF SigIInv

LEMMA QueryTimesOutKeeps ==
    ASSUME SigIInv, QueryTimesOut
    PROVE  SigIInv'
<1>1. mail' \subseteq mail /\ side' = side /\ answered' = answered /\ misled' = misled
  BY DEF QueryTimesOut
<1>2. MailIs'
  BY <1>1 DEF SigIInv, MailIs, OfferIs, AckIs, AcceptIs
<1>3. SidesAre' /\ BeforeCall' /\ AnsweredIs' /\ PeerIs'
  BY <1>1 DEF SigIInv, SidesAre, BeforeCall, AnsweredIs, PeerIs
<1>4. CallerIs(side'[Caller]) /\ \A d \in Answerers : AnswererIs(d, side'[d]) /\ AnswererHears(d)'
  BY <1>1 DEF SigIInv, AnswererHears
<1> QED
  BY <1>1, <1>2, <1>3, <1>4 DEF SigIInv

\* A step of an answerer that leaves the caller, whether it is in the call
\* already, and the device that answered as they were.
LEMMA AnswererSteps ==
    ASSUME NEW d \in Answerers, NEW m, SigIInv, SetSide(d, m), IsManager(m), AnswererIs(d, m),
           m.inCall, m.video = side[Caller].video, side[Caller].inCall,
           m.send # NoKey /\ ListsOnlyThe(Caller, m.participants)
             /\ ListsOnlyThe(Caller, side[Caller].participants) => m.subscribed = Caller,
           answered = d => m.participants = side[d].participants,
           answered' = answered \/ (answered' = d /\ answered = Nobody), misled' = misled
    PROVE  /\ SidesAre' /\ BeforeCall' /\ AnsweredIs' /\ PeerIs' /\ CallerIs(side'[Caller])
           /\ \A e \in Answerers :
                 /\ AnswererIs(e, side'[e]) /\ AnswererHears(e)'
                 /\ side'[e].inCall => side'[e].video = side'[Caller].video
           /\ side'[Caller] = side[Caller] /\ side'[d] = m
           /\ \A e \in Answerers : e # d => side'[e] = side[e]
<1>1. SidesAre' /\ side'[d] = m /\ side'[Caller] = side[Caller]
      /\ \A e \in Answerers : e # d => side'[e] = side[e]
  BY SideIsSet, DevicesAre DEF SigIInv
<1>2. ASSUME NEW e \in Answerers
      PROVE  /\ AnswererIs(e, side'[e]) /\ AnswererHears(e)'
             /\ side'[e].inCall => side'[e].video = side'[Caller].video
  <2>1. CASE e = d
    BY <1>1, <2>1 DEF AnswererHears
  <2>2. CASE e # d
    BY <1>1, <2>2 DEF SigIInv, AnswererHears
  <2> QED
    BY <2>1, <2>2
<1>3. BeforeCall' /\ CallerIs(side'[Caller])
  BY <1>1 DEF SigIInv, BeforeCall
<1>4. AnsweredIs'
  <2>1. CASE answered' = answered
    <3>1. answered # Nobody => side'[answered].inCall
      BY <1>1 DEF SigIInv, AnsweredIs
    <3> QED
      BY <1>1, <2>1, <3>1 DEF SigIInv, AnsweredIs
  <2>2. CASE answered' = d /\ answered = Nobody
    BY <1>1, <2>2, DevicesAre DEF SigIInv, AnsweredIs
  <2> QED
    BY <2>1, <2>2
<1>5. PeerIs'
  <2>1. CASE answered' = answered
    <3>1. answered # Nobody => side'[answered].participants = side[answered].participants
      BY <1>1 DEF SigIInv, AnsweredIs
    <3> QED
      BY <1>1, <2>1, <3>1 DEF SigIInv, PeerIs
  <2>2. CASE answered' = d /\ answered = Nobody
    BY <1>1, <2>2 DEF SigIInv, PeerIs, AnsweredIs
  <2> QED
    BY <2>1, <2>2
<1> QED
  BY <1>1, <1>2, <1>3, <1>4, <1>5

LEMMA HandleCallOfferKeeps ==
    ASSUME NEW d \in Answerers, SigIInv, HandleCallOffer(d)
    PROVE  SigIInv'
<1>1. PICK s \in mail :
        /\ s.tag = "offer" /\ s.to = d
        /\ \E e, l : SetSide(d, [NewManager EXCEPT
             !.inCall = TRUE, !.hasKey = DecryptCallKey(d, s.children),
             !.video = HasChildTag(s.children, "video"), !.peerJid = JidString(Caller),
             !.endpoints = e, !.participants = l,
             !.self = GenerateSecureSsrc(JidString(d)),
             !.peer = GenerateSecureSsrc(JidString(Caller))])
             /\ l \in {<<>>, ParticipantJids(s.list)}
        /\ mail' = mail \ {s}
        /\ answered' = answered /\ misled' = misled
  BY DEF HandleCallOffer
<1>2. PICK e, l : SetSide(d, [NewManager EXCEPT
             !.inCall = TRUE, !.hasKey = DecryptCallKey(d, s.children),
             !.video = HasChildTag(s.children, "video"), !.peerJid = JidString(Caller),
             !.endpoints = e, !.participants = l,
             !.self = GenerateSecureSsrc(JidString(d)),
             !.peer = GenerateSecureSsrc(JidString(Caller))])
             /\ l \in {<<>>, ParticipantJids(s.list)}
  BY <1>1
<1>3. OfferIs(s) /\ \A t \in mail : t.tag = "offer" /\ t.to = d => t = s
  BY <1>1 DEF SigIInv, MailIs
<1>4. l \in Seq({Caller[1], Callee[1]} \X Int)
  <2> DEFINE S == {Caller[1], Callee[1]} \X Int
  <2>1. s.list \in Seq(S)
    BY <1>3 DEF OfferIs
  <2> HIDE DEF S
  <2>2. ParticipantJids(s.list) \in Seq(S) /\ <<>> \in Seq(S)
    BY <2>1, ParticipantsAreListed
  <2> QED
    BY <1>2, <2>2 DEF S
<1>5. IsList(l) /\ \A i \in DOMAIN l : l[i][1] \in {Caller[1], Callee[1]}
  BY <1>4 DEF IsList
<1> DEFINE h == DecryptCallKey(d, s.children)
           v == HasChildTag(s.children, "video")
           m == [NewManager EXCEPT
             !.inCall = TRUE, !.hasKey = h, !.video = v, !.peerJid = JidString(Caller),
             !.endpoints = e, !.participants = l,
             !.self = GenerateSecureSsrc(JidString(d)),
             !.peer = GenerateSecureSsrc(JidString(Caller))]
<1>6. /\ IsManager(m) /\ m.inCall /\ m.video = HasChildTag(s.children, "video")
      /\ m.peerJid = JidString(Caller) /\ ~m.accepted /\ m.participants = l /\ m.acceptedBy = Nobody
      /\ m.self = JidString(d) /\ m.peer = JidString(Caller) /\ m.send = NoKey
  <2> DEFINE q == JidString(Caller)
             u == JidString(d)
             k == OfferedCall(h, v, q, e, l, u, q)
  <2>1. m = k
    BY DEF GenerateSecureSsrc, OfferedCall
  <2> HIDE DEF h, v, q, u, m
  <2>2. /\ IsManager(k) /\ k.inCall /\ k.hasKey = h /\ k.video = v /\ k.peerJid = q
        /\ ~k.accepted /\ k.participants = l /\ k.acceptedBy = Nobody
        /\ k.self = u /\ k.peer = q /\ ~k.actualPeer /\ k.send = NoKey
    BY ONLY <1>5, CallIsSet
  <2> HIDE DEF k
  <2> QED
    BY <2>1, <2>2 DEF v, q, u
<1> HIDE DEF m
<1>7. SetSide(d, m)
  BY <1>2 DEF m
<1>8. AnswererIs(d, m)
  BY <1>5, <1>6, DevicesAre, JidOfString DEF AnswererIs
<1>9. side[Caller].inCall /\ ~side[d].inCall /\ m.video = side[Caller].video
  BY <1>1, <1>3, <1>6 DEF SigIInv, BeforeCall, OfferIs
<1>10. answered # d
  BY <1>9, DevicesAre DEF SigIInv, AnsweredIs
<1>11. /\ SidesAre' /\ BeforeCall' /\ AnsweredIs' /\ PeerIs' /\ CallerIs(side'[Caller])
       /\ \A f \in Answerers :
             /\ AnswererIs(f, side'[f]) /\ AnswererHears(f)'
             /\ side'[f].inCall => side'[f].video = side'[Caller].video
       /\ side'[Caller] = side[Caller] /\ side'[d] = m
       /\ \A f \in Answerers : f # d => side'[f] = side[f]
  BY <1>1, <1>6, <1>7, <1>8, <1>9, <1>10, AnswererSteps
<1>12. MailIs'
  <2>1. ASSUME NEW t \in mail', t.tag = "offer" PROVE OfferIs(t)'
    <3>1. t \in mail /\ t.to # d
      BY <1>1, <1>3, <2>1
    <3> QED
      BY <1>11, <2>1, <3>1 DEF SigIInv, MailIs, OfferIs
  <2>2. ASSUME NEW t \in mail', t.tag = "ack" PROVE AckIs(t)'
    BY <1>1, <1>11, <2>2 DEF SigIInv, MailIs, AckIs
  <2> QED
    BY <1>1, <2>1, <2>2 DEF SigIInv, MailIs, AcceptIs
<1> QED
  BY <1>11, <1>12 DEF SigIInv

LEMMA AcceptCallKeeps ==
    ASSUME NEW d \in Answerers, SigIInv, AcceptCall(d)
    PROVE  SigIInv'
<1> DEFINE n == [side[d] EXCEPT !.accepted = TRUE]
           k == IF n.endpoints = <<>> THEN n
                ELSE InitSrtpKeys(d, Subscribe(FromParticipants(d, n, TRUE)))
<1>1. side[d].inCall /\ ~side[d].accepted /\ SetSide(d, k) /\ misled' = misled
  BY DEF AcceptCall
<1>2. IsManager(side[d]) /\ AnswererIs(d, side[d])
  BY DevicesAre DEF SigIInv, SidesAre
<1>3. k \in {n, InitSrtpKeys(d, Subscribe(FromParticipants(d, n, TRUE)))}
  OBVIOUS
<1> HIDE DEF k
<1>4. /\ IsManager(k) /\ AnswererIs(d, k)
      /\ k.inCall /\ k.video = side[d].video /\ k.participants = side[d].participants
      /\ k.send # NoKey /\ ListsOnlyThe(Caller, k.participants) => k.subscribed = Caller
  <2> DEFINE m == side[d]
             actual == TRUE
  <2>1. n = Accepting(m) /\ m.inCall /\ ~m.accepted /\ IsManager(m) /\ AnswererIs(d, m)
    BY <1>1, <1>2 DEF Accepting
  <2>2. k \in {n, InitSrtpKeys(d, Subscribe(FromParticipants(d, n, actual)))} /\ actual \in BOOLEAN
    BY <1>3
  <2> HIDE DEF m, n, actual
  <2> QED
    BY <2>1, <2>2, AcceptingIs DEF m
<1>5. side[d].video = side[Caller].video /\ side[Caller].inCall
  BY <1>1 DEF SigIInv, BeforeCall
<1>6. /\ mail' \subseteq mail \cup {[tag |-> "accept", to |-> Caller, from |-> d,
                                    children |-> AcceptNode(Caller, side[d].video)]}
      /\ answered' = answered \/ (answered' = d /\ answered = Nobody)
      /\ mail' # mail => answered' = d
  <2>1. CASE UNCHANGED <<mail, answered>>
    BY <2>1
  <2>2. CASE ~UNCHANGED <<mail, answered>>
    BY <2>2 DEF AcceptCall
  <2> QED
    BY <2>1, <2>2
<1>7. /\ SidesAre' /\ BeforeCall' /\ AnsweredIs' /\ PeerIs' /\ CallerIs(side'[Caller])
      /\ \A f \in Answerers :
             /\ AnswererIs(f, side'[f]) /\ AnswererHears(f)'
             /\ side'[f].inCall => side'[f].video = side'[Caller].video
      /\ side'[Caller] = side[Caller] /\ side'[d] = k
      /\ \A f \in Answerers : f # d => side'[f] = side[f]
  BY <1>1, <1>4, <1>5, <1>6, AnswererSteps
<1>8. MailIs'
  <2>1. ASSUME NEW t \in mail' PROVE t \in mail \/ (t.tag = "accept" /\ t.from = d /\ answered' = d)
    BY <1>6
  <2>2. ASSUME NEW t \in mail, t.tag = "accept" PROVE AcceptIs(t)'
    BY <1>6, <2>2, DevicesAre DEF SigIInv, MailIs, AcceptIs
  <2>3. ASSUME NEW t \in mail, t.tag = "offer" PROVE OfferIs(t)'
    <3>1. OfferIs(t) /\ t.to # d
      BY <1>1, <2>3 DEF SigIInv, MailIs, OfferIs
    <3> QED
      BY <1>7, <3>1 DEF OfferIs
  <2>4. ASSUME NEW t \in mail, t.tag = "ack" PROVE AckIs(t)'
    BY <1>1, <1>7, <2>4 DEF SigIInv, MailIs, AckIs
  <2>5. ASSUME NEW t \in mail' PROVE t.tag \in {"offer", "ack", "accept"} /\ (t.tag # "accept" => t \in mail)
    BY <2>1 DEF SigIInv, MailIs
  <2>6. ASSUME NEW t \in mail', t.tag = "accept" PROVE AcceptIs(t)'
    BY <2>1, <2>2, <2>6 DEF AcceptIs
  <2>7. ASSUME NEW s \in mail', NEW t \in mail', s.tag = t.tag, s.tag = "ack" \/ (s.tag = "offer" /\ s.to = t.to)
        PROVE  s = t
    BY <2>5, <2>7 DEF SigIInv, MailIs
  <2> QED
    BY <2>2, <2>3, <2>4, <2>5, <2>6, <2>7 DEF MailIs
<1> QED
  BY <1>7, <1>8 DEF SigIInv

\* A step of the caller that leaves the call, and its list when it has one.
LEMMA CallerSteps ==
    ASSUME NEW m, SigIInv, SetSide(Caller, m), IsManager(m), CallerIs(m), m.inCall,
           m.video = side[Caller].video,
           side[Caller].participants \in {<<>>, m.participants}
    PROVE  /\ SidesAre' /\ BeforeCall' /\ CallerIs(side'[Caller])
           /\ \A e \in Answerers :
                 /\ AnswererIs(e, side'[e]) /\ AnswererHears(e)'
                 /\ side'[e].inCall => side'[e].video = side'[Caller].video
           /\ side'[Caller] = m /\ \A e \in Answerers : side'[e] = side[e]
           /\ \A s : OfferIs(s) => OfferIs(s)'
<1>1. SidesAre' /\ side'[Caller] = m /\ \A e \in Answerers : side'[e] = side[e]
  BY SideIsSet, DevicesAre DEF SigIInv
<1>2. ListsOnlyThe(Caller, m.participants) => ListsOnlyThe(Caller, side[Caller].participants)
  BY EmptyIsClear
<1>3. ASSUME NEW e \in Answerers
      PROVE  /\ AnswererIs(e, side'[e]) /\ AnswererHears(e)'
             /\ side'[e].inCall => side'[e].video = side'[Caller].video
  BY <1>1, <1>2 DEF SigIInv, AnswererHears
<1>4. BeforeCall' /\ CallerIs(side'[Caller])
  BY <1>1 DEF BeforeCall
<1>5. \A s : OfferIs(s) => OfferIs(s)'
  BY <1>1 DEF OfferIs
<1> QED
  BY <1>1, <1>3, <1>4, <1>5

Listing(m, e, l) == [m EXCEPT !.endpoints = e, !.participants = l]

LEMMA ListingIs ==
    ASSUME NEW m, NEW e, NEW l, IsManager(m), IsList(l)
    PROVE  LET k == Listing(m, e, l)
           IN  /\ IsManager(k) /\ k.participants = l /\ (k.inCall <=> m.inCall) /\ k.hasKey = m.hasKey
               /\ k.video = m.video /\ k.peerJid = m.peerJid /\ k.acceptedBy = m.acceptedBy
               /\ k.self = m.self /\ k.peer = m.peer /\ k.actualPeer = m.actualPeer
               /\ k.send = m.send /\ k.recv = m.recv /\ k.subscribed = m.subscribed
  BY DEF Listing, IsManager, Fields

\* What HandleCallAck makes of the manager.
Acked(m, e, l) ==
    IF l = <<>> THEN Subscribe(Listing(m, e, l))
    ELSE Subscribe(InitSrtpKeys(Caller, FromParticipants(Caller, Listing(m, e, l), FALSE)))
Listed(l) == FirstPeerDevice(l, CleanJID(JidString(Caller)))

LEMMA AckingIs ==
    ASSUME NEW m, NEW e, NEW l,
           IsManager(m), CallerIs(m), m.inCall, m.participants = <<>>, IsList(l)
    PROVE  LET k == Acked(m, e, l)
           IN  /\ IsManager(k) /\ CallerIs(k) /\ k.inCall /\ k.video = m.video
               /\ k.acceptedBy = m.acceptedBy /\ k.actualPeer = m.actualPeer
               /\ k.peer = IF l = <<>> \/ Listed(l) = Nobody THEN m.peer ELSE EnsureDeviceJid(Listed(l))
<1> DEFINE k == Acked(m, e, l)
           listed == Listed(l)
           n == Listing(m, e, l)
           actual == FALSE
           o == FromParticipants(Caller, n, actual)
           q == InitSrtpKeys(Caller, o)
<1> SUFFICES /\ IsManager(k) /\ CallerIs(k) /\ k.inCall /\ k.video = m.video
             /\ k.acceptedBy = m.acceptedBy /\ k.actualPeer = m.actualPeer
             /\ k.peer = IF l = <<>> \/ listed = Nobody THEN m.peer ELSE EnsureDeviceJid(listed)
  OBVIOUS
<1>0. actual \in BOOLEAN /\ ~actual
  OBVIOUS
<1>1. /\ IsManager(n) /\ n.participants = l /\ n.inCall /\ n.hasKey = m.hasKey
      /\ n.video = m.video /\ n.peerJid = m.peerJid /\ n.acceptedBy = m.acceptedBy
      /\ n.self = m.self /\ n.peer = m.peer /\ n.actualPeer = m.actualPeer
      /\ n.send = m.send /\ n.recv = m.recv /\ n.subscribed = m.subscribed
  BY ListingIs
<1>2. k = IF l = <<>> THEN Subscribe(n) ELSE Subscribe(q)
  BY DEF Acked
<1>3. m.hasKey
  BY DEF CallerIs
<1>30. listed = FirstPeerDevice(l, CleanJID(JidString(Caller)))
  BY DEF Listed
<1> HIDE DEF n, k, actual, listed
<1>4. CASE l = <<>>
  <2>1. /\ IsManager(k) /\ SameCall(n, k) /\ k.subscribed = n.peer /\ k.self = n.self /\ k.peer = n.peer
        /\ k.actualPeer = n.actualPeer /\ k.send = n.send /\ k.recv = n.recv
    BY <1>1, <1>2, <1>4, SubscribeIs
  <2>2. OurDeviceJid(Caller, k) = OurDeviceJid(Caller, m) /\ RawPeer(Caller, k) = RawPeer(Caller, m)
    BY <1>1, <1>4, <2>1 DEF OurDeviceJid, RawPeer, SameCall
  <2>3. CallerIs(k)
    BY <1>1, <1>3, <1>4, <2>1, <2>2 DEF CallerIs, KeysAreOfCall, SameCall
  <2> QED
    BY <1>1, <1>4, <2>1, <2>3 DEF SameCall
<1>5. CASE l # <<>>
  <2> DEFINE named == IF listed = Nobody THEN n.peer ELSE EnsureDeviceJid(listed)
  <2>1. /\ IsManager(o) /\ SameCall(n, o) /\ o.self = OurDeviceJid(Caller, n) /\ o.actualPeer = n.actualPeer
        /\ o.peer = named
    BY <1>0, <1>1, <1>30, <1>5, FromParticipantsIs
  <2> HIDE DEF o
  <2>2. /\ IsManager(q) /\ SameCall(o, q) /\ q.self = o.self /\ q.actualPeer = o.actualPeer
        /\ q.peer = o.peer
        /\ KeysAreOfCall(Caller, q) /\ q.send # NoKey
    <3>1. o.hasKey
      BY <1>1, <1>3, <2>1 DEF SameCall
    <3> QED
      BY <2>1, <3>1, InitSrtpKeysIs, KeysAreDerived
  <2> HIDE DEF q
  <2>3. /\ IsManager(k) /\ SameCall(q, k) /\ k.subscribed = q.peer /\ k.self = q.self /\ k.peer = q.peer
        /\ k.actualPeer = q.actualPeer /\ k.send = q.send /\ k.recv = q.recv
    BY <1>2, <1>5, <2>2, SubscribeIs
  <2>4. KeysAreOfCall(Caller, k)
    BY <2>2, <2>3, KeysOfCall DEF KeysAreOfCall
  <2>5. ListsOnlyThe(Caller, l) => k.self = Caller
    BY <1>1, <2>1, <2>2, <2>3, OurDeviceIs, DevicesAre
  <2>6. SameCall(n, k)
    BY <2>1, <2>2, <2>3 DEF SameCall
  <2>7. CallerIs(k)
    BY <1>1, <1>3, <2>2, <2>3, <2>4, <2>5, <2>6 DEF CallerIs, SameCall
  <2> QED
    <3>1. n.inCall /\ n.video = m.video /\ n.acceptedBy = m.acceptedBy /\ n.actualPeer = m.actualPeer
      BY <1>1, Zenon
    <3>2. k.inCall = n.inCall /\ k.video = n.video /\ k.acceptedBy = n.acceptedBy
      BY <2>6, Zenon DEF SameCall
    <3>3. k.actualPeer = n.actualPeer /\ IsManager(k)
      BY <2>1, <2>2, <2>3, Zenon
    <3>4. k.peer = IF l = <<>> \/ listed = Nobody THEN m.peer ELSE EnsureDeviceJid(listed)
      <4>1. k.peer = named /\ n.peer = m.peer
        BY <1>1, <2>1, <2>2, <2>3, Zenon
      <4> QED
        BY <1>5, <4>1
    <3> QED
      BY <2>7, <3>1, <3>2, <3>3, <3>4, Zenon
<1> QED
  BY <1>4, <1>5

LEMMA HandleCallAckKeeps ==
    ASSUME SigIInv, HandleCallAck
    PROVE  SigIInv'
<1>1. PICK s \in mail :
        /\ s.tag = "ack"
        /\ LET m == [side[Caller] EXCEPT !.endpoints = ParseRelays(s.relay),
                                         !.participants = ParticipantJids(s.list)]
               known == FromParticipants(Caller, m, FALSE)
           IN  SetSide(Caller, IF ParseRelays(s.relay) = <<>> THEN side[Caller]
                              ELSE IF m.participants = <<>> THEN Subscribe(m)
                              ELSE Subscribe(InitSrtpKeys(Caller, known)))
        /\ mail' = mail \ {s}
        /\ misled' = (ParseRelays(s.relay) # <<>> /\ Misleads(s.list))
        /\ answered' = answered
  BY DEF HandleCallAck
<1> DEFINE old == side[Caller]
           e == ParseRelays(s.relay)
           l == ParticipantJids(s.list)
           acked == Acked(old, e, l)
           listed == Listed(l)
           k == IF e = <<>> THEN old ELSE acked
<1>2. AckIs(s) /\ \A t \in mail : t.tag = "ack" => t = s
  BY <1>1 DEF SigIInv, MailIs
<1>3. IsList(l)
  <2> DEFINE S == {Caller[1], Callee[1]} \X Int
  <2>1. s.list \in Seq(S)
    BY <1>2 DEF AckIs
  <2> HIDE DEF S
  <2>2. l \in Seq(S)
    BY <2>1, ParticipantsAreListed
  <2> HIDE DEF l
  <2> QED
    BY <2>2 DEF IsList
<1>4. IsManager(old) /\ CallerIs(old) /\ old.inCall /\ old.participants = <<>>
  BY <1>2, DevicesAre DEF SigIInv, SidesAre, BeforeCall, AckIs
<1>5. Listing(old, e, l).participants = l
  BY <1>3, <1>4, ListingIs
<1>6. SetSide(Caller, k)
  BY <1>1, <1>5 DEF Listing, Acked
<1> HIDE DEF e, l, k
<1>7. /\ IsManager(acked) /\ CallerIs(acked) /\ acked.inCall /\ acked.video = old.video
      /\ acked.acceptedBy = old.acceptedBy /\ acked.actualPeer = old.actualPeer
      /\ acked.peer = IF l = <<>> \/ listed = Nobody THEN old.peer ELSE EnsureDeviceJid(listed)
  <2> HIDE DEF old
  <2> QED
    BY <1>3, <1>4, AckingIs
<1> HIDE DEF acked, listed
<1>8. /\ IsManager(k) /\ CallerIs(k) /\ k.inCall /\ k.video = old.video
      /\ k.acceptedBy = old.acceptedBy /\ k.actualPeer = old.actualPeer
      /\ e = <<>> => k = old
      /\ k.peer = IF e = <<>> \/ l = <<>> \/ listed = Nobody THEN old.peer ELSE EnsureDeviceJid(listed)
  BY <1>4, <1>7 DEF k
<1>9. /\ SidesAre' /\ BeforeCall' /\ CallerIs(side'[Caller])
      /\ \A f \in Answerers :
            /\ AnswererIs(f, side'[f]) /\ AnswererHears(f)'
            /\ side'[f].inCall => side'[f].video = side'[Caller].video
      /\ side'[Caller] = k /\ \A f \in Answerers : side'[f] = side[f]
      /\ \A t : OfferIs(t) => OfferIs(t)'
  BY <1>4, <1>6, <1>8, CallerSteps
<1>10. MailIs'
  <2>1. ASSUME NEW t \in mail' PROVE t \in mail /\ t.tag # "ack"
    BY <1>1, <1>2
  <2> QED
    BY <1>1, <1>9, <2>1 DEF SigIInv, MailIs, AcceptIs
<1>11. AnsweredIs'
  BY <1>1, <1>8, <1>9 DEF SigIInv, AnsweredIs
<1>12. PeerIs'
  <2> SUFFICES ASSUME answered' # Nobody, ~misled',
                      side'[Caller].acceptedBy # Nobody \/ side'[Caller].actualPeer,
                      answered'[2] # 0, ListsOnlyThe(answered', side'[answered'].participants)
               PROVE  side'[Caller].peer = answered'
    BY DEF PeerIs
  <2>1. answered' = answered /\ answered \in Answerers /\ side'[answered] = side[answered]
    BY <1>1, <1>9 DEF SigIInv, AnsweredIs
  <2>2. old.acceptedBy = JidString(answered) /\ old.acceptedBy # Nobody
    <3>1. old.acceptedBy # Nobody \/ old.actualPeer
      BY <1>8, <1>9
    <3>2. old.acceptedBy # Nobody
      BY <1>2, <3>1 DEF AckIs
    <3> QED
      BY <2>1, <3>2 DEF SigIInv, AnsweredIs
  <2>3. old.peer = answered
    BY <1>2, <2>1, <2>2 DEF SigIInv, PeerIs, AckIs
  <2>4. e # <<>> /\ listed # Nobody => EnsureDeviceJid(listed) = answered
    <3>1. misled' = (e # <<>> /\ Misleads(s.list))
      BY <1>1 DEF e
    <3>2. EnsureDeviceJid(old.acceptedBy) = answered
      BY <2>1, <2>2, DevicesAre, JidOfString
    <3> QED
      BY <2>2, <3>1, <3>2 DEF Misleads, Listed, listed, l
  <2> QED
    BY <1>8, <1>9, <2>1, <2>3, <2>4
<1> QED
  BY <1>9, <1>10, <1>11, <1>12 DEF SigIInv

Accepted(m, from, p) == [m EXCEPT !.acceptedBy = from, !.peer = p]

\* HandleCallAccept.
LEMMA AcceptedIs ==
    ASSUME NEW m, NEW from, NEW p, NEW k, IsManager(m), CallerIs(m), m.inCall, from # Nobody,
           k = InitSrtpKeys(Caller, Subscribe(Accepted(m, from, p)))
    PROVE  /\ IsManager(k) /\ CallerIs(k) /\ k.inCall /\ k.video = m.video
           /\ k.participants = m.participants /\ k.acceptedBy = from /\ k.peer = p
<1> DEFINE n == Accepted(m, from, p)
           o == Subscribe(n)
<1>1. /\ IsManager(n) /\ n.inCall /\ (n.hasKey <=> m.hasKey) /\ n.video = m.video
      /\ n.participants = m.participants /\ n.acceptedBy = from /\ n.peer = p /\ n.self = m.self
  BY DEF Accepted, IsManager, Fields
<1>2. m.hasKey
  BY DEF CallerIs
<1> HIDE DEF n
<1>3. IsManager(o) /\ SameCall(n, o) /\ o.subscribed = p /\ o.peer = p /\ o.self = n.self
  BY <1>1, SubscribeIs
<1>4. k = InitSrtpKeys(Caller, o) /\ o.hasKey
  BY <1>1, <1>2, <1>3 DEF SameCall, n
<1> HIDE DEF o
<1>5. /\ IsManager(k) /\ SameCall(o, k) /\ k.subscribed = p /\ k.peer = p /\ k.self = n.self
      /\ KeysAreOfCall(Caller, k) /\ k.send # NoKey
  BY <1>3, <1>4, InitSrtpKeysIs, KeysAreDerived
<1>6. /\ k.inCall /\ k.hasKey /\ k.video = m.video /\ k.participants = m.participants /\ k.acceptedBy = from
      /\ k.self = m.self
  BY <1>1, <1>2, <1>3, <1>5 DEF SameCall
<1>7. CallerIs(k)
  BY <1>5, <1>6 DEF CallerIs
<1> QED
  BY <1>5, <1>6, <1>7

LEMMA HandleCallAcceptKeeps ==
    ASSUME SigIInv, HandleCallAccept
    PROVE  SigIInv'
<1>1. PICK s \in mail :
        /\ s.tag = "accept"
        /\ LET from == JidString(s.from)
               m == [side[Caller] EXCEPT !.acceptedBy = from, !.peer = AcceptedPeer(side[Caller], from)]
           IN  SetSide(Caller, InitSrtpKeys(Caller, Subscribe(m)))
        /\ mail' = mail \ {s}
        /\ answered' = answered /\ misled' = misled
  BY DEF HandleCallAccept
<1> DEFINE old == side[Caller]
           from == JidString(s.from)
           p == AcceptedPeer(old, from)
           k == InitSrtpKeys(Caller, Subscribe(Accepted(old, from, p)))
<1>2. SetSide(Caller, k)
  BY <1>1 DEF Accepted
<1>3. s.from = answered /\ answered \in Answerers /\ IsJid(answered) /\ answered # Nobody
  BY <1>1, DevicesAre DEF SigIInv, MailIs, AcceptIs
<1>4. from = JidString(answered) /\ from # Nobody /\ EnsureDeviceJid(from) = answered
  BY <1>3, JidOfString
<1>5. IsManager(old) /\ CallerIs(old) /\ old.inCall
  BY <1>1, DevicesAre DEF SigIInv, SidesAre, BeforeCall
<1>6. p = IF old.actualPeer THEN old.peer ELSE answered
  BY <1>4 DEF AcceptedPeer, GenerateSecureSsrc
<1>7. /\ IsManager(k) /\ CallerIs(k) /\ k.inCall /\ k.video = old.video
      /\ k.participants = old.participants /\ k.acceptedBy = from /\ k.peer = p
  <2> HIDE DEF old, from, p
  <2> QED
    BY <1>4, <1>5, AcceptedIs
<1> HIDE DEF k, from, p
<1>8. /\ SidesAre' /\ BeforeCall' /\ CallerIs(side'[Caller])
      /\ \A f \in Answerers :
            /\ AnswererIs(f, side'[f]) /\ AnswererHears(f)'
            /\ side'[f].inCall => side'[f].video = side'[Caller].video
      /\ side'[Caller] = k /\ \A f \in Answerers : side'[f] = side[f]
      /\ \A t : OfferIs(t) => OfferIs(t)'
  BY <1>2, <1>7, CallerSteps
<1>9. MailIs'
  <2>1. ASSUME NEW t \in mail', t.tag = "ack" PROVE AckIs(t)'
    <3>1. AckIs(t)
      BY <1>1, <2>1 DEF SigIInv, MailIs
    <3> QED
      BY <1>1, <1>4, <1>7, <1>8, <3>1 DEF AckIs
  <2> QED
    BY <1>1, <1>8, <2>1 DEF SigIInv, MailIs, AcceptIs
<1>10. AnsweredIs'
  BY <1>1, <1>3, <1>4, <1>7, <1>8 DEF SigIInv, AnsweredIs
<1>11. PeerIs'
  <2>1. CASE old.actualPeer
    BY <1>1, <1>3, <1>6, <1>7, <1>8, <2>1 DEF SigIInv, PeerIs
  <2>2. CASE ~old.actualPeer
    BY <1>1, <1>6, <1>7, <1>8, <2>2 DEF PeerIs
  <2> QED
    BY <2>1, <2>2
<1> QED
  BY <1>8, <1>9, <1>10, <1>11 DEF SigIInv

Hearing(m) == [m EXCEPT !.actualPeer = TRUE]
Following(m, s) == [m EXCEPT !.peer = s, !.subscribed = s]
Heard(m, s) == IF m.peer = s THEN Hearing(m) ELSE Following(Hearing(m), s)

\* handleAudioRelayData.
LEMMA HearingIs ==
    ASSUME NEW x, NEW m, NEW s, NEW k, IsManager(m), k = Heard(m, s)
    PROVE  /\ IsManager(k) /\ SameCall(m, k) /\ k.peer = s /\ k.actualPeer
           /\ k.self = m.self /\ k.send = m.send /\ k.recv = m.recv
           /\ k.subscribed = IF m.peer = s THEN m.subscribed ELSE s
           /\ KeysAreOfCall(x, m) => KeysAreOfCall(x, k)
<1>1. CASE m.peer = s
  <2>1. /\ IsManager(k) /\ SameCall(m, k) /\ k.peer = s /\ k.actualPeer
        /\ k.self = m.self /\ k.send = m.send /\ k.recv = m.recv /\ k.subscribed = m.subscribed
    BY <1>1 DEF Heard, Hearing, IsManager, SameCall, Fields
  <2> QED
    BY <1>1, <2>1, KeysOfCall DEF KeysAreOfCall
<1>2. CASE m.peer # s
  <2> DEFINE h == Hearing(m)
  <2>1. /\ IsManager(h) /\ SameCall(m, h) /\ h.actualPeer
        /\ h.self = m.self /\ h.send = m.send /\ h.recv = m.recv
    BY DEF Hearing, IsManager, SameCall, Fields
  <2> HIDE DEF h
  <2>2. k = Following(h, s)
    BY <1>2 DEF Heard, h
  <2>3. /\ IsManager(k) /\ SameCall(h, k) /\ k.peer = s /\ k.subscribed = s /\ k.actualPeer
        /\ k.self = h.self /\ k.send = h.send /\ k.recv = h.recv
    BY <2>1, <2>2 DEF Following, IsManager, SameCall, Fields
  <2>4. SameCall(m, k)
    BY <2>1, <2>3 DEF SameCall
  <2> QED
    BY <1>2, <2>1, <2>3, <2>4, KeysOfCall DEF KeysAreOfCall
<1> QED
  BY <1>1, <1>2

LEMMA HandleAudioKeeps ==
    ASSUME NEW x \in Devices, NEW y \in Devices, x # y, SigIInv, HandleAudio(x, y)
    PROVE  SigIInv'
<1> DEFINE old == side[x]
           s == side[y].self
           k == Heard(old, s)
<1>1. /\ old.send # NoKey /\ side[y].send # NoKey /\ {x, y} = {Caller, answered}
      /\ mail' = mail /\ answered' = answered /\ misled' = IF x = Caller THEN FALSE ELSE misled
  BY DEF HandleAudio
<1>2. IsManager(old)
  BY DEF SigIInv, SidesAre
<1>3. SetSide(x, k)
  <2>1. SetSide(x, LET knows == [side[x] EXCEPT !.actualPeer = TRUE]
                   IN  IF side[x].peer = side[y].self THEN knows
                       ELSE [knows EXCEPT !.peer = side[y].self, !.subscribed = side[y].self])
    BY DEF HandleAudio
  <2> QED
    BY <2>1 DEF Heard, Hearing, Following
<1>4. /\ IsManager(k) /\ SameCall(old, k) /\ k.peer = s /\ k.actualPeer
      /\ k.self = old.self /\ k.send = old.send /\ k.recv = old.recv
      /\ k.subscribed = IF old.peer = s THEN old.subscribed ELSE s
      /\ KeysAreOfCall(x, old) => KeysAreOfCall(x, k)
  <2>1. k = Heard(old, s)
    OBVIOUS
  <2> HIDE DEF old, s, k
  <2> QED
    BY <1>2, <2>1, HearingIs
<1> HIDE DEF k
<1>5. answered \in Answerers /\ side[answered].inCall
  BY <1>1, DevicesAre DEF SigIInv, AnsweredIs
<1>6. side[Caller].inCall
  BY <1>5 DEF SigIInv, BeforeCall
<1>7. CASE x = Caller
  <2>1. y = answered
    BY <1>1, <1>5, <1>7, DevicesAre
  <2>2. /\ k.inCall /\ k.video = old.video /\ k.participants = old.participants
        /\ k.acceptedBy = old.acceptedBy /\ CallerIs(k)
    <3>1. CallerIs(old) /\ old.inCall
      BY <1>6, <1>7 DEF SigIInv
    <3>2. k.subscribed = k.peer
      BY <1>1, <1>4, <3>1 DEF CallerIs
    <3> HIDE DEF old, s
    <3> QED
      BY <1>4, <1>7, <3>1, <3>2 DEF CallerIs, SameCall
  <2>3. /\ SidesAre' /\ BeforeCall' /\ CallerIs(side'[Caller])
        /\ \A f \in Answerers :
              /\ AnswererIs(f, side'[f]) /\ AnswererHears(f)'
              /\ side'[f].inCall => side'[f].video = side'[Caller].video
        /\ side'[Caller] = k /\ \A f \in Answerers : side'[f] = side[f]
        /\ \A t : OfferIs(t) => OfferIs(t)'
    BY <1>3, <1>4, <1>7, <2>2, CallerSteps
  <2>4. MailIs'
    <3>1. ASSUME NEW t \in mail', t.tag = "ack" PROVE AckIs(t)'
      <4>1. AckIs(t)
        BY <1>1, <3>1 DEF SigIInv, MailIs
      <4> QED
        BY <1>1, <1>7, <2>2, <2>3, <4>1 DEF AckIs
    <3> QED
      BY <1>1, <2>3, <3>1 DEF SigIInv, MailIs, AcceptIs
  <2>5. AnsweredIs'
    BY <1>1, <1>5, <1>7, <2>2, <2>3, DevicesAre DEF SigIInv, AnsweredIs
  <2>6. PeerIs'
    <3>1. AnswererIs(answered, side[answered])
      BY <1>5 DEF SigIInv
    <3> QED
      BY <1>1, <1>4, <1>5, <2>1, <2>3, <3>1 DEF PeerIs, AnswererIs
  <2> QED
    BY <2>3, <2>4, <2>5, <2>6 DEF SigIInv
<1>8. CASE x # Caller
  <2>1. x = answered /\ y = Caller /\ x \in Answerers
    BY <1>1, <1>5, <1>8
  <2>2. AnswererIs(x, old) /\ AnswererHears(x) /\ old.inCall /\ old.video = side[Caller].video
    BY <1>5, <2>1 DEF SigIInv
  <2>3. AnswererIs(x, k) /\ k.inCall /\ k.video = old.video /\ k.participants = old.participants
    <3> HIDE DEF old, s
    <3> QED
      BY <1>1, <1>4, <2>2 DEF AnswererIs, SameCall
  <2>4. ListsOnlyThe(Caller, k.participants) /\ ListsOnlyThe(Caller, side[Caller].participants)
          => k.subscribed = Caller
    <3>1. CallerIs(side[Caller])
      BY DEF SigIInv
    <3> QED
      BY <1>1, <1>4, <1>6, <2>1, <2>2, <2>3, <3>1 DEF AnswererHears, CallerIs
  <2>5. /\ SidesAre' /\ BeforeCall' /\ AnsweredIs' /\ PeerIs' /\ CallerIs(side'[Caller])
        /\ \A f \in Answerers :
              /\ AnswererIs(f, side'[f]) /\ AnswererHears(f)'
              /\ side'[f].inCall => side'[f].video = side'[Caller].video
        /\ side'[Caller] = side[Caller] /\ side'[x] = k
        /\ \A f \in Answerers : f # x => side'[f] = side[f]
    BY <1>1, <1>3, <1>4, <1>6, <2>1, <2>2, <2>3, <2>4, AnswererSteps
  <2>6. MailIs'
    <3>1. ASSUME NEW t \in mail, t.tag = "offer" PROVE OfferIs(t)'
      <4>1. OfferIs(t) /\ t.to # x
        BY <1>5, <2>1, <3>1 DEF SigIInv, MailIs, OfferIs
      <4> QED
        BY <2>5, <4>1 DEF OfferIs
    <3>2. ASSUME NEW t \in mail, t.tag = "ack" PROVE AckIs(t)'
      BY <1>1, <2>5, <3>2 DEF SigIInv, MailIs, AckIs
    <3> QED
      BY <1>1, <3>1, <3>2 DEF SigIInv, MailIs, AcceptIs
  <2> QED
    BY <2>5, <2>6 DEF SigIInv
<1> QED
  BY <1>7, <1>8

LEMMA SigStep == SigIInv /\ [SigNext]_sigVars => SigIInv'
<1> SUFFICES ASSUME SigIInv, [SigNext]_sigVars PROVE SigIInv'
  OBVIOUS
<1>1. CASE UNCHANGED sigVars
  BY <1>1 DEF sigVars, SigIInv, SidesAre, BeforeCall, MailIs, OfferIs, AckIs, AcceptIs, AnsweredIs, PeerIs,
              AnswererHears
<1>2. ASSUME SigNext PROVE SigIInv'
  <2>1. CASE \E devices \in OfferedTo, video \in BOOLEAN : StartCall(devices, video)
    BY <2>1, StartCallKeeps
  <2>2. CASE QueryTimesOut
    BY <2>2, QueryTimesOutKeeps
  <2>3. CASE \E d \in Answerers : HandleCallOffer(d)
    BY <2>3, HandleCallOfferKeeps
  <2>4. CASE \E d \in Answerers : AcceptCall(d)
    BY <2>4, AcceptCallKeeps
  <2>5. CASE HandleCallAck
    BY <2>5, HandleCallAckKeeps
  <2>6. CASE HandleCallAccept
    BY <2>6, HandleCallAcceptKeeps
  <2>7. CASE \E x, y \in Devices : x # y /\ HandleAudio(x, y)
    BY <2>7, HandleAudioKeeps
  <2> QED
    BY <1>2, <2>1, <2>2, <2>3, <2>4, <2>5, <2>6, <2>7 DEF SigNext
<1> QED
  BY <1>1, <1>2

\* What each end has for the other once they are connected.
LEMMA ConnectedIs ==
    ASSUME NEW d \in Answerers, SigIInv, Connected(d), side[d].send # NoKey
    PROVE  /\ d = answered /\ side[d].inCall /\ side[Caller].inCall
           /\ side[Caller].send = DerivePerJidSrtpKey(Caller) /\ side[Caller].recv = DerivePerJidSrtpKey(d)
           /\ side[d].send = DerivePerJidSrtpKey(d) /\ side[d].recv = DerivePerJidSrtpKey(Caller)
           /\ side[Caller].subscribed = side[Caller].peer
<1> DEFINE c == side[Caller]
           m == side[d]
<1>1. IsManager(c) /\ IsManager(m) /\ CallerIs(c) /\ AnswererIs(d, m)
  BY DevicesAre DEF SigIInv, SidesAre
<1>2. IsList(c.participants) /\ IsList(m.participants)
  BY <1>1 DEF IsManager
<1>3. JidString(d) # Nobody /\ EnsureDeviceJid(JidString(d)) = d
  BY DevicesAre, JidOfString
<1>4. c.acceptedBy = JidString(d) /\ c.acceptedBy # Nobody
  BY <1>3 DEF Connected
<1>5. answered # Nobody /\ JidString(answered) = JidString(d) /\ answered \in Answerers
  BY <1>4 DEF SigIInv, AnsweredIs
<1>6. answered = d
  BY <1>3, <1>5, DevicesAre, JidOfString
<1>7. c.inCall /\ m.inCall
  BY <1>5, <1>6 DEF SigIInv, AnsweredIs, BeforeCall
<1>8. KeysAreOfCall(Caller, c) /\ c.subscribed = c.peer /\ KeysAreOfCall(d, m)
  BY <1>1, <1>4 DEF CallerIs, AnswererIs
<1>9. OurDeviceJid(Caller, c) = Caller /\ OurDeviceJid(d, m) = d
  <2> HIDE DEF c, m
  <2> QED
    BY <1>2, OurDeviceIs, DevicesAre DEF Connected, c, m
<1>10. RawPeer(Caller, c) = JidString(d)
  BY <1>4 DEF RawPeer
<1>11. EnsureDeviceJid(RawPeer(d, m)) = Caller
  <2> DEFINE listed == FirstPeerDevice(m.participants, CleanJID(JidString(d)))
  <2>1. listed = Nobody \/ EnsureDeviceJid(listed) = Caller
    BY <1>1, <1>2, PeerDeviceIs DEF Connected, AnswererIs
  <2>2. m.acceptedBy = Nobody /\ m.peerJid = Caller
    BY <1>1, <1>7 DEF AnswererIs
  <2>3. RawPeer(d, m) = IF listed # Nobody THEN listed ELSE Caller
    BY <2>2 DEF RawPeer
  <2>4. EnsureDeviceJid(Caller) = Caller
    BY DevicesAre, JidOfString
  <2> HIDE DEF listed
  <2> QED
    BY <2>1, <2>3, <2>4
<1> QED
  BY <1>3, <1>6, <1>7, <1>8, <1>9, <1>10, <1>11 DEF KeysAreOfCall

LEMMA CrossedAre == SigIInv => KeysCross /\ SubscribedToPeer
<1> SUFFICES ASSUME SigIInv PROVE KeysCross /\ SubscribedToPeer
  OBVIOUS
<1>1. KeysCross
  <2> SUFFICES ASSUME NEW d \in Answerers, Connected(d), side[d].send # NoKey
               PROVE  /\ side[Caller].send = side[d].recv /\ side[Caller].recv = side[d].send
                      /\ side[Caller].video = side[d].video
    BY DEF KeysCross
  <2> QED
    BY ConnectedIs DEF SigIInv
<1>2. SubscribedToPeer
  <2> SUFFICES ASSUME NEW d \in Answerers, Connected(d), d[2] # 0, side[d].send # NoKey
               PROVE  /\ side[d].subscribed = side[Caller].self
                      /\ side[Caller].subscribed = side[d].self \/ misled
    BY DEF SubscribedToPeer
  <2>1. d = answered /\ side[d].inCall /\ side[Caller].inCall /\ side[Caller].subscribed = side[Caller].peer
    BY ConnectedIs
  <2>2. CallerIs(side[Caller]) /\ AnswererIs(d, side[d]) /\ AnswererHears(d) /\ PeerIs
    BY DEF SigIInv
  <2>3. side[Caller].self = Caller /\ side[d].self = d
    BY <2>1, <2>2 DEF CallerIs, AnswererIs, Connected
  <2>4. side[d].subscribed = Caller
    BY <2>2 DEF AnswererHears, Connected
  <2>5. side[Caller].acceptedBy # Nobody
    BY DevicesAre, JidOfString DEF Connected
  <2>6. side[Caller].peer = d \/ misled
    BY <2>1, <2>2, <2>5, DevicesAre DEF PeerIs, Connected
  <2> QED
    BY <2>1, <2>3, <2>4, <2>6
<1> QED
  BY <1>1, <1>2

\* For all users, devices and lists a server may send, in every order of the
\* ack, the accept and the first sound: each end opens what the other seals, and
\* they agree on audio or video (initSrtpKeysLocked).
THEOREM KeysAreCrossed == SigSpec => []KeysCross
<1>1. SigInit => SigIInv
  BY SigStart
<1>2. SigIInv /\ [SigNext]_sigVars => SigIInv'
  BY SigStep
<1>3. SigIInv => KeysCross
  BY CrossedAre
<1> QED
  BY <1>1, <1>2, <1>3, PTL DEF SigSpec

\* For all of them, each end asks the relay for the stream the other end sends,
\* unless the ack came after the accept, with another of the peer's devices
\* first, and no sound has told the caller since (connectRelays, HandleCallAck).
THEOREM StreamsAreCrossed == SigSpec => []SubscribedToPeer
<1>1. SigInit => SigIInv
  BY SigStart
<1>2. SigIInv /\ [SigNext]_sigVars => SigIInv'
  BY SigStep
<1>3. SigIInv => SubscribedToPeer
  BY CrossedAre
<1> QED
  BY <1>1, <1>2, <1>3, PTL DEF SigSpec

-----------------------------------------------------------------------------
(* Signaling: relays.                                                      *)

\* A finite set of numbers has a greatest.
LEMMA LastExists ==
    ASSUME NEW n \in Nat, NEW T \in SUBSET (1 .. n), T # {}
    PROVE  Max(T) \in T /\ \A y \in T : y <= Max(T)
<1> DEFINE U == {n - y : y \in T}
<1>1. ASSUME NEW y \in T PROVE y \in Nat /\ y <= n /\ n - y \in U /\ n - y \in Nat
  <2>1. y \in 1 .. n
    OBVIOUS
  <2>2. y \in Nat /\ y <= n /\ n - y \in Nat
    BY <2>1
  <2>3. n - y \in U
    OBVIOUS
  <2> QED
    BY <2>2, <2>3
<1>2. U \in SUBSET Nat /\ U # {}
  BY <1>1
<1>3. PICK u \in U : \A v \in U : ~ (<<v, u>> \in OpToRel(<, Nat))
  <2> HIDE DEF U
  <2> QED
    BY <1>2, WFMin, NatLessThanWellFounded
<1>4. PICK x \in T : u = n - x
  BY <1>3
<1>5. ASSUME NEW y \in T PROVE x >= y
  <2>1. <<n - y, u>> \in Nat \X Nat /\ <<n - y, u>>[1] = n - y /\ <<n - y, u>>[2] = u /\ n - y \in U
    BY <1>1, <1>4
  <2>2. ~ (n - y < u)
    BY <1>3, <2>1 DEF OpToRel
  <2> QED
    BY <1>1, <1>4, <2>2
<1>6. Max(T) \in T /\ \A y \in T : Max(T) >= y
  BY <1>4, <1>5 DEF Max
<1> QED
  BY <1>1, <1>6

\* The place of an element of a set under an order: how many are ahead of it.
Ahead(S, R, i) == {j \in S : <<j, i>> \in R}
Orders(R, S) ==
    /\ \A i \in S : <<i, i>> \notin R
    /\ \A i, j, k \in S : <<i, j>> \in R /\ <<j, k>> \in R => <<i, k>> \in R
    /\ \A i, j \in S : i = j \/ <<i, j>> \in R \/ <<j, i>> \in R

\* In a finite order every place is taken.
LEMMA PlacesAreTaken ==
    ASSUME NEW S, IsFiniteSet(S), NEW R, Orders(R, S)
    PROVE  /\ Cardinality(S) \in Nat
           /\ \A i, j \in S : Cardinality(Ahead(S, R, i)) < Cardinality(Ahead(S, R, j)) <=> <<i, j>> \in R
           /\ \A i \in S : Cardinality(Ahead(S, R, i)) + 1 \in 1 .. Cardinality(S)
           /\ \A k \in 1 .. Cardinality(S) : \E i \in S : Cardinality(Ahead(S, R, i)) = k - 1
<1> DEFINE c == Cardinality(S)
           rank == [i \in S |-> Cardinality(Ahead(S, R, i))]
<1>1. c \in Nat
  BY FS_CardinalityType
<1>2. ASSUME NEW i \in S
      PROVE  /\ Ahead(S, R, i) \in SUBSET S /\ IsFiniteSet(Ahead(S, R, i)) /\ rank[i] \in Nat
             /\ rank[i] < c
  <2>1. Ahead(S, R, i) \in SUBSET S /\ i \notin Ahead(S, R, i)
    BY DEF Ahead, Orders
  <2>2. /\ IsFiniteSet(Ahead(S, R, i)) /\ Cardinality(Ahead(S, R, i)) <= c
        /\ Cardinality(Ahead(S, R, i)) = c => Ahead(S, R, i) = S
    BY <2>1, FS_Subset
  <2>3. Cardinality(Ahead(S, R, i)) \in Nat
    BY <2>2, FS_CardinalityType
  <2> QED
    BY <1>1, <2>1, <2>2, <2>3
<1>3. ASSUME NEW i \in S, NEW j \in S, <<i, j>> \in R
      PROVE  rank[i] < rank[j]
  <2>1. Ahead(S, R, i) \in SUBSET Ahead(S, R, j) /\ i \in Ahead(S, R, j) /\ i \notin Ahead(S, R, i)
    BY <1>3 DEF Ahead, Orders
  <2>2. /\ Cardinality(Ahead(S, R, i)) <= Cardinality(Ahead(S, R, j))
        /\ Cardinality(Ahead(S, R, j)) = Cardinality(Ahead(S, R, i)) => Ahead(S, R, j) = Ahead(S, R, i)
    BY <1>2, <2>1, FS_Subset
  <2> QED
    BY <1>2, <2>1, <2>2
<1> HIDE DEF c
<1>4. rank \in [S -> 0 .. c - 1]
  BY <1>1, <1>2
<1>11. \A i \in S : rank[i] = Cardinality(Ahead(S, R, i))
  OBVIOUS
<1> HIDE DEF rank
<1>12. \A i, j \in S : i = j \/ <<i, j>> \in R \/ <<j, i>> \in R
  BY DEF Orders
<1>13. \A i \in S : rank[i] \in Nat
  BY <1>2
<1>14. \A i, j \in S : i = j \/ rank[i] < rank[j] \/ rank[j] < rank[i]
  BY <1>3, <1>12
<1>5. \A i, j \in S : rank[i] = rank[j] => i = j
  BY <1>13, <1>14
<1>6. rank \in Injection(S, 0 .. c - 1)
  BY <1>4, <1>5 DEF Injection, IsInjective
<1>7. IsFiniteSet(0 .. c - 1) /\ Cardinality(0 .. c - 1) = c
  BY <1>1, FS_Interval
<1>8. rank \in Surjection(S, 0 .. c - 1)
  BY <1>6, <1>7, FS_Injection DEF c
<1>9. ASSUME NEW k \in 1 .. c PROVE \E i \in S : rank[i] = k - 1
  <2>1. k - 1 \in 0 .. c - 1
    BY <1>1
  <2> QED
    BY <1>8, <2>1 DEF Surjection
<1>10. ASSUME NEW i \in S, NEW j \in S, rank[i] < rank[j] PROVE <<i, j>> \in R
  <2>1. ~ (rank[j] < rank[i]) /\ i # j
    BY <1>10, <1>13
  <2> QED
    BY <1>3, <1>12, <2>1
<1>15. \A i \in S : rank[i] + 1 \in 1 .. c
  BY <1>1, <1>2, <1>13
<1> QED
  BY <1>1, <1>3, <1>9, <1>10, <1>11, <1>15 DEF c

HasRtt(list, at) == \A i \in at : list[i].rtt \in Nat \cup {None}

\* The places in order are the places, each once, none behind one it stands before.
LEMMA OrderIs ==
    ASSUME NEW list, NEW n \in Nat, NEW at \in SUBSET (1 .. n), HasRtt(list, at)
    PROVE  LET order == SortRelaysByRtt(list, at) IN
           /\ Cardinality(at) \in Nat /\ order \in [1 .. Cardinality(at) -> at]
           /\ \A i \in at : \E k \in 1 .. Cardinality(at) : order[k] = i
           /\ \A k, l \in 1 .. Cardinality(at) : k < l => StandsBefore(list, order[k], order[l])
<1> DEFINE R == {x \in at \X at : StandsBefore(list, x[1], x[2])}
           order == SortRelaysByRtt(list, at)
           c == Cardinality(at)
<1>1. \A i, j \in at : <<i, j>> \in R <=> StandsBefore(list, i, j)
  OBVIOUS
<1>2. IsFiniteSet(at)
  <2>1. IsFiniteSet(1 .. n)
    BY FS_Interval
  <2> QED
    BY <2>1, FS_Subset
<1>3. \A i \in at : Ahead(at, R, i) = {j \in at : StandsBefore(list, j, i)}
  BY DEF Ahead
<1>4. Orders(R, at)
  <2>1. \A i, j \in at : i \in Nat /\ (StandsBefore(list, i, j) <=>
          \/ list[i].rtt # None /\ (list[j].rtt = None \/ list[i].rtt < list[j].rtt)
          \/ list[i].rtt = list[j].rtt /\ i < j)
    BY DEF StandsBefore, LessRtt, HasRtt, None
  <2> HIDE DEF R
  <2>2. \A i \in at : list[i].rtt \in Nat \/ list[i].rtt = None
    BY DEF HasRtt
  <2>3. ASSUME NEW i \in at PROVE <<i, i>> \notin R
    <3>1. i \in Nat /\ (StandsBefore(list, i, i) <=>
            \/ list[i].rtt # None /\ (list[i].rtt = None \/ list[i].rtt < list[i].rtt)
            \/ list[i].rtt = list[i].rtt /\ i < i)
      BY <2>1
    <3>2. PICK r : r = list[i].rtt
      OBVIOUS
    <3>3. (r \in Nat => ~(r < r)) /\ ~(i < i) /\ (r \in Nat \/ r = None)
      BY <2>2, <3>1, <3>2
    <3>4. ~StandsBefore(list, i, i)
      BY <3>1, <3>2, <3>3
    <3> QED
      BY <1>1, <3>4
  <2>4. ASSUME NEW i \in at, NEW j \in at PROVE i = j \/ <<i, j>> \in R \/ <<j, i>> \in R
    <3>1. i \in Nat /\ j \in Nat
      BY <2>1
    <3>2. list[i].rtt = list[j].rtt \/ (list[i].rtt # None /\ (list[j].rtt = None \/ list[i].rtt < list[j].rtt))
            \/ (list[j].rtt # None /\ (list[i].rtt = None \/ list[j].rtt < list[i].rtt))
      BY <2>2
    <3> QED
      BY <1>1, <2>1, <3>1, <3>2
  <2>5. ASSUME NEW i \in at, NEW j \in at, NEW k \in at, <<i, j>> \in R, <<j, k>> \in R
        PROVE  <<i, k>> \in R
    <3> DEFINE a == list[i].rtt
               b == list[j].rtt
               e == list[k].rtt
    <3>1. /\ (a # None /\ (b = None \/ a < b)) \/ (a = b /\ i < j)
          /\ (b # None /\ (e = None \/ b < e)) \/ (b = e /\ j < k)
          /\ i \in Nat /\ j \in Nat /\ k \in Nat
      BY <1>1, <2>1, <2>5
    <3>2. (a \in Nat \/ a = None) /\ (b \in Nat \/ b = None) /\ (e \in Nat \/ e = None)
      BY <2>2
    <3>3. (a # None /\ (e = None \/ a < e)) \/ (a = e /\ i < k)
      <4> HIDE DEF a, b, e
      <4> QED
        BY <3>1, <3>2
    <3> QED
      BY <1>1, <2>1, <3>3
  <2> QED
    BY <2>3, <2>4, <2>5 DEF Orders
<1> HIDE DEF R
<1>5. /\ c \in Nat
      /\ \A i, j \in at : Cardinality(Ahead(at, R, i)) < Cardinality(Ahead(at, R, j)) <=> <<i, j>> \in R
      /\ \A i \in at : Cardinality(Ahead(at, R, i)) + 1 \in 1 .. c
      /\ \A k \in 1 .. c : \E i \in at : Cardinality(Ahead(at, R, i)) = k - 1
  BY <1>2, <1>4, PlacesAreTaken
<1>11. \A i \in at : Cardinality({j \in at : StandsBefore(list, j, i)}) = Cardinality(Ahead(at, R, i))
  BY <1>3
<1>6. order = [k \in 1 .. c |-> CHOOSE i \in at : Cardinality(Ahead(at, R, i)) = k - 1]
  <2>1. ASSUME NEW k \in 1 .. c
        PROVE  (CHOOSE i \in at : Cardinality({j \in at : StandsBefore(list, j, i)}) = k - 1)
                 = (CHOOSE i \in at : Cardinality(Ahead(at, R, i)) = k - 1)
    BY <1>11
  <2> DEFINE f(k) == CHOOSE i \in at : Cardinality({j \in at : StandsBefore(list, j, i)}) = k - 1
             g(k) == CHOOSE i \in at : Cardinality(Ahead(at, R, i)) = k - 1
  <2>2. \A k \in 1 .. c : f(k) = g(k)
    BY <2>1
  <2>3. order = [k \in 1 .. c |-> f(k)]
    BY DEF SortRelaysByRtt
  <2> HIDE DEF f, g, order, c
  <2>4. order = [k \in 1 .. c |-> g(k)]
    BY <2>2, <2>3
  <2> QED
    BY <2>4 DEF g
<1> HIDE DEF order, c
<1>7. \A k \in 1 .. c : order[k] \in at /\ Cardinality(Ahead(at, R, order[k])) = k - 1
  BY <1>5, <1>6
<1>8. order \in [1 .. c -> at]
  BY <1>6, <1>7
<1>9. ASSUME NEW k \in 1 .. c, NEW l \in 1 .. c, k < l PROVE StandsBefore(list, order[k], order[l])
  <2>1. order[k] \in at /\ order[l] \in at
    BY <1>7
  <2>2. Cardinality(Ahead(at, R, order[k])) < Cardinality(Ahead(at, R, order[l]))
    BY <1>5, <1>7, <1>9
  <2> QED
    BY <1>1, <1>5, <2>1, <2>2
<1>12. \A i \in at : Cardinality(Ahead(at, R, i)) \in Nat
  <2> SUFFICES ASSUME NEW i \in at PROVE Cardinality(Ahead(at, R, i)) \in Nat
    OBVIOUS
  <2>1. Ahead(at, R, i) \in SUBSET at
    BY DEF Ahead
  <2> QED
    BY <1>2, <2>1, FS_Subset, FS_CardinalityType
<1>10. ASSUME NEW i \in at PROVE \E k \in 1 .. c : order[k] = i
  <2>1. PICK k \in 1 .. c : Cardinality(Ahead(at, R, i)) + 1 = k
    BY <1>5
  <2>2. order[k] \in at /\ Cardinality(Ahead(at, R, order[k])) = Cardinality(Ahead(at, R, i))
    BY <1>5, <1>7, <1>12, <2>1
  <2>3. ~ (<<order[k], i>> \in R) /\ ~ (<<i, order[k]>> \in R)
    <3>1. Cardinality(Ahead(at, R, order[k])) = Cardinality(Ahead(at, R, i))
          /\ Cardinality(Ahead(at, R, i)) \in Nat
      BY <1>12, <2>2
    <3>2. ~ (Cardinality(Ahead(at, R, order[k])) < Cardinality(Ahead(at, R, i)))
          /\ ~ (Cardinality(Ahead(at, R, i)) < Cardinality(Ahead(at, R, order[k])))
      BY <3>1
    <3> QED
      BY <1>5, <2>2, <3>2
  <2> QED
    BY <1>4, <2>2, <2>3 DEF Orders
<1> QED
  BY <1>5, <1>8, <1>9, <1>10 DEF order, c

\* What TokenOf returns is what the last child with the tag and the id says.
Tok(children, tag, id) == {k \in DOMAIN children : children[k].tag = tag /\ AttrOr(children[k].id, 0) = id}
Is(children, v, ks) ==
    IF ks = {} THEN v = None ELSE \E k \in ks : children[k].val = v /\ \A l \in ks : l <= k

LEMMA TokenIs ==
    ASSUME NEW children, NEW n \in Nat, DOMAIN children = 1 .. n, NEW tag, NEW id
    PROVE  Is(children, TokenOf(children, tag, id), Tok(children, tag, id))
<1> DEFINE ks == Tok(children, tag, id)
<1>1. TokenOf(children, tag, id) = IF ks = {} THEN None ELSE children[Max(ks)].val
  BY DEF TokenOf, Tok
<1>2. ks \in SUBSET (1 .. n)
  BY DEF Tok
<1> HIDE DEF ks
<1>3. ks # {} => Max(ks) \in ks /\ \A y \in ks : y <= Max(ks)
  BY <1>2, LastExists
<1>4. Is(children, TokenOf(children, tag, id), ks)
  BY <1>1, <1>3 DEF Is
<1> QED
  BY <1>4 DEF ks

\* What a relay shows of the child it comes from.
Shows(children, r, i) ==
    LET c == children[i] IN
    /\ c.tag = "te2" /\ c.len = 6 /\ r.ip = c.val /\ r.rtt = c.rtt
    /\ Is(children, r.token, Tok(children, "token", AttrOr(c.id, 0)))
    /\ IF c.auth = None THEN r.auth = None
       ELSE Is(children, r.auth, Tok(children, "auth_token", c.auth))

LEMMA EndpointShows ==
    ASSUME NEW children, NEW n \in Nat, DOMAIN children = 1 .. n, NEW i \in 1 .. n,
           children[i].tag = "te2", children[i].len = 6
    PROVE  Shows(children, Endpoint(children, i), i)
<1>1. /\ Is(children, TokenOf(children, "token", AttrOr(children[i].id, 0)),
              Tok(children, "token", AttrOr(children[i].id, 0)))
      /\ Is(children, TokenOf(children, "auth_token", children[i].auth),
              Tok(children, "auth_token", children[i].auth))
  BY TokenIs
<1> QED
  BY <1>1 DEF Shows, Endpoint

\* The relays of a list, in order and none left out.
LEMMA ParsedAreComplete ==
    ASSUME NEW relay, NEW n \in Nat, DOMAIN relay = 1 .. n, HasRtt(relay, 1 .. n)
    PROVE  \E at \in [DOMAIN ParseRelays(relay) -> DOMAIN relay] :
             /\ \A k \in DOMAIN ParseRelays(relay) : Shows(relay, ParseRelays(relay)[k], at[k])
             /\ \A i \in DOMAIN relay :
                  relay[i].tag = "te2" /\ relay[i].len = 6 => \E k \in DOMAIN ParseRelays(relay) : at[k] = i
             /\ \A k, l \in DOMAIN ParseRelays(relay) : k < l => StandsBefore(relay, at[k], at[l])
<1> DEFINE them == {i \in DOMAIN relay : relay[i].tag = "te2" /\ relay[i].len = 6}
           order == SortRelaysByRtt(relay, them)
           c == Cardinality(them)
<1>1. them \in SUBSET (1 .. n) /\ HasRtt(relay, them)
  BY DEF HasRtt
<1>2. \A i \in them : i \in 1 .. n /\ Shows(relay, Endpoint(relay, i), i)
  BY EndpointShows
<1>3. \A i \in DOMAIN relay : relay[i].tag = "te2" /\ relay[i].len = 6 => i \in them
  OBVIOUS
<1>4. ParseRelays(relay) = [k \in DOMAIN order |-> Endpoint(relay, order[k])]
  BY DEF ParseRelays
<1> HIDE DEF them
<1>5. /\ c \in Nat /\ order \in [1 .. c -> them]
      /\ \A i \in them : \E k \in 1 .. c : order[k] = i
      /\ \A k, l \in 1 .. c : k < l => StandsBefore(relay, order[k], order[l])
  BY <1>1, OrderIs
<1> HIDE DEF order, c
<1>6. DOMAIN order = 1 .. c /\ \A k \in 1 .. c : order[k] \in them
  BY <1>5
<1>7. DOMAIN ParseRelays(relay) = 1 .. c /\ \A k \in 1 .. c : ParseRelays(relay)[k] = Endpoint(relay, order[k])
  BY <1>4, <1>6
<1>8. order \in [DOMAIN ParseRelays(relay) -> DOMAIN relay]
  BY <1>1, <1>5, <1>7
<1>9. \A k \in DOMAIN ParseRelays(relay) : Shows(relay, ParseRelays(relay)[k], order[k])
  BY <1>2, <1>6, <1>7
<1>10. \A i \in DOMAIN relay :
         relay[i].tag = "te2" /\ relay[i].len = 6 => \E k \in DOMAIN ParseRelays(relay) : order[k] = i
  BY <1>3, <1>5, <1>7
<1> QED
  BY <1>5, <1>7, <1>8, <1>9, <1>10

\* Every ack under way is one some server gave.
AcksAreGiven == \A s \in mail : s.tag = "ack" => \E server \in Servers : s.relay = server.relay

LEMMA AcksHold == SigSpec => []AcksAreGiven
<1>1. SigInit => AcksAreGiven
  BY DEF SigInit, AcksAreGiven
<1>2. AcksAreGiven /\ [SigNext]_sigVars => AcksAreGiven'
  <2> SUFFICES ASSUME AcksAreGiven, [SigNext]_sigVars PROVE AcksAreGiven'
    OBVIOUS
  <2>1. ASSUME NEW devices, NEW video, StartCall(devices, video) PROVE AcksAreGiven'
    BY <2>1 DEF StartCall, AcksAreGiven, OfferTo
  <2>2. ASSUME \A s \in mail' : s \in mail \/ s.tag # "ack" PROVE AcksAreGiven'
    BY <2>2 DEF AcksAreGiven
  <2>3. CASE QueryTimesOut
    BY <2>2, <2>3 DEF QueryTimesOut
  <2>4. ASSUME NEW d, HandleCallOffer(d) \/ AcceptCall(d) PROVE AcksAreGiven'
    <3>1. CASE HandleCallOffer(d)
      BY <2>2, <3>1 DEF HandleCallOffer
    <3>2. CASE AcceptCall(d)
      BY <2>2, <3>2 DEF AcceptCall
    <3> QED
      BY <2>4, <3>1, <3>2
  <2>5. CASE HandleCallAck
    BY <2>2, <2>5 DEF HandleCallAck
  <2>6. CASE HandleCallAccept
    BY <2>2, <2>6 DEF HandleCallAccept
  <2>7. ASSUME NEW x, NEW y, HandleAudio(x, y) PROVE AcksAreGiven'
    BY <2>2, <2>7 DEF HandleAudio
  <2>8. CASE UNCHANGED sigVars
    BY <2>2, <2>8 DEF sigVars
  <2> QED
    BY <2>1, <2>3, <2>4, <2>5, <2>6, <2>7, <2>8 DEF SigNext
<1> QED
  BY <1>1, <1>2, PTL DEF SigSpec

\* The relays of a call are those the server named, each with the last token of
\* its id, nearest first and the others as they came (ParseRelayFromAck,
\* SortRelaysByRtt).
THEOREM RelaysAreListed == SigSpec => []RelaysAreComplete
<1>1. AcksAreGiven => RelaysAreComplete
  <2> SUFFICES ASSUME AcksAreGiven PROVE RelaysAreComplete
    OBVIOUS
  <2>1. ASSUME NEW s \in mail, s.tag = "ack"
        PROVE  \E at \in [DOMAIN ParseRelays(s.relay) -> DOMAIN s.relay] :
                 /\ \A k \in DOMAIN ParseRelays(s.relay) : Shows(s.relay, ParseRelays(s.relay)[k], at[k])
                 /\ \A i \in DOMAIN s.relay : s.relay[i].tag = "te2" /\ s.relay[i].len = 6 =>
                      \E k \in DOMAIN ParseRelays(s.relay) : at[k] = i
                 /\ \A k, l \in DOMAIN ParseRelays(s.relay) :
                      LET a == ParseRelays(s.relay)[k].rtt
                          b == ParseRelays(s.relay)[l].rtt
                      IN  k < l => \/ b = None /\ a # None
                                   \/ b # None /\ a # None /\ a < b
                                   \/ a = b /\ at[k] < at[l]
    <3> DEFINE relay == s.relay
               n == Len(relay)
               got == ParseRelays(relay)
    <3>1. PICK server \in Servers : relay = server.relay
      BY <2>1 DEF AcksAreGiven
    <3>2. relay \in Seq(Range(relay)) /\ \A i \in DOMAIN relay : relay[i].rtt \in Nat \cup {None}
      BY <3>1, RelaysAssumption
    <3> HIDE DEF relay
    <3>3. n \in Nat /\ DOMAIN relay = 1 .. n
      BY <3>2
    <3> HIDE DEF n
    <3>4. HasRtt(relay, 1 .. n)
      BY <3>2, <3>3 DEF HasRtt
    <3>5. PICK at \in [DOMAIN got -> DOMAIN relay] :
             /\ \A k \in DOMAIN got : Shows(relay, got[k], at[k])
             /\ \A i \in DOMAIN relay : relay[i].tag = "te2" /\ relay[i].len = 6 => \E k \in DOMAIN got : at[k] = i
             /\ \A k, l \in DOMAIN got : k < l => StandsBefore(relay, at[k], at[l])
      BY <3>3, <3>4, ParsedAreComplete
    <3> HIDE DEF got
    <3>6. \A k \in DOMAIN got : at[k] \in DOMAIN relay /\ got[k].rtt = relay[at[k]].rtt
      BY <3>5 DEF Shows
    <3>7. ASSUME NEW k \in DOMAIN got, NEW l \in DOMAIN got, k < l
          PROVE  \/ got[l].rtt = None /\ got[k].rtt # None
                 \/ got[l].rtt # None /\ got[k].rtt # None /\ got[k].rtt < got[l].rtt
                 \/ got[k].rtt = got[l].rtt /\ at[k] < at[l]
      <4>1. StandsBefore(relay, at[k], at[l])
        BY <3>5, <3>7
      <4>2. /\ got[k].rtt \in Nat \cup {None} /\ got[k].rtt = relay[at[k]].rtt
            /\ got[l].rtt \in Nat \cup {None} /\ got[l].rtt = relay[at[l]].rtt
        BY <3>2, <3>6
      <4> QED
        BY <4>1, <4>2 DEF StandsBefore, LessRtt, None
    <3>8. \E p \in [DOMAIN got -> DOMAIN relay] :
            /\ \A k \in DOMAIN got : Shows(relay, got[k], p[k])
            /\ \A i \in DOMAIN relay : relay[i].tag = "te2" /\ relay[i].len = 6 => \E k \in DOMAIN got : p[k] = i
            /\ \A k, l \in DOMAIN got :
                 LET a == got[k].rtt
                     b == got[l].rtt
                 IN  k < l => \/ b = None /\ a # None
                              \/ b # None /\ a # None /\ a < b
                              \/ a = b /\ p[k] < p[l]
      BY <3>5, <3>7
    <3> QED
      BY <3>8 DEF got, relay
  <2> QED
    BY <2>1 DEF RelaysAreComplete, Shows, Is, Tok
<1> QED
  BY <1>1, AcksHold, PTL

-----------------------------------------------------------------------------
(* Sequences: what is built step by step, and what FlattenSeq makes.       *)

LEMMA MinExists ==
  ASSUME NEW T \in SUBSET Nat, T # {}
  PROVE  \E x \in T : \A y \in T : x <= y
<1>1. PICK x \in T : \A y \in T : ~ (<<y, x>> \in OpToRel(<, Nat))
  BY WFMin, NatLessThanWellFounded
<1>2. ASSUME NEW y \in T PROVE x <= y
  <2>1. <<y, x>> \in Nat \X Nat /\ <<y, x>>[1] = y /\ <<y, x>>[2] = x
    OBVIOUS
  <2>2. ~ (y < x)
    BY <1>1, <2>1 DEF OpToRel
  <2> QED
    BY <2>2
<1> QED
  BY <1>2

\* Induction up to a number, with the property as a set.
LEMMA AllUpTo ==
  ASSUME NEW N \in Nat, NEW P, 0 \in P, \A n \in 1 .. N : n - 1 \in P => n \in P
  PROVE  0 .. N \subseteq P
<1> DEFINE bad == {n \in 0 .. N : n \notin P}
<1>1. ASSUME bad # {} PROVE FALSE
  <2>1. bad \in SUBSET Nat
    OBVIOUS
  <2>2. PICK n \in bad : \A j \in bad : n <= j
    <3> HIDE DEF bad
    <3> QED
      BY <1>1, <2>1, MinExists
  <2>3. n \in 1 .. N /\ n \notin P
    BY <2>2
  <2>4. n - 1 \in 0 .. N /\ n - 1 \notin bad
    BY <2>2, <2>3
  <2> QED
    BY <2>3, <2>4
<1> QED
  BY <1>1

\* What is defined step by step from a start exists.
StepsStay(N, T, a, G) == N \in Nat /\ a \in T /\ \A n \in 1 .. N, s \in T : G[<<n, s>>] \in T
Steps(f, N, T, a, G) == f \in [0 .. N -> T] /\ f[0] = a /\ \A n \in 1 .. N : f[n] = G[<<n, f[n - 1]>>]

LEMMA StepsExist ==
  ASSUME NEW N, NEW T, NEW a, NEW G, StepsStay(N, T, a, G)
  PROVE  \E f : Steps(f, N, T, a, G)
<1> USE DEF StepsStay, Steps
<1> DEFINE Fold(f, k) == f \in [0 .. k -> T] /\ f[0] = a /\ \A n \in 1 .. k : f[n] = G[<<n, f[n - 1]>>]
           folded == {k \in 0 .. N : \E f : Fold(f, k)}
<1>1. 0 \in folded
  <2> DEFINE f == [n \in 0 .. 0 |-> a]
  <2>1. Fold(f, 0)
    OBVIOUS
  <2> HIDE DEF Fold, f
  <2> QED
    BY <2>1
<1>2. ASSUME NEW k \in 1 .. N, k - 1 \in folded PROVE k \in folded
  <2>1. PICK f : Fold(f, k - 1)
    <3> HIDE DEF Fold
    <3> QED
      BY <1>2
  <2> DEFINE last == G[<<k, f[k - 1]>>]
             g == [n \in 0 .. k |-> IF n = k THEN last ELSE f[n]]
  <2>2. f[k - 1] \in T /\ last \in T
    <3>1. k - 1 \in 0 .. (k - 1)
      OBVIOUS
    <3>2. f[k - 1] \in T
      BY <2>1, <3>1
    <3> QED
      BY <3>2
  <2>3. \A n \in 0 .. k - 1 : g[n] = f[n] /\ f[n] \in T
    BY <2>1
  <2>4. g[k] = last
    OBVIOUS
  <2>5. g \in [0 .. k -> T] /\ g[0] = a
    <3> HIDE DEF last
    <3> QED
      BY <2>1, <2>2
  <2>6. ASSUME NEW n \in 1 .. k PROVE g[n] = G[<<n, g[n - 1]>>]
    <3>1. n - 1 \in 0 .. k - 1 /\ g[n - 1] = f[n - 1]
      BY <2>3
    <3>2. CASE n = k
      BY <2>4, <3>1, <3>2
    <3>3. CASE n # k
      <4>1. n \in 1 .. k - 1 /\ n \in 0 .. k - 1
        BY <3>3
      <4> QED
        BY <2>1, <2>3, <3>1, <4>1
    <3> QED
      BY <3>2, <3>3
  <2>7. Fold(g, k)
    BY <2>5, <2>6
  <2> HIDE DEF Fold, g
  <2> QED
    BY <2>7
<1>3. N \in folded
  <2> HIDE DEF folded
  <2> QED
    BY <1>1, <1>2, AllUpTo
<1> QED
  BY <1>3

\* Sequences put one after the other: what is there after each.
Flattening(g, ss, S) ==
    /\ g \in [0 .. Len(ss) -> Seq(S)] /\ g[0] = <<>>
    /\ \A k \in 1 .. Len(ss) : g[k] = g[k - 1] \o ss[k]

LEMMA FlattenSteps ==
  ASSUME NEW S, NEW ss \in Seq(Seq(S))
  PROVE  \E g : Flattening(g, ss, S) /\ FlattenSeq(ss) = g[Len(ss)]
<1> DEFINE N == Len(ss)
           T == Seq(S)
           G == [p \in (1 .. N) \X T |-> p[2] \o ss[p[1]]]
<1>1. N \in Nat /\ <<>> \in T /\ \A n \in 1 .. N : ss[n] \in T
  OBVIOUS
<1>2. \A n \in 1 .. N, s \in T : G[<<n, s>>] = s \o ss[n] /\ s \o ss[n] \in T
  <2> TAKE n \in 1 .. N, s \in T
  <2>1. ss[n] \in T
    BY <1>1
  <2>2. s \o ss[n] \in T
    BY <2>1, ConcatProperties
  <2> QED
    BY <2>2
<1>3. PICK g : Steps(g, N, T, <<>>, G)
  <2>1. StepsStay(N, T, <<>>, G)
    <3> HIDE DEF G
    <3> QED
      BY <1>1, <1>2 DEF StepsStay
  <2> HIDE DEF G
  <2> QED
    BY <2>1, StepsExist
<1>4. Flattening(g, ss, S)
  <2>1. g \in [0 .. N -> T] /\ g[0] = <<>> /\ \A n \in 1 .. N : g[n] = G[<<n, g[n - 1]>>]
    <3> HIDE DEF G
    <3> QED
      BY <1>3 DEF Steps
  <2> HIDE DEF G
  <2>2. \A n \in 1 .. N : g[n - 1] \in T
    <3> TAKE n \in 1 .. N
    <3>1. n - 1 \in 0 .. N
      BY <1>1
    <3> QED
      BY <2>1, <3>1
  <2> QED
    BY <1>2, <2>1, <2>2 DEF Flattening
<1>5. CASE N = 0
  <2>1. ss = <<>> /\ FlattenSeq(ss) = ss
    BY <1>5 DEF FlattenSeq
  <2> QED
    BY <1>4, <1>5, <2>1 DEF Flattening
<1>6. CASE N # 0
  <2> DEFINE flatten[i \in 1 .. N] == IF i = 1 THEN ss[i] ELSE flatten[i - 1] \o ss[i]
             h == [i \in 1 .. N |-> g[i]]
             Unrolls(e) == e = [i \in 1 .. N |-> IF i = 1 THEN ss[i] ELSE e[i - 1] \o ss[i]]
  <2>1. \A i \in 1 .. N : h[i] = IF i = 1 THEN ss[i] ELSE h[i - 1] \o ss[i]
    <3> TAKE i \in 1 .. N
    <3>1. h[i] = g[i - 1] \o ss[i]
      BY <1>4 DEF Flattening
    <3>2. CASE i = 1
      <4>1. g[i - 1] = <<>> /\ ss[i] \in Seq(S)
        BY <1>4, <3>2 DEF Flattening
      <4> QED
        BY <3>1, <3>2, <4>1
    <3>3. CASE i # 1
      <4>1. i - 1 \in 1 .. N
        BY <3>3
      <4> QED
        BY <3>1, <3>3, <4>1
    <3> QED
      BY <3>2, <3>3
  <2>2. Unrolls(h)
    BY <2>1
  <2>3. flatten = CHOOSE e : Unrolls(e)
    OBVIOUS
  <2>4. Unrolls(flatten)
    <3> HIDE DEF Unrolls, h, flatten
    <3> QED
      BY <2>2, <2>3
  <2>5. FlattenSeq(ss) = flatten[N]
    BY <1>6 DEF FlattenSeq
  <2> DEFINE P == {n \in 0 .. N : n = 0 \/ flatten[n] = g[n]}
  <2>6. \A n \in 1 .. N : n - 1 \in P => n \in P
    <3> HIDE DEF flatten
    <3> SUFFICES ASSUME NEW n \in 1 .. N, n - 1 \in P PROVE flatten[n] = h[n]
      BY <1>1
    <3>1. flatten[n] = IF n = 1 THEN ss[n] ELSE flatten[n - 1] \o ss[n]
      BY <2>4
    <3>2. n # 1 => flatten[n - 1] = h[n - 1]
      BY <1>1
    <3> HIDE DEF h
    <3> QED
      BY <2>1, <3>1, <3>2
  <2>7. N \in P
    <3>1. 0 \in P
      OBVIOUS
    <3>2. 0 .. N \subseteq P
      <4> HIDE DEF P
      <4> QED
        BY <1>1, <2>6, <3>1, AllUpTo
    <3> HIDE DEF P
    <3> QED
      BY <1>1, <3>2
  <2>8. flatten[N] = g[N]
    <3> HIDE DEF flatten
    <3> QED
      BY <1>6, <2>7
  <2> HIDE DEF flatten
  <2> QED
    BY <1>4, <2>5, <2>8
<1> QED
  BY <1>5, <1>6

\* Where each of the sequences lies in what they make together.
Parts(f, ss, flat) ==
    /\ f \in [0 .. Len(ss) -> 0 .. Len(flat)]
    /\ f[0] = 0 /\ f[Len(ss)] = Len(flat)
    /\ \A i \in 1 .. Len(ss) :
         /\ f[i] = f[i - 1] + Len(ss[i])
         /\ \A j \in 1 .. Len(ss[i]) : flat[f[i - 1] + j] = ss[i][j]

LEMMA PartsLaidOut ==
  ASSUME NEW S, NEW ss \in Seq(Seq(S))
  PROVE  FlattenSeq(ss) \in Seq(S) /\ \E f : Parts(f, ss, FlattenSeq(ss))
<1> DEFINE N == Len(ss)
           flat == FlattenSeq(ss)
<1>1. N \in Nat /\ \A i \in 1 .. N : ss[i] \in Seq(S)
  OBVIOUS
<1>2. PICK g : Flattening(g, ss, S) /\ FlattenSeq(ss) = g[N]
  BY FlattenSteps
<1>3. flat = g[N]
  BY <1>2
<1> HIDE DEF flat
<1>4. /\ g \in [0 .. N -> Seq(S)] /\ g[0] = <<>>
      /\ \A k \in 1 .. N : g[k] = g[k - 1] \o ss[k]
  BY <1>2 DEF Flattening
<1> DEFINE f == [k \in 0 .. N |-> Len(g[k])]
<1>5. \A k \in 0 .. N : f[k] = Len(g[k]) /\ f[k] \in Nat /\ g[k] \in Seq(S)
  BY <1>4
<1> DEFINE At(n, i) ==
             /\ f[i] <= f[n] /\ f[i] = f[i - 1] + Len(ss[i])
             /\ \A j \in 1 .. Len(ss[i]) : g[n][f[i - 1] + j] = ss[i][j]
<1>6. ASSUME NEW n \in 1 .. N, NEW i \in 1 .. n, i # n => At(n - 1, i) PROVE At(n, i)
  <2> HIDE DEF f
  <2>1. n - 1 \in 0 .. N /\ i - 1 \in 0 .. N /\ n \in 0 .. N /\ i \in 0 .. N /\ i \in 1 .. N
    BY <1>1
  <2>2. ss[n] \in Seq(S) /\ ss[i] \in Seq(S)
    BY <1>1, <2>1
  <2>3. g[n] = g[n - 1] \o ss[n]
    BY <1>4
  <2>4. /\ f[n] = f[n - 1] + Len(ss[n])
        /\ \A x \in 1 .. f[n] : g[n][x] = IF x <= f[n - 1] THEN g[n - 1][x] ELSE ss[n][x - f[n - 1]]
    <3>1. g[n - 1] \in Seq(S) /\ f[n] = Len(g[n]) /\ f[n - 1] = Len(g[n - 1])
      BY <1>5, <2>1
    <3>2. /\ Len(g[n - 1] \o ss[n]) = Len(g[n - 1]) + Len(ss[n])
          /\ \A x \in 1 .. Len(g[n - 1]) + Len(ss[n]) : (g[n - 1] \o ss[n])[x] =
                  IF x <= Len(g[n - 1]) THEN g[n - 1][x] ELSE ss[n][x - Len(g[n - 1])]
      <4> DEFINE a == g[n - 1]
                 b == ss[n]
      <4>1. a \in Seq(S) /\ b \in Seq(S)
        BY <2>2, <3>1
      <4> HIDE DEF a, b
      <4>2. /\ Len(a \o b) = Len(a) + Len(b)
            /\ \A x \in 1 .. Len(a) + Len(b) : (a \o b)[x] = IF x <= Len(a) THEN a[x] ELSE b[x - Len(a)]
        BY <4>1, ConcatProperties
      <4> QED
        BY <4>2 DEF a, b
    <3> QED
      BY <2>3, <3>1, <3>2
  <2>5. Len(ss[n]) \in Nat
    BY <2>2
  <2>6. CASE i = n
    <3>0. f[n] \in Nat /\ f[n - 1] \in Nat
      BY <1>5, <2>1
    <3>1. ASSUME NEW j \in 1 .. Len(ss[n]) PROVE g[n][f[n - 1] + j] = ss[n][j]
      <4>1. j \in Nat /\ 1 <= j /\ j <= Len(ss[n])
        BY <2>5
      <4> DEFINE x == f[n - 1] + j
      <4>2. x \in 1 .. f[n] /\ ~(x <= f[n - 1]) /\ x - f[n - 1] = j
        <5>1. Follows(f[n - 1], Len(ss[n]), j)
          BY <2>5, <3>0, FollowsOn, Zenon
        <5>2. f[n] = f[n - 1] + Len(ss[n])
          BY <2>4, Zenon
        <5> QED
          BY <5>1, <5>2, Zenon DEF Follows
      <4>3. g[n][x] = ss[n][x - f[n - 1]]
        <5> HIDE DEF x
        <5> QED
          BY <2>4, <4>2
      <4> QED
        BY <4>2, <4>3
    <3> QED
      BY <2>4, <2>6, <3>0, <3>1
  <2>7. CASE i # n
    <3>1. i \in 1 .. n - 1
      BY <2>7
    <3>2. /\ f[i] <= f[n - 1] /\ f[i] = f[i - 1] + Len(ss[i])
          /\ \A j \in 1 .. Len(ss[i]) : g[n - 1][f[i - 1] + j] = ss[i][j]
      BY <1>6, <2>7
    <3>3. f[n - 1] <= f[n] /\ f[i] \in Nat /\ f[i - 1] \in Nat /\ f[n] \in Nat /\ f[n - 1] \in Nat
      BY <1>5, <2>1, <2>4, <2>5
    <3>4. ASSUME NEW j \in 1 .. Len(ss[i]) PROVE g[n][f[i - 1] + j] = ss[i][j]
      <4>1. j \in Nat /\ 1 <= j /\ j <= Len(ss[i]) /\ Len(ss[i]) \in Nat
        BY <2>2
      <4> DEFINE x == f[i - 1] + j
      <4>2. x \in 1 .. f[n] /\ x <= f[n - 1]
        <5>1. PICK a, l : a = f[i - 1] /\ l = Len(ss[i])
          BY Zenon
        <5>2. PICK c, d : c = f[n - 1] /\ d = f[n]
          BY Zenon
        <5>3. a \in Nat /\ l \in Nat /\ c \in Nat /\ d \in Nat /\ f[i] = a + l /\ f[i] <= c /\ c <= d
          BY <3>2, <3>3, <4>1, <5>1, <5>2, Zenon
        <5>4. a + l <= c /\ j \in 1 .. l
          BY <5>1, <5>3, Zenon
        <5>5. Lies(a, l, c, d, j)
          BY <5>3, <5>4, LiesIn, Zenon
        <5> QED
          BY <5>1, <5>2, <5>5, Zenon DEF Lies
      <4>3. g[n][x] = g[n - 1][x]
        <5> HIDE DEF x
        <5> QED
          BY <2>4, <4>2
      <4> QED
        BY <3>2, <4>3
    <3> QED
      BY <3>2, <3>3, <3>4
  <2> QED
    BY <2>6, <2>7
<1> DEFINE Q == {n \in 0 .. N : \A i \in 1 .. n : At(n, i)}
<1>7. ASSUME NEW n \in 1 .. N, n - 1 \in Q PROVE n \in Q
  <2>1. \A i \in 1 .. n - 1 : At(n - 1, i)
    <3> HIDE DEF At
    <3> QED
      BY <1>7
  <2> HIDE DEF At
  <2>2. ASSUME NEW i \in 1 .. n PROVE At(n, i)
    <3>1. i # n => At(n - 1, i)
      BY <2>1
    <3> QED
      BY <1>6, <3>1
  <2>3. n \in 0 .. N
    BY <1>1
  <2> QED
    BY <2>2, <2>3
<1>8. N \in Q
  <2>1. 0 \in Q
    <3> HIDE DEF At
    <3> QED
      BY <1>1
  <2>2. 0 .. N \subseteq Q
    <3> HIDE DEF Q
    <3> QED
      BY <1>1, <1>7, <2>1, AllUpTo
  <2> HIDE DEF Q
  <2> QED
    BY <1>1, <2>2
<1>9. f[0] = 0 /\ f[N] = Len(flat)
  <2> HIDE DEF f
  <2> QED
    BY <1>1, <1>3, <1>4, <1>5
<1>10. f \in [0 .. N -> 0 .. Len(flat)]
  <2>1. ASSUME NEW k \in 0 .. N PROVE f[k] \in 0 .. Len(flat)
    <3> HIDE DEF f
    <3>1. CASE k = 0
      BY <1>1, <1>5, <1>9, <3>1
    <3>2. CASE k # 0
      <4>1. k \in 1 .. N
        BY <3>2
      <4>2. f[k] <= f[N]
        BY <1>8, <4>1
      <4> QED
        BY <1>1, <1>5, <1>9, <4>2
    <3> QED
      BY <3>1, <3>2
  <2> QED
    BY <2>1
<1>11. Parts(f, ss, flat)
  <2> HIDE DEF f
  <2>1. \A i \in 1 .. N : /\ f[i] = f[i - 1] + Len(ss[i])
                          /\ \A j \in 1 .. Len(ss[i]) : flat[f[i - 1] + j] = ss[i][j]
    BY <1>3, <1>8
  <2> QED
    BY <1>9, <1>10, <2>1 DEF Parts
<1>12. flat \in Seq(S)
  BY <1>1, <1>3, <1>5
<1> HIDE DEF f
<1> QED
  BY <1>11, <1>12 DEF flat

-----------------------------------------------------------------------------
(* VideoPath: access units.                                                *)

NalUnits == [name : STRING, len : Nat \ {0}]
IsSequence(s) == \E S : s \in Seq(S)

\* Where the payloads of each unit lie among those of an access unit.
Offsets(f, au, ps) ==
    /\ f \in [0 .. Len(au) -> 0 .. Len(ps)]
    /\ f[0] = 0 /\ f[Len(au)] = Len(ps)
    /\ \A i \in 1 .. Len(au) :
         /\ f[i] = f[i - 1] + Len(PackageH264NALU(au[i]))
         /\ \A j \in 1 .. Len(PackageH264NALU(au[i])) : ps[f[i - 1] + j] = PackageH264NALU(au[i])[j]

Counted(n) == [b \in 1 .. n |-> b]

\* The depacketizer after j of the fragments of a unit.
Begun(nalu, j) == [active |-> TRUE, name |-> nalu.name, buf |-> Counted(j * (Mtu - 2))]

FirstUnits(au, n) == [i \in 1 .. n |-> Whole(au[i])]

\* What has come of an access unit after m of its payloads.
Arrived(au, ps, m, d, buf) ==
    \/ m = 0 /\ buf = <<>>
    \/ \E f \in [0 .. Len(au) -> 0 .. Len(ps)] : Offsets(f, au, ps) /\
         \E i \in 1 .. Len(au) : \E j \in 0 .. Len(PackageH264NALU(au[i])) - 1 :
           /\ m = f[i - 1] + j
           /\ buf = FirstUnits(au, i - 1)
           /\ j > 0 => d = Begun(au[i], j)

\* From s on an access unit was sent as ps.
SentAs(s, ps, a) ==
    /\ a \in DOMAIN Units /\ ps \in Packed(Units[a]) /\ ps # <<>>
    /\ s + Len(ps) - 1 <= Len(broadcast)
    /\ \A i \in 1 .. Len(ps) :
         broadcast[s + i - 1] = [au |-> a, payload |-> ps[i], marker |-> i = Len(ps)]

Begins(n) == n = 1 \/ broadcast[n - 1].marker

\* The receiver, about to take packet n.
Expects(n, d, buf) ==
    \/ n <= Len(broadcast) + 1 /\ Begins(n) /\ buf = <<>>
    \/ \E s \in 1 .. n - 1, a \in DOMAIN Units : \E ps \in Packed(Units[a]) :
         /\ SentAs(s, ps, a) /\ n <= s + Len(ps) - 1
         /\ Fits(Units[a]) => Arrived(Units[a], ps, n - s, d, buf)

SentInGroups ==
    /\ IsSequence(broadcast)
    /\ fed \in 0 .. Len(Units)
    /\ Len(broadcast) > 0 => broadcast[Len(broadcast)].marker
    /\ \A n \in 1 .. Len(broadcast) : Begins(n) => \E a \in DOMAIN Units : \E ps \in Packed(Units[a]) : SentAs(n, ps, a)

CleanIsAlone ==
    /\ clean \in Nat
    /\ linkPc \in [Links -> {"idle", "collect"}]
    /\ packet \in [Links -> Nat]
    /\ DOMAIN units = Links
    /\ \A c \in Links : linkPc[c] = "collect" =>
         /\ packet[c] \in 1 .. Len(broadcast)
         /\ clean # 0 => packet[c] = clean /\ Alone(c)

InStep ==
    up /\ clean # 0 =>
      /\ (\A c \in Links : linkPc[c] = "idle") => Expects(clean, depack, frameBuf)
      /\ \A c \in Links : linkPc[c] = "collect" =>
           \E d : /\ Expects(clean, d, frameBuf)
                  /\ units[c] = Depacketize(d, broadcast[clean].payload)
                  /\ depack = AfterPayload(d, broadcast[clean].payload)

VideoInv == SentInGroups /\ CleanIsAlone /\ InStep /\ CleanUnitsArriveWhole
LEMMA ProductMonotone ==
  ASSUME NEW F \in Nat \ {0}, NEW x \in Nat, NEW y \in Nat, x <= y
  PROVE  x * F \in Nat /\ x * F <= y * F /\ (x + 1) * F = x * F + F
<1>1. (y - x) * F >= 0
  OBVIOUS
<1>2. (y - x) * F = y * F - x * F
  OBVIOUS
<1> QED
  BY <1>1, <1>2

LEMMA LesserOfTwo ==
  ASSUME NEW a \in Nat, NEW b \in Nat
  PROVE  Min({a, b}) = IF a <= b THEN a ELSE b
<1> DEFINE m == IF a <= b THEN a ELSE b
<1>1. m \in {a, b} /\ \A y \in {a, b} : m <= y
  OBVIOUS
<1>2. \A x \in {a, b} : (\A y \in {a, b} : x <= y) => x = m
  OBVIOUS
<1> HIDE DEF m
<1>3. Min({a, b}) = m
  BY <1>1, <1>2 DEF Min
<1> QED
  BY <1>3 DEF m

\* What the numbers up to x lack of those up to y.
LEMMA CountedJoin ==
  ASSUME NEW n \in Nat, NEW x \in 0 .. n, NEW y \in x .. n
  PROVE  /\ Counted(n) \in Seq(Nat) /\ Len(Counted(n)) = n
         /\ Len(SubSeq(Counted(n), x + 1, y)) = y - x
         /\ Counted(x) \o SubSeq(Counted(n), x + 1, y) = Counted(y)
         /\ SubSeq(Counted(n), 1, y) = Counted(y)
<1> USE DEF Counted
<1>1. \A k \in Nat : Counted(k) \in Seq(Nat) /\ Len(Counted(k)) = k /\ \A i \in 1 .. k : Counted(k)[i] = i
  OBVIOUS
<1> DEFINE rest == SubSeq(Counted(n), x + 1, y)
<1>2. rest \in Seq(Nat) /\ Len(rest) = y - x /\ \A i \in 1 .. y - x : rest[i] = x + i
  <2>1. \A i \in x + 1 .. y : Counted(n)[i] \in Nat
    OBVIOUS
  <2>2. /\ rest \in Seq(Nat)
        /\ Len(rest) = IF x + 1 <= y THEN y - (x + 1) + 1 ELSE 0
        /\ \A i \in 1 .. y - (x + 1) + 1 : rest[i] = Counted(n)[x + 1 + i - 1]
    BY <2>1, SubSeqProperties
  <2>3. \A i \in 1 .. y - x : rest[i] = x + i
    <3> HIDE DEF rest, Counted
    <3> TAKE i \in 1 .. y - x
    <3>1. x + 1 + i - 1 = x + i /\ x + i \in 1 .. n /\ i \in 1 .. y - (x + 1) + 1
      OBVIOUS
    <3>2. Counted(n)[x + i] = x + i
      BY <1>1, <3>1
    <3>3. rest[i] = Counted(n)[x + 1 + i - 1]
      BY <2>2, <3>1
    <3> QED
      BY <3>1, <3>2, <3>3
  <2> HIDE DEF rest
  <2> QED
    BY <2>2, <2>3
<1>3. Counted(x) \o rest = Counted(y)
  <2> HIDE DEF rest
  <2>1. Counted(x) \o rest \in Seq(Nat) /\ Len(Counted(x) \o rest) = y
    BY <1>1, <1>2
  <2>2. ASSUME NEW i \in 1 .. y PROVE (Counted(x) \o rest)[i] = Counted(y)[i]
    <3>1. (Counted(x) \o rest)[i] = IF i <= x THEN Counted(x)[i] ELSE rest[i - x]
      <4>1. Len(Counted(x)) = x /\ Counted(x) \in Seq(Nat)
        BY <1>1
      <4> HIDE DEF Counted
      <4> QED
        BY <1>2, <4>1, ConcatProperties
    <3> HIDE DEF Counted
    <3>2. Counted(y)[i] = i
      BY <1>1
    <3>3. CASE i <= x
      <4>1. Counted(x)[i] = i
        BY <1>1, <3>3
      <4> QED
        BY <3>1, <3>2, <3>3, <4>1
    <3>4. CASE i > x
      <4>1. i - x \in 1 .. y - x /\ x + (i - x) = i
        BY <3>4
      <4>2. rest[i - x] = i
        BY <1>2, <4>1
      <4> QED
        BY <3>1, <3>2, <3>4, <4>2
    <3>5. i <= x \/ i > x
      OBVIOUS
    <3> QED
      BY <3>3, <3>4, <3>5
  <2>3. Counted(y) \in Seq(Nat) /\ Len(Counted(y)) = y
    BY <1>1
  <2> HIDE DEF Counted
  <2> QED
    BY <2>1, <2>2, <2>3, SeqEqual
<1>4. SubSeq(Counted(n), 1, y) = Counted(y)
  OBVIOUS
<1> QED
  BY <1>1, <1>2, <1>3, <1>4

\* A unit goes whole, or in fragments that are full but for the last.
LEMMA Pieces ==
  ASSUME NEW u \in NalUnits
  PROVE  /\ u.len <= Mtu => PackageH264NALU(u) = <<Single(u)>>
         /\ u.len > Mtu =>
              \E count \in Nat :
                /\ count >= 2 /\ (count - 1) * (Mtu - 2) < u.len - 1 /\ u.len - 1 <= count * (Mtu - 2)
                /\ PackageH264NALU(u) =
                     [k \in 1 .. count |->
                        Fragment(u, (k - 1) * (Mtu - 2) + 1, IF k = count THEN u.len - 1 ELSE k * (Mtu - 2))]
<1>1. Mtu \in Nat /\ Mtu > 2 /\ u.len \in Nat \ {0}
  BY VideoPathAssumption DEF NalUnits
<1>2. CASE u.len <= Mtu
  BY <1>1, <1>2 DEF PackageH264NALU
<1>3. CASE u.len > Mtu
  <2> DEFINE F == Mtu - 2
             body == u.len - 1
             count == (body + F - 1) \div F
             to(k) == IF k = count THEN body ELSE k * F
  <2>1. F \in Nat \ {0} /\ body \in Nat /\ body + F - 1 \in Nat /\ body > F
    BY <1>1, <1>3
  <2>2. PackageH264NALU(u) = [k \in 1 .. count |-> Fragment(u, (k - 1) * F + 1, Min({k * F, body}))]
    <3>1. ~(u.len <= Mtu) /\ u.len # 0
      BY <1>1, <1>3
    <3> QED
      BY <3>1 DEF PackageH264NALU
  <2> DEFINE r == (body + F - 1) % F
  <2>3. count \in Nat /\ r \in 0 .. F - 1 /\ body + F - 1 = count * F + r
    <3> HIDE DEF F, body
    <3> QED
      BY <2>1, DivModIs
  <2> HIDE DEF F, body, count, r
  <2>4. count >= 2
    <3>1. count * F >= body
      BY <2>1, <2>3
    <3>2. count # 0 /\ count # 1
      BY <2>1, <3>1
    <3> QED
      BY <2>3, <3>2
  <2>5. (count - 1) * F < body /\ body <= count * F
    <3>1. (count - 1) * F = count * F - F
      BY <2>1, <2>3
    <3> QED
      BY <2>1, <2>3, <3>1
  <2>6. \A k \in 1 .. count : Min({k * F, body}) = to(k)
    <3> TAKE k \in 1 .. count
    <3>1. k * F \in Nat
      BY <2>1, <2>3
    <3>2. Min({k * F, body}) = IF k * F <= body THEN k * F ELSE body
      BY <2>1, <3>1, LesserOfTwo
    <3>3. CASE k = count
      BY <2>1, <2>5, <3>1, <3>2, <3>3
    <3>4. CASE k # count
      <4>1. k * F <= (count - 1) * F
        BY <2>1, <2>3, <3>4, ProductMonotone
      <4> QED
        BY <2>1, <2>3, <2>5, <3>1, <3>2, <3>4, <4>1
    <3> QED
      BY <3>3, <3>4
  <2>7. PackageH264NALU(u) = [k \in 1 .. count |-> Fragment(u, (k - 1) * F + 1, to(k))]
    <3> HIDE DEF to
    <3> QED
      BY <2>2, <2>6
  <2>8. \E n \in Nat :
          /\ n >= 2 /\ (n - 1) * F < body /\ body <= n * F
          /\ PackageH264NALU(u) =
               [k \in 1 .. n |-> Fragment(u, (k - 1) * F + 1, IF k = n THEN body ELSE k * F)]
    <3>1. count \in Nat
      BY <2>3
    <3> WITNESS count \in Nat
    <3> QED
      BY <2>4, <2>5, <2>7
  <2>9. ~(u.len <= Mtu)
    BY <1>1, <1>3
  <2> QED
    BY <2>8, <2>9 DEF F, body
<1> QED
  BY <1>1, <1>2, <1>3

LEMMA PackageSome ==
  ASSUME NEW u \in NalUnits
  PROVE  Len(PackageH264NALU(u)) \in Nat \ {0} /\ IsSequence(PackageH264NALU(u))
<1>1. CASE u.len <= Mtu
  <2>1. PackageH264NALU(u) = <<Single(u)>>
    BY <1>1, Pieces
  <2> DEFINE T == {Single(u)}
  <2>2. <<Single(u)>> \in Seq(T) /\ Len(<<Single(u)>>) = 1
    OBVIOUS
  <2> HIDE DEF T
  <2> QED
    BY <2>1, <2>2 DEF IsSequence
<1>2. CASE u.len > Mtu
  <2>1. PICK count \in Nat : count >= 2 /\ PackageH264NALU(u) =
               [k \in 1 .. count |->
                  Fragment(u, (k - 1) * (Mtu - 2) + 1, IF k = count THEN u.len - 1 ELSE k * (Mtu - 2))]
    BY <1>2, Pieces
  <2> DEFINE e(k) == Fragment(u, (k - 1) * (Mtu - 2) + 1, IF k = count THEN u.len - 1 ELSE k * (Mtu - 2))
             s == [k \in 1 .. count |-> e(k)]
  <2>2. s \in Seq({e(k) : k \in 1 .. count}) /\ Len(s) = count
    <3> HIDE DEF e
    <3> QED
      OBVIOUS
  <2> HIDE DEF s
  <2>3. PackageH264NALU(u) = s
    BY <2>1 DEF s
  <2>4. IsSequence(PackageH264NALU(u))
    <3> DEFINE T == {e(k) : k \in 1 .. count}
    <3>1. PackageH264NALU(u) \in Seq(T)
      BY <2>2, <2>3
    <3> HIDE DEF T
    <3> QED
      BY <3>1 DEF IsSequence
  <2>5. Len(PackageH264NALU(u)) \in Nat \ {0}
    <3> HIDE DEF e
    <3> QED
      BY <2>1, <2>2, <2>3
  <2> QED
    BY <2>4, <2>5
<1> QED
  BY <1>1, <1>2, VideoPathAssumption DEF NalUnits

\* The depacketizer makes of the fragments of a unit, one after the other, the
\* unit; what it held before the first makes no difference.
LEMMA UnitStep ==
  ASSUME NEW u \in NalUnits, NEW j \in 0 .. Len(PackageH264NALU(u)) - 1, NEW d,
         u.len <= MaxReassembly, j > 0 => d = Begun(u, j)
  PROVE  /\ j + 1 = Len(PackageH264NALU(u)) => Depacketize(d, PackageH264NALU(u)[j + 1]) = <<Whole(u)>>
         /\ j + 1 < Len(PackageH264NALU(u)) =>
              /\ Depacketize(d, PackageH264NALU(u)[j + 1]) = <<>>
              /\ AfterPayload(d, PackageH264NALU(u)[j + 1]) = Begun(u, j + 1)
<1>1. Mtu \in Nat /\ Mtu > 2 /\ u.len \in Nat \ {0} /\ MaxReassembly \in Nat
  BY VideoPathAssumption DEF NalUnits
<1>2. CASE u.len <= Mtu
  <2>1. PackageH264NALU(u) = <<Single(u)>>
    BY <1>2, Pieces
  <2>2. j = 0
    BY <2>1
  <2>3. Depacketize(d, Single(u)) = <<Whole(u)>>
    BY DEF Depacketize, Single
  <2> QED
    BY <2>1, <2>2, <2>3
<1>3. CASE u.len > Mtu
  <2> DEFINE F == Mtu - 2
             body == u.len - 1
  <2>1. PICK count \in Nat :
          /\ count >= 2 /\ (count - 1) * F < body /\ body <= count * F
          /\ PackageH264NALU(u) =
               [k \in 1 .. count |-> Fragment(u, (k - 1) * F + 1, IF k = count THEN body ELSE k * F)]
    BY <1>3, Pieces
  <2> DEFINE to == IF j + 1 = count THEN body ELSE (j + 1) * F
             at == j * F
             p == Fragment(u, at + 1, to)
  <2>2. F \in Nat \ {0} /\ body \in Nat
    BY <1>1
  <2> HIDE DEF F, body
  <2>3. Len(PackageH264NALU(u)) = count /\ j + 1 \in 1 .. count /\ PackageH264NALU(u)[j + 1] = p
    <3> DEFINE e(k) == Fragment(u, (k - 1) * F + 1, IF k = count THEN body ELSE k * F)
    <3>1. PackageH264NALU(u) = [k \in 1 .. count |-> e(k)]
      BY <2>1
    <3>2. e(j + 1) = p
      <4>1. j + 1 - 1 = j
        OBVIOUS
      <4> QED
        BY <4>1
    <3> HIDE DEF e, p
    <3>3. Len(PackageH264NALU(u)) = count
      BY <3>1
    <3>4. j + 1 \in 1 .. count
      BY <2>1, <3>3
    <3> QED
      BY <3>1, <3>2, <3>3, <3>4
  <2>4. at \in Nat /\ to \in at + 1 .. body /\ (j = 0 <=> at = 0) /\ (to = body <=> j + 1 = count)
    <3>0. j \in Nat /\ j <= count - 1 /\ count \in Nat
      BY <2>3
    <3>1. at \in Nat /\ at + F = (j + 1) * F
      BY <2>2, <3>0, ProductMonotone
    <3>4. j = 0 <=> at = 0
      <4>1. j # 0 => at >= F
        BY <2>2, <3>0, ProductAtLeast
      <4> QED
        BY <2>2, <3>1, <4>1
    <3>2. CASE j + 1 = count
      <4>1. count - 1 = j
        BY <3>0, <3>2
      <4>2. at < body /\ to = body
        BY <2>1, <3>2, <4>1
      <4> HIDE DEF at, to
      <4> QED
        BY <2>2, <3>1, <3>2, <3>4, <4>2
    <3>3. CASE j + 1 # count
      <4>1. j + 1 \in Nat /\ count - 1 \in Nat /\ j + 1 <= count - 1
        BY <2>1, <3>0, <3>3
      <4>2. (j + 1) * F <= (count - 1) * F /\ (count - 1) * F \in Nat
        BY <2>2, <4>1, ProductMonotone
      <4>3. to = at + F /\ to <= (count - 1) * F
        BY <3>1, <3>3, <4>2
      <4>4. to < body
        <5> HIDE DEF to, at
        <5> QED
          BY <2>1, <2>2, <3>1, <4>2, <4>3
      <4> HIDE DEF at, to
      <4> QED
        BY <2>2, <3>1, <3>3, <3>4, <4>3, <4>4
    <3> QED
      BY <3>2, <3>3
  <2>5. /\ p.kind = "fua" /\ p.name = u.name /\ (p.start <=> j = 0) /\ (p.end <=> j + 1 = count)
        /\ p.bytes = SubSeq(Counted(body), at + 1, to)
    <3>1. p = [kind |-> "fua", name |-> u.name, start |-> at + 1 = 1, end |-> to = body,
               bytes |-> SubSeq(Counted(body), at + 1, to)]
      BY DEF Fragment, NaluBytes, Counted, body
    <3> HIDE DEF p, at, to
    <3>2. (at + 1 = 1) <=> j = 0
      BY <2>4
    <3> QED
      BY <2>4, <3>1, <3>2
  <2>6. j = 0 => p.bytes = Counted(to)
    <3> HIDE DEF p, at, to
    <3>1. at = 0 => p.bytes = SubSeq(Counted(body), 1, to)
      BY <2>5
    <3>2. 0 \in 0 .. body /\ to \in 0 .. body
      BY <2>2, <2>4
    <3>3. SubSeq(Counted(body), 1, to) = Counted(to)
      BY <2>2, <3>2, CountedJoin
    <3> QED
      BY <2>4, <3>1, <3>3
  <2>7. j > 0 => d.buf = Counted(at) /\ d.active /\ d.name = u.name
    BY DEF Begun, F
  <2>8. j > 0 => d.buf \o p.bytes = Counted(to) /\ Len(d.buf) + 1 + Len(p.bytes) <= MaxReassembly
    <3> HIDE DEF p, at, to
    <3>0. at \in 0 .. body /\ to \in at .. body
      BY <2>2, <2>4
    <3>1. Counted(at) \o SubSeq(Counted(body), at + 1, to) = Counted(to)
      BY <2>2, <3>0, CountedJoin
    <3>2. Len(SubSeq(Counted(body), at + 1, to)) = to - at
      BY <2>2, <3>0, CountedJoin
    <3>3. Len(Counted(at)) = at
      BY <2>4 DEF Counted
    <3>4. to + 1 <= MaxReassembly
      BY <1>1, <2>4 DEF body
    <3>5. at + 1 + (to - at) <= MaxReassembly
      BY <2>4, <3>4
    <3> QED
      BY <2>5, <2>7, <3>1, <3>2, <3>3, <3>5
  <2>9. Whole(u) = [name |-> u.name, bytes |-> Counted(body)]
    BY DEF Whole, NaluBytes, Counted, body
  <2>10. Begun(u, j + 1) = [active |-> TRUE, name |-> u.name, buf |-> Counted((j + 1) * F)]
    BY DEF Begun, F
  <2> HIDE DEF p, at
  <2>11. CASE j + 1 = count
    <3>1. to = body /\ j > 0 /\ p.end /\ ~p.start
      <4> HIDE DEF to
      <4> QED
        BY <2>1, <2>3, <2>4, <2>5, <2>11
    <3> HIDE DEF to
    <3>2. Depacketize(d, p) = <<[name |-> d.name, bytes |-> d.buf \o p.bytes]>>
      BY <2>5, <2>7, <2>8, <3>1 DEF Depacketize
    <3>3. [name |-> d.name, bytes |-> d.buf \o p.bytes] = Whole(u)
      BY <2>7, <2>8, <2>9, <3>1
    <3>4. Depacketize(d, p) = <<Whole(u)>>
      BY <3>2, <3>3
    <3>5. ~(j + 1 < count)
      BY <2>1, <2>11
    <3> QED
      BY <2>3, <3>4, <3>5
  <2>12. CASE j + 1 # count
    <3>0. j \in Nat /\ j + 1 < count
      BY <2>3, <2>12
    <3>1. to = (j + 1) * F /\ ~p.end
      BY <2>5, <2>12
    <3> HIDE DEF to
    <3>2. Depacketize(d, p) = <<>>
      BY <2>5, <3>1 DEF Depacketize
    <3>3. CASE j = 0
      <4>1. AfterPayload(d, p) = [active |-> TRUE, name |-> p.name, buf |-> p.bytes]
        BY <2>5, <3>1, <3>3 DEF AfterPayload
      <4> QED
        BY <2>3, <2>5, <2>6, <2>10, <3>0, <3>1, <3>2, <3>3, <4>1
    <3>4. CASE j > 0
      <4>1. ~p.start
        BY <2>5, <3>4
      <4>3. d.active /\ Len(d.buf) + 1 + Len(p.bytes) <= MaxReassembly
        BY <2>7, <2>8, <3>4
      <4>2. AfterPayload(d, p) = [active |-> TRUE, name |-> d.name, buf |-> d.buf \o p.bytes]
        BY <2>5, <3>1, <4>1, <4>3 DEF AfterPayload
      <4>4. AfterPayload(d, p) = Begun(u, j + 1)
        BY <2>7, <2>8, <2>10, <3>1, <3>4, <4>2
      <4> QED
        BY <2>3, <3>0, <3>2, <4>4
    <3> QED
      BY <3>0, <3>3, <3>4
  <2> QED
    BY <2>11, <2>12
<1> QED
  BY <1>1, <1>2, <1>3

LEMMA SequenceOver ==
  ASSUME NEW s, NEW S, IsSequence(s), \A k \in 1 .. Len(s) : s[k] \in S
  PROVE  s \in Seq(S)
<1>1. PICK T : s \in Seq(T)
  BY DEF IsSequence
<1>2. Len(s) \in Nat /\ s \in [1 .. Len(s) -> T]
  BY <1>1, LenProperties
<1>3. s \in [1 .. Len(s) -> S]
  BY <1>2
<1> QED
  BY <1>2, <1>3

\* The payloads of an access unit are those of its units, one after the other.
LEMMA LaidOut ==
  ASSUME NEW au \in Seq(NalUnits)
  PROVE  /\ IsSequence(Payloads(au))
         /\ \E f \in [0 .. Len(au) -> 0 .. Len(Payloads(au))] : Offsets(f, au, Payloads(au))
<1> DEFINE P(u) == PackageH264NALU(u)
           S == {P(u)[k] : u \in NalUnits, k \in Nat}
           ss == [i \in DOMAIN au |-> P(au[i])]
           N == Len(au)
           ps == Payloads(au)
<1>1. N \in Nat /\ DOMAIN au = 1 .. N /\ \A i \in 1 .. N : au[i] \in NalUnits
  OBVIOUS
<1>2. ASSUME NEW u \in NalUnits PROVE P(u) \in Seq(S) /\ Len(P(u)) \in Nat \ {0}
  <2>1. IsSequence(P(u)) /\ Len(P(u)) \in Nat \ {0}
    BY PackageSome
  <2>2. \A k \in 1 .. Len(P(u)) : P(u)[k] \in S
    <3> HIDE DEF P
    <3> QED
      BY <2>1
  <2> HIDE DEF P, S
  <2> QED
    BY <2>1, <2>2, SequenceOver
<1>3. ss \in Seq(Seq(S)) /\ Len(ss) = N /\ \A i \in 1 .. N : ss[i] = P(au[i])
  <2> HIDE DEF P, S
  <2> QED
    BY <1>1, <1>2
<1>4. PICK f : Parts(f, ss, ps)
  <2> HIDE DEF ss, S
  <2>1. \E f : Parts(f, ss, FlattenSeq(ss))
    BY <1>3, PartsLaidOut
  <2> QED
    BY <2>1 DEF Payloads, ss
<1>5. IsSequence(ps)
  <2> HIDE DEF ss, S
  <2>1. FlattenSeq(ss) \in Seq(S)
    BY <1>3, PartsLaidOut
  <2> QED
    BY <2>1 DEF IsSequence, Payloads, ss
<1>6. f \in [0 .. N -> 0 .. Len(ps)] /\ Offsets(f, au, ps)
  <2> HIDE DEF ss, S, ps
  <2>1. /\ f \in [0 .. N -> 0 .. Len(ps)] /\ f[0] = 0 /\ f[N] = Len(ps)
        /\ \A i \in 1 .. N : /\ f[i] = f[i - 1] + Len(ss[i])
                             /\ \A j \in 1 .. Len(ss[i]) : ps[f[i - 1] + j] = ss[i][j]
    BY <1>3, <1>4 DEF Parts
  <2>2. \A i \in 1 .. N : /\ f[i] = f[i - 1] + Len(P(au[i]))
                          /\ \A j \in 1 .. Len(P(au[i])) : ps[f[i - 1] + j] = P(au[i])[j]
    <3> HIDE DEF P
    <3> QED
      BY <1>3, <2>1
  <2> QED
    BY <2>1, <2>2 DEF Offsets
<1> QED
  BY <1>5, <1>6

LEMMA UnitsJoin ==
  ASSUME NEW au, NEW n \in Nat
  PROVE  /\ FirstUnits(au, 0) = <<>>
         /\ FirstUnits(au, n) \o <<>> = FirstUnits(au, n)
         /\ <<>> \o FirstUnits(au, n) = FirstUnits(au, n)
         /\ n > 0 => FirstUnits(au, n - 1) \o <<Whole(au[n])>> = FirstUnits(au, n)
<1> DEFINE W == {Whole(au[i]) : i \in 1 .. n}
           s == FirstUnits(au, n)
<1>1. s \in Seq(W) /\ Len(s) = n /\ \A i \in 1 .. n : s[i] = Whole(au[i])
  BY DEF FirstUnits
<1>2. s \o <<>> = s /\ <<>> \o s = s
  <2> HIDE DEF s, W
  <2> QED
    BY <1>1
<1>3. FirstUnits(au, 0) = <<>>
  BY DEF FirstUnits
<1>4. ASSUME n > 0 PROVE FirstUnits(au, n - 1) \o <<Whole(au[n])>> = s
  <2> DEFINE r == FirstUnits(au, n - 1)
             e == <<Whole(au[n])>>
  <2>1. r \in Seq(W) /\ Len(r) = n - 1 /\ \A i \in 1 .. n - 1 : r[i] = Whole(au[i])
    <3>1. n - 1 \in Nat /\ \A i \in 1 .. n - 1 : i \in 1 .. n
      BY <1>4
    <3> QED
      BY <3>1 DEF FirstUnits
  <2>2. e \in Seq(W) /\ Len(e) = 1 /\ e[1] = Whole(au[n])
    BY <1>4
  <2> HIDE DEF r, e, W, s
  <2>3. /\ r \o e \in Seq(W) /\ Len(r \o e) = n
        /\ \A i \in 1 .. n : (r \o e)[i] = IF i <= n - 1 THEN r[i] ELSE e[i - (n - 1)]
    <3>1. /\ r \o e \in Seq(W) /\ Len(r \o e) = Len(r) + Len(e)
          /\ \A i \in 1 .. Len(r) + Len(e) : (r \o e)[i] = IF i <= Len(r) THEN r[i] ELSE e[i - Len(r)]
      BY <2>1, <2>2, ConcatProperties
    <3>2. Len(r) + Len(e) = n
      BY <2>1, <2>2
    <3> QED
      BY <2>1, <3>1, <3>2
  <2>4. ASSUME NEW i \in 1 .. n PROVE (r \o e)[i] = s[i]
    <3>1. CASE i <= n - 1
      BY <1>1, <2>1, <2>3, <3>1
    <3>2. CASE i = n
      <4>1. n - (n - 1) = 1 /\ ~(n <= n - 1)
        OBVIOUS
      <4> QED
        BY <1>1, <2>2, <2>3, <3>2, <4>1
    <3>3. i <= n - 1 \/ i = n
      OBVIOUS
    <3> QED
      BY <3>1, <3>2, <3>3
  <2>5. r \o e = s
    BY <1>1, <2>3, <2>4, SeqEqual
  <2> QED
    BY <2>5 DEF r, e
<1> QED
  BY <1>2, <1>3, <1>4 DEF s

\* One payload more of an access unit; after the last it is whole.
LEMMA PayloadStep ==
  ASSUME NEW au \in Seq(NalUnits), NEW ps \in Packed(au), NEW m \in 0 .. Len(ps) - 1, NEW d, NEW buf,
         Fits(au), Arrived(au, ps, m, d, buf)
  PROVE  /\ m + 1 = Len(ps) => buf \o Depacketize(d, ps[m + 1]) = FirstUnits(au, Len(au))
         /\ m + 1 < Len(ps) =>
              Arrived(au, ps, m + 1, AfterPayload(d, ps[m + 1]), buf \o Depacketize(d, ps[m + 1]))
<1> DEFINE P(u) == PackageH264NALU(u)
           N == Len(au)
<1>1. /\ N \in Nat /\ \A i \in 1 .. N : au[i] \in NalUnits /\ au[i].len <= MaxReassembly
      /\ DOMAIN au = 1 .. N
  BY DEF Fits
<1>2. ASSUME NEW a, a \in PackageH264STAPA(au), ps = <<a>>
      PROVE  m + 1 = Len(ps) /\ buf \o Depacketize(d, ps[m + 1]) = FirstUnits(au, N)
  <2>1. N >= 2 /\ a.kind = "stapa" /\ a.units = FirstUnits(au, N)
    <3> DEFINE total == 1 + FoldSeq(LAMBDA n, sum : sum + 2 + n.len, 0, au)
               x == [kind |-> "stapa", units |-> [i \in DOMAIN au |-> Whole(au[i])]]
    <3>1. PackageH264STAPA(au) =
            IF /\ Len(au) >= 2 /\ \A i \in DOMAIN au : au[i].len > 0
               /\ total <= Mtu
            THEN {x} ELSE {}
      BY DEF PackageH264STAPA
    <3> HIDE DEF total
    <3>2. N >= 2 /\ a = x
      <4> HIDE DEF x
      <4> QED
        BY <1>2, <3>1
    <3>3. x.units = FirstUnits(au, N) /\ x.kind = "stapa"
      BY <1>1 DEF FirstUnits
    <3> HIDE DEF x
    <3> QED
      BY <3>2, <3>3
  <2>2. m = 0 /\ Len(ps) = 1 /\ ps[m + 1] = a
    BY <1>2
  <2>3. buf = <<>>
    <3> SUFFICES ASSUME NEW f \in [0 .. N -> 0 .. Len(ps)], Offsets(f, au, ps) PROVE FALSE
      BY DEF Arrived
    <3>1. /\ f[0] = 0 /\ f[1] = f[0] + Len(P(au[1])) /\ f[2] = f[1] + Len(P(au[2])) /\ f[2] \in 0 .. 1
      <4>1. 1 \in 1 .. N /\ 2 \in 1 .. N /\ 2 \in 0 .. N /\ 2 - 1 = 1 /\ 1 - 1 = 0
        BY <1>1, <2>1
      <4> QED
        BY <2>2, <4>1 DEF Offsets
    <3>2. Len(P(au[1])) \in Nat \ {0} /\ Len(P(au[2])) \in Nat \ {0}
      <4>1. au[1] \in NalUnits /\ au[2] \in NalUnits
        BY <1>1, <2>1
      <4> QED
        BY <4>1, PackageSome
    <3> HIDE DEF P
    <3> QED
      BY <3>1, <3>2
  <2>4. Depacketize(d, a) = a.units
    BY <2>1 DEF Depacketize
  <2> QED
    BY <1>1, <2>1, <2>2, <2>3, <2>4, UnitsJoin
<1>3. ASSUME ps = Payloads(au)
      PROVE  \E f \in [0 .. N -> 0 .. Len(ps)] : Offsets(f, au, ps) /\
               \E i \in 1 .. N : \E j \in 0 .. Len(P(au[i])) - 1 :
                 /\ m = f[i - 1] + j
                 /\ buf = FirstUnits(au, i - 1)
                 /\ j > 0 => d = Begun(au[i], j)
  <2>1. CASE m = 0 /\ buf = <<>>
    <3>1. PICK f \in [0 .. N -> 0 .. Len(ps)] : Offsets(f, au, ps)
      BY <1>3, LaidOut
    <3>2. f[0] = 0 /\ f[N] = Len(ps)
      BY <3>1 DEF Offsets
    <3>3. N # 0
      BY <2>1, <3>2
    <3>4. 1 \in 1 .. N /\ 1 - 1 = 0 /\ 0 \in 0 .. Len(P(au[1])) - 1
      <4>1. 1 \in 1 .. N
        BY <1>1, <3>3
      <4>2. Len(P(au[1])) \in Nat \ {0}
        BY <1>1, <4>1, PackageSome
      <4> HIDE DEF P
      <4> QED
        BY <4>1, <4>2
    <3>5. buf = FirstUnits(au, 0) /\ m = f[0] + 0
      BY <2>1, <3>2 DEF FirstUnits
    <3> HIDE DEF P
    <3>6. /\ m = f[1 - 1] + 0 /\ buf = FirstUnits(au, 1 - 1) /\ (0 > 0 => d = Begun(au[1], 0))
      BY <3>4, <3>5
    <3> QED
      BY <3>1, <3>4, <3>6
  <2> QED
    BY <2>1 DEF Arrived
<1>4. ASSUME ps = Payloads(au)
      PROVE  /\ m + 1 = Len(ps) => buf \o Depacketize(d, ps[m + 1]) = FirstUnits(au, N)
             /\ m + 1 < Len(ps) =>
                  Arrived(au, ps, m + 1, AfterPayload(d, ps[m + 1]), buf \o Depacketize(d, ps[m + 1]))
  <2>8. PICK f \in [0 .. N -> 0 .. Len(ps)], i \in 1 .. N :
          Offsets(f, au, ps) /\ \E j \in 0 .. Len(P(au[i])) - 1 :
            /\ m = f[i - 1] + j
            /\ buf = FirstUnits(au, i - 1)
            /\ j > 0 => d = Begun(au[i], j)
    BY <1>3, <1>4
  <2>1. PICK j \in 0 .. Len(P(au[i])) - 1 :
          /\ Offsets(f, au, ps)
          /\ m = f[i - 1] + j
          /\ buf = FirstUnits(au, i - 1)
          /\ j > 0 => d = Begun(au[i], j)
    BY <2>8
  <2> DEFINE u == au[i]
             p == ps[m + 1]
  <2>2. u \in NalUnits /\ u.len <= MaxReassembly /\ Len(P(u)) \in Nat \ {0} /\ j \in Nat /\ j + 1 \in 1 .. Len(P(u))
    <3>1. u \in NalUnits /\ u.len <= MaxReassembly
      BY <1>1
    <3>2. Len(P(u)) \in Nat \ {0}
      BY <3>1, PackageSome
    <3> HIDE DEF P
    <3> QED
      BY <3>1, <3>2
  <2>3. /\ f[i] = f[i - 1] + Len(P(u)) /\ f[N] = Len(ps)
        /\ f[i] \in Nat /\ f[i - 1] \in Nat /\ Len(ps) \in Nat /\ f[i] <= Len(ps)
        /\ ps[f[i - 1] + (j + 1)] = P(u)[j + 1]
    <3>1. i \in 0 .. N /\ i - 1 \in 0 .. N /\ N \in 0 .. N
      BY <1>1
    <3>2. f[i] \in 0 .. Len(ps) /\ f[i - 1] \in 0 .. Len(ps) /\ f[N] \in 0 .. Len(ps)
      BY <3>1
    <3>3. f[i] = f[i - 1] + Len(P(u)) /\ f[N] = Len(ps) /\ ps[f[i - 1] + (j + 1)] = P(u)[j + 1]
      BY <2>1, <2>2 DEF Offsets
    <3> HIDE DEF P
    <3> QED
      BY <3>2, <3>3
  <2>4. m + 1 = f[i - 1] + (j + 1) /\ p = P(u)[j + 1]
    <3>1. m = f[i - 1] + j
      BY <2>1
    <3> HIDE DEF P
    <3>2. m + 1 = f[i - 1] + (j + 1)
      <4>1. f[i - 1] \in Nat /\ j \in Nat
        BY <2>2, <2>3, Zenon
      <4> QED
        BY <3>1, <4>1, PlusOne, Zenon
    <3> QED
      BY <2>3, <3>2
  <2>5. /\ j + 1 = Len(P(u)) => Depacketize(d, p) = <<Whole(u)>>
        /\ j + 1 < Len(P(u)) => Depacketize(d, p) = <<>> /\ AfterPayload(d, p) = Begun(u, j + 1)
    <3> HIDE DEF p, u
    <3>1. \/ j = 0
          \/ j > 0 /\ d = Begun(u, j)
      BY <2>1, <2>2 DEF u
    <3>2. j \in 0 .. Len(PackageH264NALU(u)) - 1 /\ u \in NalUnits /\ u.len <= MaxReassembly
      BY <2>2 DEF u
    <3>3. j > 0 => d = Begun(u, j)
      BY <2>2, <3>1
    <3>4. p = PackageH264NALU(u)[j + 1]
      BY <2>4
    <3>5. /\ j + 1 = Len(PackageH264NALU(u)) => Depacketize(d, PackageH264NALU(u)[j + 1]) = <<Whole(u)>>
          /\ j + 1 < Len(PackageH264NALU(u)) =>
               /\ Depacketize(d, PackageH264NALU(u)[j + 1]) = <<>>
               /\ AfterPayload(d, PackageH264NALU(u)[j + 1]) = Begun(u, j + 1)
      BY <3>2, <3>3, UnitStep
    <3> QED
      BY <3>4, <3>5
  <2> HIDE DEF P, u, p
  <2>6. CASE j + 1 < Len(P(u))
    <3>1. m + 1 < Len(ps)
      BY <2>2, <2>3, <2>4, <2>6
    <3>2. buf \o Depacketize(d, p) = FirstUnits(au, i - 1)
      <4>1. i - 1 \in Nat
        OBVIOUS
      <4> QED
        BY <2>1, <2>5, <2>6, <4>1, UnitsJoin
    <3>3. /\ j + 1 \in 0 .. Len(P(u)) - 1 /\ m + 1 = f[i - 1] + (j + 1)
          /\ AfterPayload(d, p) = Begun(u, j + 1)
      BY <2>2, <2>4, <2>5, <2>6
    <3>4. Arrived(au, ps, m + 1, AfterPayload(d, p), buf \o Depacketize(d, p))
      BY <2>1, <3>2, <3>3 DEF Arrived, P, u
    <3> QED
      BY <3>1, <3>4 DEF p
  <2>7. CASE j + 1 = Len(P(u))
    <3>1. m + 1 = f[i]
      BY <2>3, <2>4, <2>7
    <3>2. buf \o Depacketize(d, p) = FirstUnits(au, i)
      <4>1. i \in Nat /\ i > 0
        OBVIOUS
      <4> QED
        BY <2>1, <2>5, <2>7, <4>1, UnitsJoin DEF u
    <3>3. CASE i = N
      BY <2>3, <3>1, <3>2, <3>3 DEF p
    <3>4. CASE i # N
      <4>0. i \in Nat /\ 1 <= i /\ i <= N /\ N \in Nat
        BY <1>1
      <4>1. i + 1 \in 1 .. N /\ (i + 1) - 1 = i /\ i + 1 \in 0 .. N
        <5> HIDE DEF N
        <5> QED
          BY <3>4, <4>0
      <4>2. Len(P(au[i + 1])) \in Nat \ {0}
        BY <1>1, <4>1, PackageSome DEF P
      <4>3. f[i + 1] = f[i] + Len(P(au[i + 1])) /\ f[i + 1] \in 0 .. Len(ps)
        BY <2>1, <4>1 DEF Offsets, P
      <4>4. m + 1 < Len(ps)
        <5>1. f[i] \in Nat /\ Len(ps) \in Nat
          BY <2>3, Zenon
        <5>2. f[i + 1] \in Nat /\ f[i + 1] <= Len(ps)
          BY <4>3, <5>1
        <5>3. f[i] < Len(ps)
          BY <4>2, <4>3, <5>1, <5>2, RoomLeft, Zenon
        <5> QED
          BY <3>1, <5>3, Zenon
      <4>5. 0 \in 0 .. Len(P(au[i + 1])) - 1 /\ m + 1 = f[(i + 1) - 1] + 0
        <5>1. f[i] \in Nat
          BY <2>3, Zenon
        <5>2. 0 \in 0 .. Len(P(au[i + 1])) - 1
          BY <4>2, FromNone, Zenon
        <5>3. f[i] + 0 = f[i] /\ f[(i + 1) - 1] = f[i]
          BY <4>1, <5>1, PlusNone, Zenon
        <5> QED
          BY <3>1, <5>2, <5>3, Zenon
      <4>6. buf \o Depacketize(d, p) = FirstUnits(au, (i + 1) - 1)
        BY <3>2, <4>1
      <4>7. 0 > 0 => AfterPayload(d, p) = Begun(au[i + 1], 0)
        OBVIOUS
      <4>8. Arrived(au, ps, m + 1, AfterPayload(d, p), buf \o Depacketize(d, p))
        <5> DEFINE k == i + 1
        <5>1. k \in 1 .. N /\ 0 \in 0 .. Len(P(au[k])) - 1 /\ m + 1 = f[k - 1] + 0
          BY <4>1, <4>5
        <5>2. buf \o Depacketize(d, p) = FirstUnits(au, k - 1) /\ (0 > 0 => AfterPayload(d, p) = Begun(au[k], 0))
          BY <4>6
        <5> HIDE DEF k
        <5> QED
          BY <2>1, <5>1, <5>2 DEF Arrived, P
      <4> QED
        BY <4>4, <4>8 DEF p
    <3> QED
      BY <3>3, <3>4
  <2> QED
    BY <2>2, <2>6, <2>7
<1> QED
  BY <1>2, <1>4 DEF Packed

LEMMA PackedIsSequence ==
  ASSUME NEW au \in Seq(NalUnits), NEW ps \in Packed(au)
  PROVE  IsSequence(ps) /\ Len(ps) \in Nat /\ DOMAIN ps = 1 .. Len(ps) /\ (ps # <<>> <=> Len(ps) > 0)
<1>1. ASSUME NEW a, ps = <<a>> PROVE IsSequence(ps)
  <2> DEFINE T == {a}
  <2>1. ps \in Seq(T)
    BY <1>1
  <2> HIDE DEF T
  <2> QED
    BY <2>1 DEF IsSequence
<1>2. IsSequence(ps)
  BY <1>1, LaidOut DEF Packed
<1> QED
  BY <1>2 DEF IsSequence

\* What the receiver expects of a packet comes true.
LEMMA ExpectsStep ==
  ASSUME NEW n \in 1 .. Len(broadcast), NEW d, NEW buf, SentInGroups, Expects(n, d, buf)
  PROVE  /\ broadcast[n].marker /\ Fits(Units[broadcast[n].au]) =>
              buf \o Depacketize(d, broadcast[n].payload) =
                [i \in DOMAIN Units[broadcast[n].au] |-> Whole(Units[broadcast[n].au][i])]
         /\ ~broadcast[n].marker =>
              Expects(n + 1, AfterPayload(d, broadcast[n].payload), buf \o Depacketize(d, broadcast[n].payload))
<1>1. PICK s \in 1 .. n, a \in DOMAIN Units : \E ps \in Packed(Units[a]) :
        /\ SentAs(s, ps, a) /\ n <= s + Len(ps) - 1
        /\ Fits(Units[a]) => Arrived(Units[a], ps, n - s, d, buf)
  <2>1. CASE n <= Len(broadcast) + 1 /\ Begins(n) /\ buf = <<>>
    <3>0. PICK a \in DOMAIN Units : \E ps \in Packed(Units[a]) : SentAs(n, ps, a)
      BY <2>1 DEF SentInGroups
    <3>1. PICK ps \in Packed(Units[a]) : SentAs(n, ps, a)
      BY <3>0
    <3>2. Units[a] \in Seq(NalUnits)
      BY VideoPathAssumption DEF NalUnits
    <3>3. Len(ps) \in Nat /\ Len(ps) > 0
      BY <3>1, <3>2, PackedIsSequence DEF SentAs
    <3>4. n <= n + Len(ps) - 1 /\ n - n = 0 /\ n \in 1 .. n
      BY <3>3
    <3>5. Arrived(Units[a], ps, n - n, d, buf)
      BY <2>1, <3>4 DEF Arrived
    <3> QED
      BY <3>1, <3>4, <3>5
  <2>2. CASE ~(n <= Len(broadcast) + 1 /\ Begins(n) /\ buf = <<>>)
    <3>1. \A s \in 1 .. n - 1 : s \in 1 .. n
      OBVIOUS
    <3> QED
      BY <2>2, <3>1 DEF Expects
  <2> QED
    BY <2>1, <2>2
<1>2. PICK ps \in Packed(Units[a]) :
        /\ SentAs(s, ps, a) /\ n <= s + Len(ps) - 1
        /\ Fits(Units[a]) => Arrived(Units[a], ps, n - s, d, buf)
  BY <1>1
<1>3. Units[a] \in Seq(NalUnits) /\ DOMAIN Units[a] = 1 .. Len(Units[a])
  BY VideoPathAssumption DEF NalUnits
<1>4. Len(ps) \in Nat /\ Len(ps) > 0
  BY <1>2, <1>3, PackedIsSequence DEF SentAs
<1> DEFINE m == n - s
           d2 == AfterPayload(d, ps[m + 1])
           buf2 == buf \o Depacketize(d, ps[m + 1])
<1>5. m \in 0 .. Len(ps) - 1 /\ m + 1 \in 1 .. Len(ps) /\ s + (m + 1) - 1 = n /\ (n + 1) - s = m + 1
  BY <1>2, <1>4
<1>6. broadcast[n] = [au |-> a, payload |-> ps[m + 1], marker |-> m + 1 = Len(ps)]
  <2> HIDE DEF m
  <2> QED
    BY <1>2, <1>5 DEF SentAs
<1>7. broadcast[n].au = a /\ broadcast[n].payload = ps[m + 1] /\ (broadcast[n].marker <=> m + 1 = Len(ps))
  <2> HIDE DEF m
  <2> DEFINE e == broadcast[n]
             x == ps[m + 1]
             last == m + 1
  <2>1. e = [au |-> a, payload |-> x, marker |-> last = Len(ps)]
    BY <1>6
  <2> HIDE DEF e, x, last
  <2>2. e.au = a /\ e.payload = x
    BY <2>1
  <2>3. e.marker <=> last = Len(ps)
    BY <2>1
  <2> QED
    BY <2>2, <2>3 DEF e, x, last
<1>8. Fits(Units[a]) => /\ m + 1 = Len(ps) => buf2 = FirstUnits(Units[a], Len(Units[a]))
                        /\ m + 1 < Len(ps) => Arrived(Units[a], ps, m + 1, d2, buf2)
  <2> HIDE DEF m
  <2>1. Fits(Units[a]) => Arrived(Units[a], ps, m, d, buf)
    BY <1>2 DEF m
  <2> QED
    BY <1>3, <1>5, <2>1, PayloadStep
<1>9. FirstUnits(Units[a], Len(Units[a])) = [i \in DOMAIN Units[a] |-> Whole(Units[a][i])]
  BY <1>3 DEF FirstUnits
<1>10. ASSUME m + 1 # Len(ps) PROVE Expects(n + 1, d2, buf2)
  <2>1. s \in 1 .. (n + 1) - 1 /\ n + 1 <= s + Len(ps) - 1 /\ m + 1 < Len(ps)
    BY <1>4, <1>5, <1>10
  <2>2. Fits(Units[a]) => Arrived(Units[a], ps, (n + 1) - s, d2, buf2)
    <3> HIDE DEF m, d2, buf2
    <3> QED
      BY <1>5, <1>8, <2>1
  <2> HIDE DEF m, d2, buf2
  <2> DEFINE k == n + 1
  <2>3. s \in 1 .. k - 1 /\ k <= s + Len(ps) - 1 /\ (Fits(Units[a]) => Arrived(Units[a], ps, k - s, d2, buf2))
    BY <2>1, <2>2
  <2> HIDE DEF k
  <2>4. Expects(k, d2, buf2)
    BY <1>2, <2>3 DEF Expects
  <2> QED
    BY <2>4 DEF k
<1> HIDE DEF m
<1> QED
  BY <1>7, <1>8, <1>9, <1>10

\* What is sent later changes nothing of what was sent.
LEMMA ExpectsStays ==
  ASSUME NEW n \in Nat \ {0}, NEW d, NEW buf,
         IsSequence(broadcast), Len(broadcast)' \in Nat, Len(broadcast) <= Len(broadcast)',
         \A i \in 1 .. Len(broadcast) : broadcast'[i] = broadcast[i],
         Expects(n, d, buf)
  PROVE  Expects(n, d, buf)'
<1>0. Len(broadcast) \in Nat
  BY DEF IsSequence
<1>1. CASE n <= Len(broadcast) + 1 /\ Begins(n) /\ buf = <<>>
  <2>1. n <= Len(broadcast)' + 1
    BY <1>0, <1>1
  <2>2. Begins(n)'
    <3>1. n = 1 \/ n - 1 \in 1 .. Len(broadcast)
      BY <1>0, <1>1
    <3> QED
      BY <1>1, <3>1 DEF Begins
  <2> QED
    BY <1>1, <2>1, <2>2 DEF Expects
<1>2. CASE ~(n <= Len(broadcast) + 1 /\ Begins(n) /\ buf = <<>>)
  <2>1. PICK s \in 1 .. n - 1, a \in DOMAIN Units : \E ps \in Packed(Units[a]) :
          /\ SentAs(s, ps, a) /\ n <= s + Len(ps) - 1
          /\ Fits(Units[a]) => Arrived(Units[a], ps, n - s, d, buf)
    BY <1>2 DEF Expects
  <2>2. PICK ps \in Packed(Units[a]) :
          /\ SentAs(s, ps, a) /\ n <= s + Len(ps) - 1
          /\ Fits(Units[a]) => Arrived(Units[a], ps, n - s, d, buf)
    BY <2>1
  <2>3. SentAs(s, ps, a)'
    <3>1. Len(ps) \in Nat
      <4>1. Units[a] \in Seq(NalUnits)
        BY VideoPathAssumption DEF NalUnits
      <4> QED
        BY <4>1, PackedIsSequence
    <3>2. ASSUME NEW i \in 1 .. Len(ps) PROVE s + i - 1 \in 1 .. Len(broadcast)
      BY <1>0, <2>2, <3>1 DEF SentAs
    <3> QED
      BY <1>0, <2>2, <3>1, <3>2 DEF SentAs
  <2> QED
    BY <2>2, <2>3 DEF Expects
<1> QED
  BY <1>1, <1>2

LEMMA SentInGroupsStays ==
  ASSUME SentInGroups, clean \in Nat, FeedCaptured
  PROVE  /\ SentInGroups'
         /\ Len(broadcast)' \in Nat /\ Len(broadcast) <= Len(broadcast)'
         /\ \A i \in 1 .. Len(broadcast) : broadcast'[i] = broadcast[i]
<1>0. PICK L, at : L = Len(broadcast) /\ at = fed'
  OBVIOUS
<1>1. L \in Nat /\ IsSequence(broadcast) /\ fed \in 0 .. Len(Units) /\ Len(Units) \in Nat
  BY <1>0, VideoPathAssumption DEF SentInGroups, IsSequence
<1>2. at \in 0 .. Len(Units) /\ at \in DOMAIN Units /\ Units[at] \in Seq(NalUnits)
  <2>1. at = fed + 1 /\ fed < Len(Units)
    BY <1>0 DEF FeedCaptured
  <2>2. at \in 1 .. Len(Units)
    BY <1>1, <2>1
  <2> QED
    BY <2>2, VideoPathAssumption DEF NalUnits
<1>3. CASE broadcast' = broadcast
  <2>1. IsSequence(broadcast)' /\ (Len(broadcast) > 0 => broadcast[Len(broadcast)].marker)'
    BY <1>1, <1>3 DEF SentInGroups
  <2>2. (\A n \in 1 .. Len(broadcast) : Begins(n) =>
           \E a \in DOMAIN Units : \E ps \in Packed(Units[a]) : SentAs(n, ps, a))'
    BY <1>3 DEF SentInGroups, Begins, SentAs
  <2> QED
    BY <1>0, <1>1, <1>2, <1>3, <2>1, <2>2 DEF SentInGroups
<1>4. ASSUME NEW ps \in Packed(Units[at]),
             broadcast' = broadcast \o
               [i \in DOMAIN ps |-> [au |-> at, payload |-> ps[i], marker |-> i = Len(ps)]],
             ps # <<>>
      PROVE  /\ SentInGroups'
             /\ Len(broadcast)' \in Nat /\ Len(broadcast) <= Len(broadcast)'
             /\ \A i \in 1 .. Len(broadcast) : broadcast'[i] = broadcast[i]
  <2> DEFINE K == Len(ps)
             more(i) == [au |-> at, payload |-> ps[i], marker |-> i = K]
             ext == [i \in 1 .. K |-> more(i)]
             T == {more(i) : i \in 1 .. K}
  <2>1. K \in Nat /\ K > 0 /\ DOMAIN ps = 1 .. K
    BY <1>2, <1>4, PackedIsSequence
  <2>2. ext \in Seq(T) /\ Len(ext) = K /\ \A i \in 1 .. K : ext[i] = more(i)
    <3> HIDE DEF more
    <3> QED
      BY <2>1
  <2>3. broadcast' = broadcast \o ext
    BY <1>4, <2>1
  <2> HIDE DEF ext, T
  <2>4. PICK S : broadcast \in Seq(S)
    BY <1>1 DEF IsSequence
  <2> DEFINE U == S \cup T
  <2>5. broadcast \in Seq(U) /\ ext \in Seq(U)
    BY <2>2, <2>4
  <2>6. /\ broadcast' \in Seq(U) /\ Len(broadcast') = L + K
        /\ \A i \in 1 .. L + K : broadcast'[i] = IF i <= L THEN broadcast[i] ELSE ext[i - L]
    <3> HIDE DEF U
    <3> DEFINE s == broadcast
    <3>1. s \in Seq(U) /\ Len(s) = L /\ broadcast' = s \o ext
      BY <1>0, <2>3, <2>5
    <3>2. ext \in Seq(U) /\ Len(ext) = K
      BY <2>2, <2>5
    <3> HIDE DEF s, K
    <3>3. /\ s \o ext \in Seq(U) /\ Len(s \o ext) = Len(s) + Len(ext)
          /\ \A i \in 1 .. Len(s) + Len(ext) : (s \o ext)[i] = IF i <= Len(s) THEN s[i] ELSE ext[i - Len(s)]
      BY <3>1, <3>2, ConcatProperties
    <3> QED
      BY <3>1, <3>2, <3>3 DEF s
  <2>7. \A i \in 1 .. L : broadcast'[i] = broadcast[i]
    BY <1>1, <2>1, <2>6
  <2>8. ASSUME NEW i \in 1 .. K PROVE broadcast'[L + i] = more(i)
    <3> HIDE DEF K, more
    <3>1. L + i \in 1 .. L + K /\ ~(L + i <= L) /\ (L + i) - L = i
      BY <1>1, <2>1
    <3>2. broadcast'[L + i] = ext[(L + i) - L]
      BY <2>6, <3>1
    <3>3. ext[(L + i) - L] = ext[i]
      BY <3>1
    <3>4. ext[i] = more(i)
      BY <2>2
    <3> QED
      BY <3>2, <3>3, <3>4
  <2>9. IsSequence(broadcast)' /\ Len(broadcast)' = L + K
    <3> HIDE DEF U
    <3> QED
      BY <2>6 DEF IsSequence
  <2>10. broadcast'[L + K].marker
    <3>1. K \in 1 .. K
      BY <2>1
    <3>2. broadcast'[L + K] = more(K)
      <4> HIDE DEF K, more
      <4> QED
        BY <2>8, <3>1
    <3>3. broadcast'[L + K] = [au |-> at, payload |-> ps[K], marker |-> TRUE]
      BY <3>2
    <3> HIDE DEF K
    <3> QED
      BY <3>3
  <2>11. SentAs(L + 1, ps, at)'
    <3>1. ASSUME NEW i \in 1 .. K PROVE broadcast'[(L + 1) + i - 1] = more(i)
      <4>1. (L + 1) + i - 1 = L + i
        BY <1>1
      <4> QED
        BY <2>8, <4>1
    <3>2. (L + 1) + K - 1 <= Len(broadcast)'
      BY <1>1, <2>1, <2>9
    <3> QED
      BY <1>2, <1>4, <2>1, <3>1, <3>2 DEF SentAs
  <2>12. ASSUME NEW n \in 1 .. L + K, Begins(n)'
         PROVE  \E a \in DOMAIN Units : \E qs \in Packed(Units[a]) : SentAs(n, qs, a)'
    <3>1. CASE n <= L
      <4>1. n = 1 \/ n - 1 \in 1 .. L
        BY <1>1, <3>1
      <4>2. Begins(n)
        BY <2>7, <2>12, <4>1 DEF Begins
      <4>3. PICK a \in DOMAIN Units : \E qs \in Packed(Units[a]) : SentAs(n, qs, a)
        BY <3>1, <1>0, <1>1, <4>2 DEF SentInGroups
      <4>4. PICK qs \in Packed(Units[a]) : SentAs(n, qs, a)
        BY <4>3
      <4>5. Len(qs) \in Nat
        <5>1. Units[a] \in Seq(NalUnits)
          BY VideoPathAssumption DEF NalUnits
        <5> QED
          BY <5>1, PackedIsSequence
      <4>6. \A i \in 1 .. Len(qs) : n + i - 1 \in 1 .. L
        BY <1>0, <1>1, <4>4, <4>5 DEF SentAs
      <4>7. n + Len(qs) - 1 <= L + K
        BY <1>0, <1>1, <2>1, <4>4, <4>5 DEF SentAs
      <4>8. SentAs(n, qs, a)'
        BY <2>7, <2>9, <4>4, <4>6, <4>7 DEF SentAs
      <4> QED
        BY <4>8
    <3>2. CASE n = L + 1
      BY <1>2, <1>4, <2>11, <3>2
    <3>3. CASE n > L + 1
      <4>1. n # 1 /\ n - 1 = L + (n - 1 - L) /\ n - 1 - L \in 1 .. K /\ n - 1 - L # K
        BY <1>1, <2>1, <3>3
      <4> DEFINE i == n - 1 - L
      <4>2. broadcast'[n - 1] = more(i) /\ i # K
        BY <2>8, <4>1
      <4>3. ~broadcast'[n - 1].marker
        <5>1. broadcast'[n - 1] = [au |-> at, payload |-> ps[i], marker |-> FALSE]
          BY <4>2
        <5> HIDE DEF i
        <5> QED
          BY <5>1
      <4> QED
        BY <2>12, <4>1, <4>3 DEF Begins
    <3> QED
      BY <1>1, <3>1, <3>2, <3>3
  <2>13. SentInGroups'
    <3>1. (Len(broadcast) > 0 => broadcast[Len(broadcast)].marker)'
      BY <2>9, <2>10
    <3>2. (\A n \in 1 .. Len(broadcast) : Begins(n) =>
             \E a \in DOMAIN Units : \E qs \in Packed(Units[a]) : SentAs(n, qs, a))'
      BY <2>9, <2>12
    <3> QED
      BY <1>0, <1>2, <2>9, <3>1, <3>2 DEF SentInGroups
  <2> QED
    BY <1>0, <1>1, <2>1, <2>7, <2>9, <2>13
<1>5. ASSUME NEW ps \in Packed(Units[at]),
             broadcast' = broadcast \o
               [i \in DOMAIN ps |-> [au |-> at, payload |-> ps[i], marker |-> i = Len(ps)]],
             ps = <<>>
      PROVE  broadcast' = broadcast
  <2>1. PICK S : broadcast \in Seq(S)
    BY <1>1 DEF IsSequence
  <2> DEFINE ext == [i \in DOMAIN ps |-> [au |-> at, payload |-> ps[i], marker |-> i = Len(ps)]]
  <2>2. ext = <<>>
    BY <1>5
  <2>3. broadcast' = broadcast \o ext
    BY <1>5
  <2> HIDE DEF ext
  <2> QED
    BY <2>1, <2>2, <2>3
<1>6. \/ broadcast' = broadcast
      \/ \E ps \in Packed(Units[at]) :
           broadcast' = broadcast \o
             [i \in DOMAIN ps |-> [au |-> at, payload |-> ps[i], marker |-> i = Len(ps)]]
  BY <1>0 DEF FeedCaptured
<1>7. CASE broadcast' # broadcast
  <2>1. PICK ps \in Packed(Units[at]) :
           broadcast' = broadcast \o
             [i \in DOMAIN ps |-> [au |-> at, payload |-> ps[i], marker |-> i = Len(ps)]]
    BY <1>6, <1>7
  <2> QED
    BY <1>4, <1>5, <1>7, <2>1
<1> QED
  BY <1>0, <1>1, <1>3, <1>7

LEMMA FeedCapturedKeeps ==
  ASSUME VideoInv, FeedCaptured PROVE VideoInv'
<1>1. SentInGroups /\ CleanIsAlone /\ InStep /\ CleanUnitsArriveWhole /\ clean \in Nat /\ IsSequence(broadcast)
  BY DEF VideoInv, CleanIsAlone, SentInGroups
<1>2. UNCHANGED <<up, depack, frameBuf, linkPc, packet, units, clean, frame>>
  BY DEF FeedCaptured, linkVars
<1>3. /\ SentInGroups'
      /\ Len(broadcast)' \in Nat /\ Len(broadcast) <= Len(broadcast)'
      /\ \A i \in 1 .. Len(broadcast) : broadcast'[i] = broadcast[i]
  BY <1>1, SentInGroupsStays
<1>4. Len(broadcast) \in Nat
  BY <1>1 DEF IsSequence
<1>5. CleanIsAlone'
  <2>1. \A c \in Links : linkPc[c] = "collect" => packet[c] \in 1 .. Len(broadcast)'
    BY <1>1, <1>3, <1>4 DEF CleanIsAlone
  <2> QED
    BY <1>1, <1>2, <2>1 DEF CleanIsAlone, Alone
<1>6. InStep'
  <2> SUFFICES ASSUME up, clean # 0
               PROVE  /\ (\A c \in Links : linkPc[c] = "idle") => Expects(clean, depack, frameBuf)'
                      /\ \A c \in Links : linkPc[c] = "collect" =>
                           \E d : /\ Expects(clean, d, frameBuf)'
                                  /\ units[c] = Depacketize(d, broadcast'[clean].payload)
                                  /\ depack = AfterPayload(d, broadcast'[clean].payload)
    BY <1>2 DEF InStep, Expects, SentAs, Begins
  <2>1. clean \in Nat \ {0}
    BY <1>1
  <2>2. ASSUME NEW d, Expects(clean, d, frameBuf) PROVE Expects(clean, d, frameBuf)'
    BY <1>1, <1>2, <1>3, <2>1, <2>2, ExpectsStays
  <2>3. (\A c \in Links : linkPc[c] = "idle") => Expects(clean, depack, frameBuf)'
    BY <1>1, <1>2, <2>2 DEF InStep
  <2>4. ASSUME NEW c \in Links, linkPc[c] = "collect"
        PROVE  \E d : /\ Expects(clean, d, frameBuf)'
                      /\ units[c] = Depacketize(d, broadcast'[clean].payload)
                      /\ depack = AfterPayload(d, broadcast'[clean].payload)
    <3>1. PICK d : /\ Expects(clean, d, frameBuf)
                   /\ units[c] = Depacketize(d, broadcast[clean].payload)
                   /\ depack = AfterPayload(d, broadcast[clean].payload)
      BY <1>1, <2>4 DEF InStep
    <3>2. broadcast'[clean] = broadcast[clean]
      BY <1>1, <1>3, <2>4 DEF CleanIsAlone
    <3> QED
      BY <2>2, <3>1, <3>2
  <2> QED
    BY <2>3, <2>4
<1>7. CleanUnitsArriveWhole'
  BY <1>1, <1>2 DEF CleanUnitsArriveWhole
<1> QED
  BY <1>3, <1>5, <1>6, <1>7 DEF VideoInv

LEMMA HandleRelayDataKeeps ==
  ASSUME VideoInv, NEW c \in Links, HandleRelayData(c) PROVE VideoInv'
<1>1. SentInGroups /\ CleanIsAlone /\ InStep /\ CleanUnitsArriveWhole
  BY DEF VideoInv
<1>2. UNCHANGED <<up, fed, broadcast, frameBuf, frame>> /\ up /\ linkPc[c] = "idle"
  BY DEF HandleRelayData
<1>3. PICK n \in DOMAIN broadcast :
        /\ packet' = [packet EXCEPT ![c] = n]
        /\ units' = [units EXCEPT ![c] = Depacketize(depack, broadcast[n].payload)]
        /\ depack' = AfterPayload(depack, broadcast[n].payload)
        /\ clean' = IF Alone(c) /\ n = clean THEN clean ELSE 0
        /\ linkPc' = [linkPc EXCEPT ![c] = "collect"]
  BY DEF HandleRelayData
<1>4. n \in 1 .. Len(broadcast) /\ Len(broadcast) \in Nat
  BY <1>1 DEF SentInGroups, IsSequence
<1>5. /\ linkPc \in [Links -> {"idle", "collect"}] /\ packet \in [Links -> Nat] /\ DOMAIN units = Links
      /\ clean \in Nat
  BY <1>1 DEF CleanIsAlone
<1>6. /\ linkPc'[c] = "collect" /\ packet'[c] = n /\ units'[c] = Depacketize(depack, broadcast[n].payload)
      /\ \A e \in Links \ {c} : linkPc'[e] = linkPc[e] /\ packet'[e] = packet[e]
  BY <1>3, <1>5
<1>7. clean' # 0 => Alone(c) /\ n = clean /\ clean' = clean
  BY <1>3
<1>8. clean' # 0 => \A e \in Links : linkPc'[e] = "collect" => e = c
  BY <1>6, <1>7 DEF Alone
<1>9. SentInGroups'
  BY <1>1, <1>2 DEF SentInGroups, Begins, SentAs
<1>10. CleanIsAlone'
  <2>1. clean' \in Nat /\ linkPc' \in [Links -> {"idle", "collect"}] /\ packet' \in [Links -> Nat]
        /\ DOMAIN units' = Links
    BY <1>3, <1>4, <1>5
  <2>2. ASSUME NEW e \in Links, linkPc'[e] = "collect"
        PROVE  packet'[e] \in 1 .. Len(broadcast)' /\ (clean' # 0 => packet'[e] = clean' /\ Alone(e)')
    <3>1. packet'[e] \in 1 .. Len(broadcast)'
      BY <1>1, <1>2, <1>4, <1>6, <2>2 DEF CleanIsAlone
    <3>2. ASSUME clean' # 0 PROVE packet'[e] = clean' /\ Alone(e)'
      BY <1>6, <1>7, <1>8, <2>2, <3>2 DEF Alone
    <3> QED
      BY <3>1, <3>2
  <2> QED
    BY <2>1, <2>2 DEF CleanIsAlone
<1>11. InStep'
  <2> SUFFICES ASSUME clean' # 0
               PROVE  \E d : /\ Expects(clean, d, frameBuf)'
                             /\ units'[c] = Depacketize(d, broadcast[clean'].payload)
                             /\ depack' = AfterPayload(d, broadcast[clean'].payload)
    BY <1>2, <1>6, <1>8 DEF InStep
  <2>1. \A e \in Links : linkPc[e] = "idle"
    BY <1>2, <1>7 DEF Alone
  <2>2. Expects(clean, depack, frameBuf)
    BY <1>1, <1>2, <1>7, <2>1 DEF InStep
  <2>3. PICK d : d = depack
    OBVIOUS
  <2>4. Expects(clean, d, frameBuf)'
    BY <1>2, <1>7, <2>2, <2>3 DEF Expects, SentAs, Begins
  <2> QED
    BY <1>2, <1>3, <1>6, <1>7, <2>3, <2>4
<1>12. CleanUnitsArriveWhole'
  BY <1>1, <1>2 DEF CleanUnitsArriveWhole
<1> QED
  BY <1>9, <1>10, <1>11, <1>12 DEF VideoInv

LEMMA CollectKeeps ==
  ASSUME VideoInv, NEW c \in Links, Collect(c) PROVE VideoInv'
<1>1. SentInGroups /\ CleanIsAlone /\ InStep /\ CleanUnitsArriveWhole
  BY DEF VideoInv
<1>2. UNCHANGED <<up, fed, broadcast, depack>> /\ linkPc[c] = "collect"
  BY DEF Collect
<1>3. PICK n, buf : n = packet[c] /\ buf = frameBuf \o units[c]
  OBVIOUS
<1>4. /\ frameBuf' = IF broadcast[n].marker /\ buf # <<>> THEN <<>> ELSE buf
      /\ frame' = IF broadcast[n].marker /\ n = clean THEN {[au |-> broadcast[n].au, units |-> buf]} ELSE {}
      /\ clean' = IF n = clean \/ (broadcast[n].marker /\ Alone(c)) THEN n + 1 ELSE clean
      /\ linkPc' = [linkPc EXCEPT ![c] = "idle"]
      /\ packet' = [packet EXCEPT ![c] = 0]
      /\ units' = [units EXCEPT ![c] = <<>>]
  BY <1>3 DEF Collect
<1>5. /\ linkPc \in [Links -> {"idle", "collect"}] /\ packet \in [Links -> Nat] /\ DOMAIN units = Links
      /\ clean \in Nat
      /\ \A e \in Links : linkPc[e] = "collect" =>
           /\ packet[e] \in 1 .. Len(broadcast)
           /\ clean # 0 => packet[e] = clean /\ Alone(e)
  BY <1>1 DEF CleanIsAlone
<1>6. n \in 1 .. Len(broadcast) /\ Len(broadcast) \in Nat /\ (clean # 0 => n = clean /\ Alone(c))
  BY <1>1, <1>2, <1>3, <1>5 DEF SentInGroups, IsSequence
<1>7. /\ linkPc'[c] = "idle"
      /\ \A e \in Links \ {c} : linkPc'[e] = linkPc[e] /\ packet'[e] = packet[e]
  BY <1>4, <1>5
<1>8. clean' # 0 => clean' = n + 1 /\ Alone(c) /\ (n = clean \/ broadcast[n].marker)
  <2>1. CASE n = clean
    BY <1>4, <1>6, <2>1
  <2>2. CASE n # clean
    <3>1. clean = 0
      BY <1>6, <2>2
    <3> QED
      BY <1>4, <2>2, <3>1
  <2> QED
    BY <2>1, <2>2
<1>9. clean' # 0 => \A e \in Links : linkPc'[e] = "idle"
  BY <1>5, <1>7, <1>8 DEF Alone
<1>10. SentInGroups'
  BY <1>1, <1>2 DEF SentInGroups, Begins, SentAs
<1>11. CleanIsAlone'
  <2>1. clean' \in Nat /\ linkPc' \in [Links -> {"idle", "collect"}] /\ packet' \in [Links -> Nat]
        /\ DOMAIN units' = Links
    BY <1>4, <1>5, <1>6
  <2>2. ASSUME NEW e \in Links, linkPc'[e] = "collect"
        PROVE  packet'[e] \in 1 .. Len(broadcast)' /\ (clean' # 0 => packet'[e] = clean' /\ Alone(e)')
    BY <1>2, <1>5, <1>7, <1>9, <2>2
  <2> QED
    BY <2>1, <2>2 DEF CleanIsAlone
\* The packet that was expected.
<1>12. ASSUME up, n = clean
       PROVE  \E d : /\ Expects(n, d, frameBuf) /\ buf = frameBuf \o Depacketize(d, broadcast[n].payload)
                     /\ depack = AfterPayload(d, broadcast[n].payload)
  <2>1. clean # 0
    BY <1>6, <1>12
  <2>2. PICK d : /\ Expects(clean, d, frameBuf)
                 /\ units[c] = Depacketize(d, broadcast[clean].payload)
                 /\ depack = AfterPayload(d, broadcast[clean].payload)
    BY <1>1, <1>2, <1>12, <2>1 DEF InStep
  <2> QED
    BY <1>3, <1>12, <2>2
<1>13. ASSUME up, clean' # 0 PROVE Expects(clean, depack, frameBuf)'
  <2>0. PICK k, b, e : k = clean' /\ b = frameBuf' /\ e = depack'
    OBVIOUS
  <2>1. k = n + 1
    BY <1>8, <1>13, <2>0
  <2>2. CASE broadcast[n].marker
    <3>1. b = <<>>
      BY <1>4, <2>0, <2>2
    <3>2. Begins(k)' /\ k <= Len(broadcast)' + 1
      <4>1. k - 1 = n
        BY <1>6, <2>1
      <4> QED
        BY <1>2, <1>6, <2>1, <2>2, <4>1 DEF Begins
    <3> QED
      BY <2>0, <3>1, <3>2 DEF Expects
  <2>3. CASE ~broadcast[n].marker
    <3>1. n = clean
      BY <1>8, <1>13, <2>3
    <3>2. PICK d : /\ Expects(n, d, frameBuf) /\ buf = frameBuf \o Depacketize(d, broadcast[n].payload)
                   /\ depack = AfterPayload(d, broadcast[n].payload)
      BY <1>12, <1>13, <3>1
    <3>3. Expects(n + 1, depack, buf)
      BY <1>1, <1>6, <2>3, <3>2, ExpectsStep
    <3>4. b = buf /\ e = depack
      BY <1>2, <1>4, <2>0, <2>3
    <3>5. Expects(k, e, b)
      BY <2>1, <3>3, <3>4
    <3>6. Expects(k, e, b)'
      BY <1>2, <3>5 DEF Expects, SentAs, Begins
    <3> QED
      BY <2>0, <3>6
  <2> QED
    BY <2>2, <2>3
<1>14. InStep'
  BY <1>2, <1>7, <1>9, <1>13 DEF InStep
<1>15. CleanUnitsArriveWhole'
  <2> SUFFICES ASSUME up, NEW f \in frame', Fits(Units[f.au])
               PROVE  f.units = [i \in DOMAIN Units[f.au] |-> Whole(Units[f.au][i])]
    BY <1>2 DEF CleanUnitsArriveWhole
  <2>1. broadcast[n].marker /\ n = clean /\ f.au = broadcast[n].au /\ f.units = buf
    BY <1>4
  <2>2. PICK d : /\ Expects(n, d, frameBuf) /\ buf = frameBuf \o Depacketize(d, broadcast[n].payload)
                 /\ depack = AfterPayload(d, broadcast[n].payload)
    BY <1>12, <2>1
  <2>3. buf = [i \in DOMAIN Units[broadcast[n].au] |-> Whole(Units[broadcast[n].au][i])]
    BY <1>1, <1>6, <2>1, <2>2, ExpectsStep
  <2> QED
    BY <2>1, <2>3
<1> QED
  BY <1>10, <1>11, <1>14, <1>15 DEF VideoInv

LEMMA VideoInvInductive == VideoInv /\ [VideoNext]_videoVars => VideoInv'
<1> SUFFICES ASSUME VideoInv, [VideoNext]_videoVars PROVE VideoInv'
  OBVIOUS
<1>1. CASE FeedCaptured
  BY <1>1, FeedCapturedKeeps
<1>2. CASE Reset
  <2>1. UNCHANGED <<fed, broadcast, linkPc, packet, units, clean, frame>> /\ up' = FALSE
    BY <1>2 DEF Reset, linkVars
  <2>2. SentInGroups'
    BY <2>1 DEF VideoInv, SentInGroups, Begins, SentAs
  <2>3. CleanIsAlone'
    BY <2>1 DEF VideoInv, CleanIsAlone, Alone
  <2> QED
    BY <2>1, <2>2, <2>3 DEF VideoInv, InStep, CleanUnitsArriveWhole
<1>3. ASSUME NEW c \in Links, HandleRelayData(c) PROVE VideoInv'
  BY <1>3, HandleRelayDataKeeps
<1>4. ASSUME NEW c \in Links, Collect(c) PROVE VideoInv'
  BY <1>4, CollectKeeps
<1>5. CASE UNCHANGED videoVars
  <2>1. UNCHANGED <<up, fed, broadcast, depack, frameBuf, linkPc, packet, units, clean, frame>>
    BY <1>5 DEF videoVars, linkVars
  <2>2. SentInGroups'
    BY <2>1 DEF VideoInv, SentInGroups, Begins, SentAs
  <2>3. CleanIsAlone'
    BY <2>1 DEF VideoInv, CleanIsAlone, Alone
  <2>4. InStep'
    BY <2>1 DEF VideoInv, InStep, Expects, SentAs, Begins
  <2>5. CleanUnitsArriveWhole'
    BY <2>1 DEF VideoInv, CleanUnitsArriveWhole
  <2> QED
    BY <2>2, <2>3, <2>4, <2>5 DEF VideoInv
<1> QED
  BY <1>1, <1>2, <1>3, <1>4, <1>5 DEF VideoNext

\* Whatever was lost, repeated, or mixed by connections that share the
\* depacketizer, an access unit whose packets are then taken one after the
\* other is delivered whole (pipeline.go HandleRelayData), for any connections,
\* access units, payload size and reassembly limit.
THEOREM UnitsArriveWhole == VideoSpec => []CleanUnitsArriveWhole
<1>1. VideoInit => VideoInv
  <2> SUFFICES ASSUME VideoInit PROVE VideoInv
    OBVIOUS
  <2> USE DEF VideoInit
  <2>1. SentInGroups
    <3>1. broadcast \in Seq({})
      OBVIOUS
    <3>2. Len(Units) \in Nat
      BY VideoPathAssumption
    <3> QED
      BY <3>1, <3>2 DEF SentInGroups, IsSequence
  <2>2. CleanIsAlone
    BY DEF CleanIsAlone
  <2>3. InStep
    BY DEF InStep, Expects, Begins
  <2>4. CleanUnitsArriveWhole
    BY DEF CleanUnitsArriveWhole
  <2> QED
    BY <2>1, <2>2, <2>3, <2>4 DEF VideoInv
<1>2. VideoInv => CleanUnitsArriveWhole
  BY DEF VideoInv
<1> QED
  BY <1>1, <1>2, VideoInvInductive, PTL DEF VideoSpec


-----------------------------------------------------------------------------
(* MlowPayload: the frames of a payload.                                   *)

\* The elements of three sequences in a row.
LEMMA ThreeInARow ==
  ASSUME NEW S, NEW a \in Seq(S), NEW b \in Seq(S), NEW c \in Seq(S),
         NEW p, p = a \o b \o c
  PROVE  /\ p \in Seq(S) /\ Len(p) = Len(a) + Len(b) + Len(c)
         /\ \A x \in 1 .. Len(a) : p[x] = a[x]
         /\ \A x \in 1 .. Len(b) : p[Len(a) + x] = b[x]
         /\ \A x \in 1 .. Len(c) : p[Len(a) + Len(b) + x] = c[x]
<1>1. PICK q : q = a \o b /\ p = q \o c
  OBVIOUS
<1>2. Len(a) \in Nat /\ Len(b) \in Nat /\ Len(c) \in Nat
  OBVIOUS
<1>3. /\ q \in Seq(S) /\ Len(q) = Len(a) + Len(b)
      /\ \A x \in 1 .. Len(a) + Len(b) : q[x] = IF x <= Len(a) THEN a[x] ELSE b[x - Len(a)]
  BY <1>1, ConcatProperties
<1>4. /\ p \in Seq(S) /\ Len(p) = Len(q) + Len(c)
      /\ \A x \in 1 .. Len(q) + Len(c) : p[x] = IF x <= Len(q) THEN q[x] ELSE c[x - Len(q)]
  BY <1>1, <1>3, ConcatProperties
<1>5. ASSUME NEW x \in 1 .. Len(a) PROVE p[x] = a[x]
  <2>1. x \in 1 .. Len(a) + Len(b) /\ x <= Len(a) + Len(b) /\ x \in 1 .. Len(a) + Len(b) + Len(c) /\ x <= Len(a)
    BY <1>2
  <2> QED
    BY <1>3, <1>4, <2>1
<1>6. ASSUME NEW x \in 1 .. Len(b) PROVE p[Len(a) + x] = b[x]
  <2> DEFINE y == Len(a) + x
  <2>1. y \in 1 .. Len(a) + Len(b) /\ y <= Len(a) + Len(b) /\ y \in 1 .. Len(a) + Len(b) + Len(c)
        /\ ~(y <= Len(a)) /\ y - Len(a) = x
    BY <1>2
  <2> HIDE DEF y
  <2>2. p[y] = b[x]
    BY <1>3, <1>4, <2>1
  <2> QED
    BY <2>2 DEF y
<1>7. ASSUME NEW x \in 1 .. Len(c) PROVE p[Len(a) + Len(b) + x] = c[x]
  <2> DEFINE y == Len(a) + Len(b) + x
  <2>1. y \in 1 .. Len(a) + Len(b) + Len(c) /\ ~(y <= Len(a) + Len(b)) /\ y - (Len(a) + Len(b)) = x
    BY <1>2
  <2> HIDE DEF y
  <2>2. p[y] = c[x]
    BY <1>3, <1>4, <2>1
  <2> QED
    BY <2>2 DEF y
<1> QED
  BY <1>1, <1>3, <1>4, <1>5, <1>6, <1>7

\* A part is known by its elements.
LEMMA SubSeqIs ==
  ASSUME NEW S, NEW p \in Seq(S), NEW t \in Seq(S), NEW i \in Nat, NEW j \in Int, j - i + 1 = Len(t),
         \A x \in 1 .. Len(t) : p[i + x - 1] = t[x]
  PROVE  SubSeq(p, i, j) = t
<1>1. Len(t) \in Nat /\ \A x \in 1 .. Len(t) : t[x] \in S
  OBVIOUS
<1>2. ASSUME NEW k \in i .. j PROVE p[k] \in S
  <2>1. k - i + 1 \in 1 .. Len(t) /\ i + (k - i + 1) - 1 = k
    BY <1>1
  <2> DEFINE x == k - i + 1
  <2>2. x \in 1 .. Len(t) /\ i + x - 1 = k
    BY <2>1
  <2> HIDE DEF x
  <2> QED
    BY <1>1, <2>2
<1> DEFINE s == SubSeq(p, i, j)
<1>3. /\ s \in Seq(S)
      /\ Len(s) = IF i <= j THEN j - i + 1 ELSE 0
      /\ \A x \in 1 .. j - i + 1 : s[x] = p[i + x - 1]
  BY <1>2, SubSeqProperties
<1> HIDE DEF s
<1>4. Len(s) = Len(t) /\ \A x \in 1 .. Len(s) : s[x] = t[x]
  <2>1. Len(s) = Len(t)
    BY <1>1, <1>3
  <2> QED
    BY <1>1, <1>3, <2>1
<1>5. s = t
  BY <1>3, <1>4, SeqEqual
<1> QED
  BY <1>5 DEF s

\* What the numbers along a payload are, if h has the first and goes on the same
\* way.
LEMMA ContainerStarts ==
  ASSUME NEW p, NEW n \in Nat \ {0}, p[2] = n, NEW h,
         \A k \in 1 .. n : h[k] = IF k = 1 THEN 3
                                  ELSE IF h[k - 1] > Len(p) THEN h[k - 1] ELSE h[k - 1] + 1 + p[h[k - 1]]
  PROVE  \A k \in 1 .. n : FramesAt(p)[k] = h[k]
<1> DEFINE at[k \in 1 .. p[2]] ==
             IF k = 1 THEN 3
             ELSE IF at[k - 1] > Len(p) THEN at[k - 1] ELSE at[k - 1] + 1 + p[at[k - 1]]
           Unrolls(e) == e = [k \in 1 .. p[2] |->
             IF k = 1 THEN 3
             ELSE IF e[k - 1] > Len(p) THEN e[k - 1] ELSE e[k - 1] + 1 + p[e[k - 1]]]
           g == [k \in 1 .. n |-> h[k]]
<1>1. Unrolls(g)
  <2> SUFFICES ASSUME NEW k \in 1 .. n
               PROVE  g[k] = IF k = 1 THEN 3
                             ELSE IF g[k - 1] > Len(p) THEN g[k - 1] ELSE g[k - 1] + 1 + p[g[k - 1]]
    OBVIOUS
  <2>1. k # 1 => k - 1 \in 1 .. n
    OBVIOUS
  <2>2. g[k] = h[k] /\ (k # 1 => g[k - 1] = h[k - 1])
    BY <2>1
  <2> HIDE DEF g
  <2> QED
    BY <2>2
<1>2. at = CHOOSE e : Unrolls(e)
  OBVIOUS
<1>3. Unrolls(at)
  <2> HIDE DEF Unrolls, g, at
  <2> QED
    BY <1>1, <1>2
<1>4. FramesAt(p) = at
  BY DEF FramesAt
<1>5. \A k \in 1 .. n : at[k] = IF k = 1 THEN 3
                                 ELSE IF at[k - 1] > Len(p) THEN at[k - 1] ELSE at[k - 1] + 1 + p[at[k - 1]]
  <2> HIDE DEF at
  <2> QED
    BY <1>3
<1> HIDE DEF at
<1> DEFINE P == {k \in 0 .. n : k = 0 \/ at[k] = h[k]}
<1>6. ASSUME NEW k \in 1 .. n, k - 1 \in P PROVE k \in P
  <2>1. k # 1 => at[k - 1] = h[k - 1]
    BY <1>6
  <2>2. at[k] = h[k]
    <3>1. at[k] = IF k = 1 THEN 3
                  ELSE IF at[k - 1] > Len(p) THEN at[k - 1] ELSE at[k - 1] + 1 + p[at[k - 1]]
      BY <1>5, Zenon
    <3>2. h[k] = IF k = 1 THEN 3
                 ELSE IF h[k - 1] > Len(p) THEN h[k - 1] ELSE h[k - 1] + 1 + p[h[k - 1]]
      BY Zenon
    <3>3. CASE k = 1
      BY <3>1, <3>2, <3>3, Zenon
    <3>4. CASE k # 1
      BY <2>1, <3>1, <3>2, <3>4, Zenon
    <3> QED
      BY <3>3, <3>4, Zenon
  <2> QED
    BY <2>2
<1>7. 0 .. n \subseteq P
  <2>1. 0 \in P /\ n \in Nat
    OBVIOUS
  <2> HIDE DEF P
  <2> QED
    BY <1>6, <2>1, AllUpTo
<1> QED
  BY <1>4, <1>7

LEMMA RedStarts ==
  ASSUME NEW p, NEW m \in Nat, NEW h,
         \A k \in 1 .. m + 1 : h[k] = IF k = 1 THEN 2 * m + 2 ELSE h[k - 1] + p[2 * (k - 1)]
  PROVE  \A k \in 1 .. m + 1 : RedAt(p, m)[k] = h[k]
<1> DEFINE at[k \in 1 .. m + 1] == IF k = 1 THEN 2 * m + 2 ELSE at[k - 1] + p[2 * (k - 1)]
           Unrolls(e) == e = [k \in 1 .. m + 1 |-> IF k = 1 THEN 2 * m + 2 ELSE e[k - 1] + p[2 * (k - 1)]]
           g == [k \in 1 .. m + 1 |-> h[k]]
<1>1. Unrolls(g)
  <2> SUFFICES ASSUME NEW k \in 1 .. m + 1
               PROVE  g[k] = IF k = 1 THEN 2 * m + 2 ELSE g[k - 1] + p[2 * (k - 1)]
    OBVIOUS
  <2>1. k # 1 => k - 1 \in 1 .. m + 1
    OBVIOUS
  <2>2. g[k] = h[k] /\ (k # 1 => g[k - 1] = h[k - 1])
    BY <2>1
  <2> HIDE DEF g
  <2> QED
    BY <2>2
<1>2. at = CHOOSE e : Unrolls(e)
  OBVIOUS
<1>3. Unrolls(at)
  <2> HIDE DEF Unrolls, g, at
  <2> QED
    BY <1>1, <1>2
<1>4. RedAt(p, m) = at
  BY DEF RedAt
<1>5. \A k \in 1 .. m + 1 : at[k] = IF k = 1 THEN 2 * m + 2 ELSE at[k - 1] + p[2 * (k - 1)]
  <2> HIDE DEF at
  <2> QED
    BY <1>3
<1> HIDE DEF at
<1> DEFINE P == {k \in 0 .. m + 1 : k = 0 \/ at[k] = h[k]}
<1>6. ASSUME NEW k \in 1 .. m + 1, k - 1 \in P PROVE k \in P
  <2>1. k # 1 => at[k - 1] = h[k - 1]
    BY <1>6
  <2>2. at[k] = h[k]
    BY <1>5, <2>1
  <2> QED
    BY <2>2
<1>7. 0 .. m + 1 \subseteq P
  <2>1. 0 \in P /\ m + 1 \in Nat
    OBVIOUS
  <2> HIDE DEF P
  <2> QED
    BY <1>6, <2>1, AllUpTo
<1> QED
  BY <1>4, <1>7


Bytes == 0 .. 255
Frames == {f \in Seq(Bytes) : Len(f) \in 1 .. 255}

\* A container of two to eight frames comes apart into them.
LEMMA ContainerSplits ==
  ASSUME NEW n \in 2 .. 8
  PROVE  \A fs \in [1 .. n -> Frames] : SplitContainer(Container(fs)) = fs
<1>1. SUFFICES ASSUME NEW fs, fs \in [1 .. n -> Frames]
               PROVE  SplitContainer(Container(fs)) = fs
  OBVIOUS
<1> DEFINE part(i) == <<Len(fs[i])>> \o fs[i]
<1>2. /\ fs \in Seq(Frames) /\ Len(fs) = n /\ Last(fs) = fs[n]
      /\ \A i \in 1 .. n : fs[i] \in Seq(Bytes) /\ Len(fs[i]) \in 1 .. 255
  <2>1. n \in Nat /\ n \in 1 .. n
    OBVIOUS
  <2>2. fs \in Seq(Frames) /\ Len(fs) = n
    BY <1>1, <2>1
  <2>3. Last(fs) = fs[n]
    BY <2>2, Zenon DEF Last
  <2>4. ASSUME NEW i \in 1 .. n PROVE fs[i] \in Seq(Bytes) /\ Len(fs[i]) \in 1 .. 255
    <3>1. fs[i] \in Frames
      BY <1>1, Zenon
    <3> QED
      BY <3>1, Zenon DEF Frames
  <2> QED
    BY <2>2, <2>3, <2>4, Zenon
<1>3. ASSUME NEW i \in 1 .. n - 1
      PROVE  /\ part(i) \in Seq(Bytes) /\ Len(part(i)) = 1 + Len(fs[i]) /\ part(i)[1] = Len(fs[i])
             /\ \A x \in 1 .. Len(fs[i]) : part(i)[1 + x] = fs[i][x]
  <2>1. PICK c : c = fs[i]
    OBVIOUS
  <2>2. c \in Seq(Bytes) /\ Len(c) \in 1 .. 255
    <3>1. i \in 1 .. n
      OBVIOUS
    <3> QED
      BY <1>2, <2>1, <3>1, Zenon
  <2>3. PICK l \in 1 .. 255 : l = Len(c)
    BY <2>2
  <2>4. PICK b : b = <<l>>
    OBVIOUS
  <2>5. b \in Seq(Bytes) /\ Len(b) = 1 /\ b[1] = Len(c)
    <3>1. l \in Bytes
      BY DEF Bytes
    <3> QED
      <4>1. <<l>> \in Seq(Bytes) /\ Len(<<l>>) = 1 /\ <<l>>[1] = l
        BY <3>1
      <4> QED
        BY <2>3, <2>4, <4>1, Zenon
  <2>6. PICK q : q = b \o c
    OBVIOUS
  <2>7. /\ q \in Seq(Bytes) /\ Len(q) = Len(b) + Len(c)
        /\ \A x \in 1 .. Len(b) + Len(c) : q[x] = IF x <= Len(b) THEN b[x] ELSE c[x - Len(b)]
    BY <2>2, <2>5, <2>6, ConcatProperties
  <2>8. q[1] = Len(c)
    <3>1. Len(c) \in Nat
      BY <2>2, SizeIsNat, Zenon
    <3>2. 1 \in 1 .. 1 + Len(c) /\ 1 <= 1
      BY <3>1
    <3> QED
      BY <2>5, <2>7, <3>2, Zenon
  <2>9. ASSUME NEW x \in 1 .. Len(c) PROVE q[1 + x] = c[x]
    <3>1. 1 + x \in 1 .. Len(b) + Len(c) /\ ~(1 + x <= Len(b)) /\ (1 + x) - Len(b) = x
      <4>1. 1 \in Nat /\ Len(c) \in Nat
        BY <2>2, SizeIsNat
      <4>2. Follows(1, Len(c), x)
        BY <4>1, FollowsOn, Zenon
      <4> QED
        BY <2>5, <4>2, Zenon DEF Follows
    <3> QED
      BY <2>7, <3>1
  <2>10. part(i) = q
    BY <2>1, <2>3, <2>4, <2>6
  <2> HIDE DEF part
  <2> QED
    BY <2>1, <2>5, <2>7, <2>8, <2>9, <2>10
<1>4. PICK ss : ss = [i \in 1 .. n - 1 |-> part(i)]
  OBVIOUS
<1>5. /\ ss \in Seq(Seq(Bytes)) /\ Len(ss) = n - 1
      /\ \A i \in 1 .. n - 1 : /\ Len(ss[i]) = 1 + Len(fs[i]) /\ ss[i][1] = Len(fs[i])
                               /\ \A x \in 1 .. Len(fs[i]) : ss[i][1 + x] = fs[i][x]
  <2> HIDE DEF part
  <2>1. n - 1 \in Nat
    OBVIOUS
  <2> QED
    BY <1>3, <1>4, <2>1
<1>6. PICK flat : flat = FlattenSeq(ss)
  OBVIOUS
<1>7. flat \in Seq(Bytes) /\ \E f : Parts(f, ss, flat)
  BY <1>5, <1>6, PartsLaidOut
<1>8. PICK L \in Nat : L = Len(flat)
  BY <1>7
<1>9. PICK f : Parts(f, ss, flat)
  BY <1>7
<1>10. /\ f \in [0 .. n - 1 -> 0 .. L]
       /\ f[0] = 0 /\ f[n - 1] = L
       /\ \A i \in 1 .. n - 1 : /\ f[i] = f[i - 1] + 1 + Len(fs[i])
                                /\ \A j \in 1 .. 1 + Len(fs[i]) : flat[f[i - 1] + j] = ss[i][j]
  <2>1. /\ f \in [0 .. n - 1 -> 0 .. L] /\ f[0] = 0 /\ f[n - 1] = L
        /\ \A i \in 1 .. n - 1 : /\ f[i] = f[i - 1] + Len(ss[i])
                                 /\ \A j \in 1 .. Len(ss[i]) : flat[f[i - 1] + j] = ss[i][j]
    BY <1>5, <1>9, <1>8 DEF Parts
  <2>2. ASSUME NEW i \in 1 .. n - 1
        PROVE  /\ f[i] = f[i - 1] + 1 + Len(fs[i])
               /\ \A j \in 1 .. 1 + Len(fs[i]) : flat[f[i - 1] + j] = ss[i][j]
    <3>1. f[i - 1] \in Nat /\ Len(fs[i]) \in Nat
      <4>1. i - 1 \in 0 .. n - 1 /\ i \in 1 .. n
        OBVIOUS
      <4> QED
        <5>1. Len(fs[i]) \in Nat
          BY <1>2, <4>1, SizeIsNat, Zenon
        <5>2. f[i - 1] \in Nat
          BY <2>1, <4>1
        <5> QED
          BY <5>1, <5>2, Zenon
    <3>2. PICK b, l : b = f[i - 1] /\ l = Len(ss[i])
      OBVIOUS
    <3>3. l = 1 + Len(fs[i]) /\ f[i] = b + l /\ \A j \in 1 .. l : flat[b + j] = ss[i][j]
      BY <1>5, <2>1, <3>2
    <3>4. PICK z : z = Len(fs[i])
      OBVIOUS
    <3>5. b \in Nat /\ z \in Nat /\ l = 1 + z /\ f[i] = b + l
      BY <3>1, <3>2, <3>3, <3>4
    <3>6. f[i] = b + 1 + z
      BY <3>5
    <3> QED
      BY <3>2, <3>3, <3>4, <3>6
  <2> QED
    BY <2>1, <2>2
<1>11. f[0] = 0 /\ f[n - 1] = L
  BY <1>10
<1>11a. \A i \in 0 .. n - 1 : f[i] \in 0 .. L /\ f[i] \in Nat
  BY <1>10, NatIn, Zenon
<1>11b. \A i \in 1 .. n : Len(fs[i]) \in Nat
  BY <1>2, SizeIsNat, Zenon
<1>12. PICK a, c, p : a = <<146, n>> /\ c = fs[n] /\ p = a \o flat \o c
  OBVIOUS
<1>13. a \in Seq(Bytes) /\ Len(a) = 2 /\ a[1] = 146 /\ a[2] = n
  <2>1. 146 \in Bytes /\ n \in Bytes
    BY DEF Bytes
  <2> QED
    BY <1>12, <2>1
<1>14. c \in Seq(Bytes)
  <2>1. n \in 1 .. n
    OBVIOUS
  <2> QED
    BY <1>2, <1>12, <2>1, Zenon
<1>15. PICK C \in 1 .. 255 : C = Len(c)
  <2>1. n \in 1 .. n
    OBVIOUS
  <2> QED
    BY <1>2, <1>12, <2>1, Zenon
<1>16. /\ p \in Seq(Bytes) /\ Len(p) = 2 + L + C
       /\ \A x \in 1 .. 2 : p[x] = a[x]
       /\ \A x \in 1 .. L : p[2 + x] = flat[x]
       /\ \A x \in 1 .. C : p[2 + L + x] = c[x]
  <2>1. a \in Seq(Bytes) /\ flat \in Seq(Bytes) /\ p = a \o flat \o c
    BY <1>7, <1>12, <1>13
  <2>2. /\ p \in Seq(Bytes) /\ Len(p) = Len(a) + Len(flat) + Len(c)
        /\ \A x \in 1 .. Len(a) : p[x] = a[x]
        /\ \A x \in 1 .. Len(flat) : p[Len(a) + x] = flat[x]
        /\ \A x \in 1 .. Len(c) : p[Len(a) + Len(flat) + x] = c[x]
    BY <1>14, <2>1, ThreeInARow
  <2>3. Len(a) = 2
    BY <1>13
  <2> QED
    BY <1>15, <1>8, <2>2, <2>3
<1>17. Container(fs) = p
  BY <1>2, <1>4, <1>6, <1>12 DEF Container
<1>18. p[1] = 146 /\ p[2] = n
  BY <1>13, <1>16
<1>19. ASSUME NEW i \in 1 .. n - 1, NEW x \in 0 .. Len(fs[i])
       PROVE  p[3 + f[i - 1] + x] = IF x = 0 THEN Len(fs[i]) ELSE fs[i][x]
  <2>1. i - 1 \in 0 .. n - 1 /\ i \in 0 .. n - 1 /\ i \in 1 .. n
    OBVIOUS
  <2>2. Len(fs[i]) \in Nat /\ f[i - 1] \in Nat /\ f[i] \in 0 .. L
    BY <1>11a, <1>11b, <2>1, Zenon
  <2>3. PICK y : y = f[i - 1] + (1 + x)
    OBVIOUS
  <2>4. f[i] = f[i - 1] + 1 + Len(fs[i])
    BY <1>10
  <2>5. y \in 1 .. L /\ 3 + f[i - 1] + x = 2 + y
    <3>1. PICK b \in Nat, l \in Nat : b = f[i - 1] /\ l = Len(fs[i])
      BY <2>2
    <3>2. x \in 0 .. l /\ b + 1 + l \in 0 .. L
      BY <2>2, <2>4, <3>1
    <3>3. y = b + (1 + x)
      BY <2>3, <3>1
    <3>4. y \in 1 .. L /\ 3 + b + x = 2 + y
      BY <3>2, <3>3
    <3> QED
      BY <3>1, <3>4
  <2>6. p[2 + y] = flat[y]
    BY <1>16, <2>5
  <2>7. 1 + x \in 1 .. 1 + Len(fs[i])
    BY <2>2
  <2>8. flat[y] = ss[i][1 + x]
    BY <1>10, <2>3, <2>7
  <2>9. x = 0 => ss[i][1 + x] = Len(fs[i])
    BY <1>5
  <2>10. x # 0 => ss[i][1 + x] = fs[i][x]
    <3>1. x # 0 => x \in 1 .. Len(fs[i])
      BY <2>2
    <3> QED
      BY <1>5, <3>1
  <2> QED
    BY <2>5, <2>6, <2>8, <2>9, <2>10
<1>20. PICK h : h = [k \in 1 .. n |-> 3 + f[k - 1]]
  OBVIOUS
<1>21. \A k \in 1 .. n : h[k] = 3 + f[k - 1] /\ f[k - 1] \in 0 .. L
  <2>1. \A k \in 1 .. n : k - 1 \in 0 .. n - 1
    OBVIOUS
  <2> QED
    BY <1>10, <1>20, <2>1
<1>22. ASSUME NEW k \in 1 .. n
       PROVE  h[k] = IF k = 1 THEN 3
                     ELSE IF h[k - 1] > Len(p) THEN h[k - 1] ELSE h[k - 1] + 1 + p[h[k - 1]]
  <2>1. CASE k = 1
    BY <1>10, <1>21, <2>1
  <2>2. CASE k # 1
    <3>1. k - 1 \in 1 .. n - 1 /\ k - 1 \in 1 .. n
      BY <2>2
    <3>2. PICK i : i = k - 1
      OBVIOUS
    <3>3. i \in 1 .. n - 1 /\ i \in 1 .. n
      BY <3>1, <3>2
    <3>4. h[i] = 3 + f[i - 1] /\ f[i - 1] \in 0 .. L /\ Len(fs[i]) \in 1 .. 255
      BY <1>2, <1>21, <3>3
    <3>5. p[h[i]] = Len(fs[i])
      <4>1. 0 \in 0 .. Len(fs[i]) /\ 3 + f[i - 1] + 0 = h[i]
        <5>1. f[i - 1] \in Nat /\ Len(fs[i]) \in Nat
          BY <3>4, NatIn, SizeIsNat, Zenon
        <5>2. PICK b, l : b = f[i - 1] /\ l = Len(fs[i])
          OBVIOUS
        <5>3. b \in Nat /\ l \in Nat
          BY <5>1, <5>2
        <5>4. 0 \in 0 .. l /\ 3 + b + 0 = 3 + b
          BY <5>3
        <5> QED
          BY <3>4, <5>2, <5>4
      <4> QED
        BY <1>19, <3>3, <4>1
    <3>6. ~(h[i] > Len(p))
      <4>1. Len(p) = 2 + L + C /\ h[i] \in 3 .. 3 + L
        <5>1. h[i] \in 3 .. 3 + L
          BY <3>4, FromThree, Zenon
        <5> QED
          BY <1>16, <5>1, Zenon
      <4> QED
        BY <4>1
    <3>7. h[k] = 3 + f[i] /\ f[i] = f[i - 1] + 1 + Len(fs[i])
      BY <1>10, <1>21, <3>2, <3>3
    <3>8. h[k] = h[i] + 1 + p[h[i]]
      <4>1. PICK b, l : b = f[i - 1] /\ l = Len(fs[i])
        OBVIOUS
      <4>2. b \in Nat /\ l \in Nat /\ h[i] = 3 + b /\ p[h[i]] = l /\ h[k] = 3 + (b + 1 + l)
        <5>1. b \in Nat /\ l \in Nat
          BY <3>4, <4>1, NatIn, SizeIsNat, Zenon
        <5>2. h[i] = 3 + b /\ p[h[i]] = l /\ h[k] = 3 + (b + 1 + l)
          BY <3>4, <3>5, <3>7, <4>1, Zenon
        <5> QED
          BY <5>1, <5>2, Zenon
      <4> QED
        BY <4>2
    <3> QED
      BY <2>2, <3>2, <3>6, <3>8
  <2> QED
    BY <2>1, <2>2
<1>23. PICK at : at = FramesAt(p)
  OBVIOUS
<1>24. \A k \in 1 .. n : at[k] = h[k]
  <2>1. n \in Nat \ {0}
    OBVIOUS
  <2> QED
    BY <1>18, <1>22, <1>23, <2>1, ContainerStarts
<1>25. ASSUME NEW k \in 1 .. n
       PROVE  (IF k < n THEN SubSeq(p, at[k] + 1, at[k + 1] - 1) ELSE SubSeq(p, at[k], Len(p))) = fs[k]
  <2>1. fs[k] \in Seq(Bytes) /\ Len(fs[k]) \in 1 .. 255 /\ at[k] = 3 + f[k - 1] /\ f[k - 1] \in 0 .. L
    BY <1>2, <1>21, <1>24
  <2>2. CASE k < n
    <3>1. k \in 1 .. n - 1 /\ k + 1 \in 1 .. n /\ (k + 1) - 1 = k
      BY <2>2
    <3>2. at[k + 1] = 3 + f[k] /\ f[k] = f[k - 1] + 1 + Len(fs[k])
      BY <1>10, <1>21, <1>24, <3>1
    <3>3. PICK t, i, j : t = fs[k] /\ i = at[k] + 1 /\ j = at[k + 1] - 1
      OBVIOUS
    <3>4. i \in Nat /\ j \in Int /\ j - i + 1 = Len(t)
      <4>1. PICK b \in Nat, l \in Nat : b = f[k - 1] /\ l = Len(fs[k])
        BY <2>1, NatIn, SizeIsNat, Zenon
      <4>2. i = b + 4
        <5>1. i = (3 + b) + 1
          BY <2>1, <3>3, <4>1, Zenon
        <5> QED
          BY <5>1
      <4>3. j = b + l + 3
        <5>1. at[k + 1] = 3 + (b + 1 + l)
          BY <3>2, <4>1, Zenon
        <5>2. j = (3 + (b + 1 + l)) - 1
          BY <3>3, <5>1, Zenon
        <5> QED
          BY <5>2
      <4>4. i \in Nat /\ j \in Int /\ j - i + 1 = l
        BY <4>2, <4>3
      <4> QED
        BY <3>3, <4>1, <4>4
    <3>5. ASSUME NEW x \in 1 .. Len(t) PROVE p[i + x - 1] = t[x]
      <4>1. x \in 0 .. Len(fs[k]) /\ x # 0 /\ i + x - 1 = 3 + f[k - 1] + x
        <5>1. PICK b, l : b = f[k - 1] /\ l = Len(fs[k])
          OBVIOUS
        <5>2. b \in Nat /\ l \in Nat /\ x \in 1 .. l /\ i = (3 + b) + 1
          BY <2>1, <3>3, <5>1, NatIn, SizeIsNat, Zenon
        <5> QED
          BY <5>1, <5>2
      <4>2. p[3 + f[k - 1] + x] = fs[k][x]
        BY <1>19, <3>1, <4>1
      <4> QED
        BY <3>3, <4>1, <4>2
    <3>6. SubSeq(p, i, j) = t
      <4>1. t \in Seq(Bytes)
        BY <2>1, <3>3
      <4> QED
        BY <1>16, <3>4, <3>5, <4>1, SubSeqIs
    <3> QED
      BY <2>2, <3>3, <3>6
  <2>3. CASE ~(k < n)
    <3>1. k = n
      BY <2>3
    <3>2. PICK i, j : i = at[k] /\ j = Len(p)
      OBVIOUS
    <3>3. i = 3 + L
      BY <1>10, <2>1, <3>1, <3>2
    <3>4. i \in Nat /\ j \in Int /\ j - i + 1 = C
      BY <1>16, <3>2, <3>3
    <3>5. ASSUME NEW x \in 1 .. C PROVE p[i + x - 1] = c[x]
      <4>1. i + x - 1 = 2 + L + x
        BY <3>3
      <4> QED
        BY <1>16, <4>1
    <3>6. SubSeq(p, i, j) = c
      <4>1. /\ p \in Seq(Bytes) /\ c \in Seq(Bytes) /\ i \in Nat /\ j \in Int /\ j - i + 1 = Len(c)
            /\ \A x \in 1 .. Len(c) : p[i + x - 1] = c[x]
        BY <1>16, <1>14, <1>15, <3>4, <3>5
      <4> QED
        BY <4>1, SubSeqIs
    <3> QED
      BY <1>12, <2>3, <3>1, <3>2, <3>6
  <2> QED
    BY <2>2, <2>3
<1>26. ~(Len(p) < 3 \/ p[1] # 146 \/ p[2] \notin 2 .. 8 \/ at[p[2]] > Len(p))
  <2>1. at[n] = 3 + L
    <3>1. n \in 1 .. n
      OBVIOUS
    <3> QED
      BY <1>21, <1>24, <1>11, <3>1
  <2>2. ~(at[n] > Len(p)) /\ ~(Len(p) < 3)
    <3>1. Len(p) = 2 + L + C
      BY <1>16
    <3> QED
      BY <2>1, <3>1
  <2> QED
    BY <1>18, <2>2
<1>27. SplitContainer(p) = [k \in 1 .. n |->
         IF k < n THEN SubSeq(p, at[k] + 1, at[k + 1] - 1) ELSE SubSeq(p, at[k], Len(p))]
  BY <1>18, <1>23, <1>26 DEF SplitContainer
<1>28. [k \in 1 .. n |->
         IF k < n THEN SubSeq(p, at[k] + 1, at[k + 1] - 1) ELSE SubSeq(p, at[k], Len(p))] = fs
  BY <1>1, <1>25
<1> QED
  BY <1>17, <1>27, <1>28

\* Two sequences in a row.
LEMMA TwoInARow ==
  ASSUME NEW S, NEW a \in Seq(S), NEW b \in Seq(S), NEW p, p = a \o b
  PROVE  /\ p \in Seq(S) /\ Len(p) = Len(a) + Len(b)
         /\ \A x \in 1 .. Len(a) : p[x] = a[x]
         /\ \A x \in 1 .. Len(b) : p[Len(a) + x] = b[x]
<1>1. Len(a) \in Nat /\ Len(b) \in Nat
  OBVIOUS
<1>2. /\ p \in Seq(S) /\ Len(p) = Len(a) + Len(b)
      /\ \A x \in 1 .. Len(a) + Len(b) : p[x] = IF x <= Len(a) THEN a[x] ELSE b[x - Len(a)]
  BY ConcatProperties
<1>3. ASSUME NEW x \in 1 .. Len(a) PROVE p[x] = a[x]
  <2>1. x \in 1 .. Len(a) + Len(b) /\ x <= Len(a)
    BY <1>1
  <2> QED
    BY <1>2, <2>1
<1>4. ASSUME NEW x \in 1 .. Len(b) PROVE p[Len(a) + x] = b[x]
  <2>1. PICK y : y = Len(a) + x
    OBVIOUS
  <2>2. y \in 1 .. Len(a) + Len(b) /\ ~(y <= Len(a)) /\ y - Len(a) = x
    BY <1>1, <2>1
  <2>3. p[y] = b[x]
    BY <1>2, <2>2
  <2> QED
    BY <2>1, <2>3
<1> QED
  BY <1>2, <1>3, <1>4

\* The headers of m redundant frames: two bytes each.
Headers(hs, m, size) ==
    /\ m \in Nat /\ hs \in Seq(Seq(Nat)) /\ Len(hs) = m
    /\ \A i \in 1 .. m : size[i] \in Nat /\ hs[i] = <<128 + i, size[i]>>
HeadersAlong(H, m, size) ==
    /\ H \in Seq(Nat) /\ Len(H) = 2 * m
    /\ \A i \in 1 .. m : H[2 * i - 1] = 128 + i /\ H[2 * i] = size[i]

LEMMA HeadersLaidOut ==
  ASSUME NEW hs, NEW m, NEW size, NEW H, Headers(hs, m, size), H = FlattenSeq(hs)
  PROVE  HeadersAlong(H, m, size)
<1>1. /\ m \in Nat /\ hs \in Seq(Seq(Nat)) /\ Len(hs) = m
      /\ \A i \in 1 .. m : size[i] \in Nat /\ hs[i] = <<128 + i, size[i]>>
  BY DEF Headers
<1>2. ASSUME NEW i \in 1 .. m
      PROVE  hs[i] \in Seq(Nat) /\ Len(hs[i]) = 2 /\ hs[i][1] = 128 + i /\ hs[i][2] = size[i]
  <2>1. PICK b, l : b = 128 + i /\ l = size[i]
    OBVIOUS
  <2>2. b \in Nat /\ l \in Nat
    BY <1>1, <2>1
  <2>3. hs[i] = <<b, l>>
    BY <1>1, <2>1
  <2> QED
    BY <2>1, <2>2, <2>3
<1>3. H \in Seq(Nat) /\ \E f : Parts(f, hs, H)
  BY <1>1, PartsLaidOut
<1>4. PICK f : Parts(f, hs, H)
  BY <1>3
<1>5. /\ f[0] = 0 /\ f[m] = Len(H) /\ f \in [0 .. m -> 0 .. Len(H)]
      /\ \A i \in 1 .. m : f[i] = f[i - 1] + Len(hs[i]) /\ \A j \in 1 .. Len(hs[i]) : H[f[i - 1] + j] = hs[i][j]
  BY <1>1, <1>4 DEF Parts
<1>6. \A i \in 1 .. m : f[i] = f[i - 1] + 2 /\ H[f[i - 1] + 1] = 128 + i /\ H[f[i - 1] + 2] = size[i]
  <2>1. ASSUME NEW i \in 1 .. m
        PROVE  f[i] = f[i - 1] + 2 /\ H[f[i - 1] + 1] = 128 + i /\ H[f[i - 1] + 2] = size[i]
    <3>1. PICK b, l : b = f[i - 1] /\ l = Len(hs[i])
      OBVIOUS
    <3>2. f[i] = b + l /\ \A j \in 1 .. l : H[b + j] = hs[i][j]
      BY <1>5, <3>1
    <3>3. l = 2 /\ hs[i][1] = 128 + i /\ hs[i][2] = size[i]
      BY <1>2, <3>1
    <3>4. 1 \in 1 .. 2 /\ 2 \in 1 .. 2
      OBVIOUS
    <3>5. f[i] = b + 2 /\ H[b + 1] = 128 + i /\ H[b + 2] = size[i]
      BY <3>2, <3>3, <3>4
    <3> QED
      BY <3>1, <3>5
  <2> QED
    BY <2>1
<1> DEFINE P == {k \in 0 .. m : f[k] = 2 * k}
<1>7. 0 .. m \subseteq P
  <2>1. 0 \in P
    BY <1>1, <1>5
  <2>2. ASSUME NEW k \in 1 .. m, k - 1 \in P PROVE k \in P
    <3>1. f[k - 1] = 2 * (k - 1)
      BY <2>2
    <3>2. f[k] = 2 * k
      BY <1>1, <1>6, <3>1
    <3> QED
      BY <3>2
  <2> HIDE DEF P
  <2> QED
    BY <1>1, <2>1, <2>2, AllUpTo
<1>8. ASSUME NEW i \in 1 .. m PROVE H[2 * i - 1] = 128 + i /\ H[2 * i] = size[i]
  <2>1. i - 1 \in 0 .. m /\ i \in Nat
    BY <1>1
  <2>2. f[i - 1] = 2 * (i - 1)
    BY <1>7, <2>1
  <2>3. f[i - 1] + 1 = 2 * i - 1 /\ f[i - 1] + 2 = 2 * i
    BY <2>1, <2>2
  <2> QED
    BY <1>6, <2>3
<1>9. Len(H) = 2 * m
  <2>1. m \in 0 .. m
    BY <1>1
  <2> QED
    BY <1>5, <1>7, <2>1
<1> QED
  BY <1>3, <1>8, <1>9 DEF HeadersAlong

\* What has been put together with redundancy comes apart into the redundant
\* frames and the current one.
LEMMA RedTakenApart ==
  ASSUME NEW m \in Nat
  PROVE  \A frames \in Seq(Seq(Nat)) :
           Len(frames) = m + 1 /\ Len(frames[m + 1]) # 0 => DepackSplitRed(SplitRed(frames)) = frames
<1>1. SUFFICES ASSUME NEW frames, frames \in Seq(Seq(Nat)), Len(frames) = m + 1, Len(frames[m + 1]) # 0
               PROVE  DepackSplitRed(SplitRed(frames)) = frames
  OBVIOUS
<1>2. \A i \in 1 .. m + 1 : frames[i] \in Seq(Nat) /\ Len(frames[i]) \in Nat
  BY <1>1
<1>3. PICK old : old = Front(frames)
  OBVIOUS
<1>4. old \in Seq(Seq(Nat)) /\ Len(old) = m /\ \A i \in 1 .. m : old[i] = frames[i]
  <2>1. Front(frames) = SubSeq(frames, 1, Len(frames) - 1)
    BY DEF Front
  <2>2. Front(frames) = SubSeq(frames, 1, m)
    BY <1>1, <2>1
  <2>3. \A k \in 1 .. m : frames[k] \in Seq(Nat)
    BY <1>2
  <2>4. /\ old \in Seq(Seq(Nat)) /\ Len(old) = IF 1 <= m THEN m - 1 + 1 ELSE 0
        /\ \A k \in 1 .. m - 1 + 1 : old[k] = frames[1 + k - 1]
    BY <1>3, <2>2, <2>3, SubSeqProperties
  <2>5. Len(old) = m
    BY <2>4
  <2>6. ASSUME NEW k \in 1 .. m PROVE old[k] = frames[k]
    <3>1. k \in 1 .. m - 1 + 1 /\ 1 + k - 1 = k
      OBVIOUS
    <3> QED
      BY <2>4, <3>1
  <2> QED
    BY <2>4, <2>5, <2>6
<1>5. PICK size : size = [i \in 1 .. m |-> Len(frames[i])]
  OBVIOUS
<1>6. \A i \in 1 .. m : size[i] = Len(frames[i]) /\ size[i] \in Nat
  <2>1. \A i \in 1 .. m : i \in 1 .. m + 1
    OBVIOUS
  <2> QED
    BY <1>2, <1>5, <2>1
<1>7. PICK H, O, c, p : /\ H = FlattenSeq([i \in 1 .. m |-> <<128 + i, size[i]>>])
                        /\ O = FlattenSeq(old) /\ c = frames[m + 1] /\ p = H \o <<0>> \o O \o c
  OBVIOUS
<1>8. SplitRed(frames) = p
  <2>1. DOMAIN old = 1 .. m
    BY <1>4
  <2>2. [i \in DOMAIN old |-> <<128 + i, Len(old[i])>>] = [i \in 1 .. m |-> <<128 + i, size[i]>>]
    BY <1>4, <1>6, <2>1
  <2>3. Last(frames) = frames[m + 1]
    BY <1>1 DEF Last
  <2> QED
    BY <1>3, <1>7, <2>2, <2>3 DEF SplitRed
<1>9. /\ H \in Seq(Nat) /\ Len(H) = 2 * m
      /\ \A i \in 1 .. m : H[2 * i - 1] = 128 + i /\ H[2 * i] = size[i]
  <2> DEFINE header(i) == <<128 + i, size[i]>>
  <2>1. PICK hs : hs = [i \in 1 .. m |-> header(i)]
    OBVIOUS
  <2>2. H = FlattenSeq(hs)
    BY <1>7, <2>1
  <2>3. ASSUME NEW i \in 1 .. m PROVE header(i) \in Seq(Nat)
    <3>1. PICK b, l : b = 128 + i /\ l = size[i]
      OBVIOUS
    <3>2. b \in Nat /\ l \in Nat
      BY <1>6, <3>1
    <3>3. <<b, l>> \in Seq(Nat)
      BY <3>2
    <3> QED
      BY <3>1, <3>3
  <2>4. hs \in Seq(Seq(Nat)) /\ Len(hs) = m /\ \A i \in 1 .. m : hs[i] = header(i)
    <3> HIDE DEF header
    <3> QED
      BY <2>1, <2>3
  <2>5. Headers(hs, m, size)
    BY <1>6, <2>4 DEF Headers
  <2>6. HeadersAlong(H, m, size)
    BY <2>2, <2>5, HeadersLaidOut
  <2> QED
    BY <2>6 DEF HeadersAlong
<1>10. O \in Seq(Nat) /\ \E f : Parts(f, old, O)
  <2>1. old \in Seq(Seq(Nat)) /\ O = FlattenSeq(old)
    BY <1>4, <1>7
  <2> QED
    BY <2>1, PartsLaidOut
<1>11. PICK L \in Nat : L = Len(O)
  BY <1>10
<1>12. PICK f : Parts(f, old, O)
  BY <1>10
<1>13. /\ f \in [0 .. m -> 0 .. L] /\ f[0] = 0 /\ f[m] = L
       /\ \A i \in 1 .. m : f[i] = f[i - 1] + size[i] /\ \A j \in 1 .. size[i] : O[f[i - 1] + j] = frames[i][j]
  <2>1. /\ f \in [0 .. m -> 0 .. Len(O)] /\ f[0] = 0 /\ f[m] = Len(O)
        /\ \A i \in 1 .. m : f[i] = f[i - 1] + Len(old[i]) /\ \A j \in 1 .. Len(old[i]) : O[f[i - 1] + j] = old[i][j]
    <3>1. Len(old) = m
      BY <1>4
    <3> QED
      BY <1>12, <3>1 DEF Parts
  <2>2. \A i \in 1 .. m : old[i] = frames[i] /\ Len(old[i]) = size[i]
    <3>1. ASSUME NEW i \in 1 .. m PROVE old[i] = frames[i] /\ Len(old[i]) = size[i]
      BY <1>4, <1>6
    <3> QED
      BY <3>1
  <2> QED
    BY <1>11, <2>1, <2>2
<1>14. c \in Seq(Nat) /\ Len(c) \in Nat \ {0}
  <2>1. m + 1 \in 1 .. m + 1
    OBVIOUS
  <2>2. c \in Seq(Nat)
    BY <1>2, <1>7, <2>1
  <2>3. Len(c) # 0 /\ Len(c) \in Nat
    BY <1>1, <1>7, <2>2
  <2> QED
    BY <2>2, <2>3
<1>15. PICK C \in Nat \ {0} : C = Len(c)
  BY <1>14
\* The four parts of p.
<1>16. PICK z, q : z = <<0>> /\ q = H \o z
  OBVIOUS
<1>17. /\ q \in Seq(Nat) /\ Len(q) = 2 * m + 1 /\ q[2 * m + 1] = 0
       /\ \A x \in 1 .. 2 * m : q[x] = H[x]
  <2>1. z \in Seq(Nat) /\ Len(z) = 1 /\ z[1] = 0
    BY <1>16
  <2>2. /\ q \in Seq(Nat) /\ Len(q) = Len(H) + Len(z)
        /\ \A x \in 1 .. Len(H) : q[x] = H[x]
        /\ \A x \in 1 .. Len(z) : q[Len(H) + x] = z[x]
    <3>1. H \in Seq(Nat) /\ z \in Seq(Nat) /\ q = H \o z
      BY <1>9, <1>16, <2>1
    <3> QED
      BY <3>1, TwoInARow
  <2>3. 1 \in 1 .. Len(z)
    BY <2>1
  <2>4. Len(H) = 2 * m
    BY <1>9
  <2>5. q[2 * m + 1] = 0
    BY <2>1, <2>2, <2>3, <2>4
  <2>6. Len(q) = 2 * m + 1
    BY <2>1, <2>2, <2>4
  <2> QED
    BY <2>2, <2>4, <2>5, <2>6
<1>18. /\ p \in Seq(Nat) /\ Len(p) = 2 * m + 1 + L + C
       /\ \A x \in 1 .. 2 * m + 1 : p[x] = q[x]
       /\ \A x \in 1 .. L : p[2 * m + 1 + x] = O[x]
       /\ \A x \in 1 .. C : p[2 * m + 1 + L + x] = c[x]
  <2>1. q \in Seq(Nat) /\ O \in Seq(Nat) /\ c \in Seq(Nat) /\ p = q \o O \o c
    BY <1>7, <1>10, <1>14, <1>16, <1>17
  <2>2. /\ p \in Seq(Nat) /\ Len(p) = Len(q) + Len(O) + Len(c)
        /\ \A x \in 1 .. Len(q) : p[x] = q[x]
        /\ \A x \in 1 .. Len(O) : p[Len(q) + x] = O[x]
        /\ \A x \in 1 .. Len(c) : p[Len(q) + Len(O) + x] = c[x]
    BY <2>1, ThreeInARow
  <2>3. Len(q) = 2 * m + 1
    BY <1>17
  <2> QED
    BY <1>11, <1>15, <2>2, <2>3
<1>19. \A i \in 1 .. m : p[2 * i - 1] = 128 + i /\ p[2 * i] = size[i]
  <2>1. \A i \in 1 .. m : /\ 2 * i - 1 \in 1 .. 2 * m /\ 2 * i \in 1 .. 2 * m
                          /\ 2 * i - 1 \in 1 .. 2 * m + 1 /\ 2 * i \in 1 .. 2 * m + 1
    OBVIOUS
  <2> QED
    BY <1>9, <1>17, <1>18, <2>1
<1>20. p[2 * m + 1] = 0
  <2>1. 2 * m + 1 \in 1 .. 2 * m + 1
    OBVIOUS
  <2> QED
    BY <1>17, <1>18, <2>1
<1>21. ASSUME NEW i \in 1 .. m, NEW x \in 1 .. size[i]
       PROVE  p[2 * m + 1 + (f[i - 1] + x)] = frames[i][x]
  <2>1. i - 1 \in 0 .. m /\ i \in 0 .. m
    OBVIOUS
  <2>2. f[i - 1] \in Nat /\ f[i] \in 0 .. L /\ size[i] \in Nat /\ f[i] = f[i - 1] + size[i]
    BY <1>6, <1>13, <2>1
  <2>3. PICK b, l, y : b = f[i - 1] /\ l = size[i] /\ y = f[i - 1] + x
    OBVIOUS
  <2>4. b \in Nat /\ l \in Nat /\ b + l \in 0 .. L /\ x \in 1 .. l /\ y = b + x
    BY <2>2, <2>3
  <2>5. y \in 1 .. L
    BY <2>4
  <2>6. O[y] = frames[i][x]
    BY <1>13, <2>3
  <2> QED
    BY <1>18, <2>3, <2>5, <2>6
\* The headers of the redundant frames are counted.
<1>22. PICK mains : mains = {k \in 0 .. Len(p) : 2 * k < Len(p) /\ p[2 * k + 1] < 128}
  OBVIOUS
<1>23. m \in mains
  <2>1. m \in 0 .. Len(p) /\ 2 * m < Len(p)
    <3>1. Len(p) = 2 * m + 1 + L + C
      BY <1>18
    <3> QED
      BY <3>1
  <2> QED
    BY <1>20, <1>22, <2>1
<1>24. ASSUME NEW k \in mains PROVE k \in Nat /\ m <= k
  <2>1. k \in 0 .. Len(p) /\ p[2 * k + 1] < 128
    BY <1>22
  <2>2. k \in Nat
    BY <2>1
  <2>3. ASSUME k < m PROVE FALSE
    <3>1. PICK i : i = k + 1
      OBVIOUS
    <3>2. i \in 1 .. m /\ 2 * i - 1 = 2 * k + 1
      BY <2>2, <2>3, <3>1
    <3>3. p[2 * k + 1] = 128 + i
      BY <1>19, <3>2
    <3> QED
      BY <2>1, <3>2, <3>3
  <2> QED
    BY <2>2, <2>3
<1>25. Min(mains) = m
  <2>1. m \in mains /\ \A y \in mains : m <= y
    BY <1>23, <1>24
  <2>2. PICK r : r = Min(mains)
    OBVIOUS
  <2>3. r \in mains /\ \A y \in mains : r <= y
    BY <2>1, <2>2 DEF Min
  <2>4. r \in Nat /\ m <= r /\ r <= m
    BY <1>24, <2>1, <2>3
  <2> QED
    BY <2>2, <2>4
\* Where the frames begin.
<1>26. PICK h : h = [k \in 1 .. m + 1 |-> 2 * m + 2 + f[k - 1]]
  OBVIOUS
<1>27. \A k \in 1 .. m + 1 : h[k] = 2 * m + 2 + f[k - 1] /\ f[k - 1] \in 0 .. L
  <2>1. \A k \in 1 .. m + 1 : k - 1 \in 0 .. m
    OBVIOUS
  <2> QED
    BY <1>13, <1>26, <2>1
<1>28. ASSUME NEW k \in 1 .. m + 1
       PROVE  h[k] = IF k = 1 THEN 2 * m + 2 ELSE h[k - 1] + p[2 * (k - 1)]
  <2>1. CASE k = 1
    BY <1>13, <1>27, <2>1
  <2>2. CASE k # 1
    <3>1. PICK i : i = k - 1
      OBVIOUS
    <3>2. i \in 1 .. m /\ i \in 1 .. m + 1
      BY <2>2, <3>1
    <3>3. h[i] = 2 * m + 2 + f[i - 1] /\ p[2 * i] = size[i] /\ h[k] = 2 * m + 2 + f[i] /\ f[i] = f[i - 1] + size[i]
      BY <1>13, <1>19, <1>27, <3>1, <3>2
    <3>4. f[i - 1] \in Nat /\ size[i] \in Nat
      <4>1. f[i - 1] \in 0 .. L /\ size[i] \in Nat
        BY <1>6, <1>27, <3>2
      <4> QED
        BY <4>1
    <3>5. h[k] = h[i] + p[2 * i]
      <4>1. PICK b, l : b = f[i - 1] /\ l = size[i]
        OBVIOUS
      <4>2. b \in Nat /\ l \in Nat /\ h[i] = 2 * m + 2 + b /\ p[2 * i] = l /\ h[k] = 2 * m + 2 + (b + l)
        BY <3>3, <3>4, <4>1
      <4> QED
        BY <4>2
    <3> QED
      BY <2>2, <3>1, <3>5
  <2> QED
    BY <2>1, <2>2
<1>29. PICK at : at = RedAt(p, m)
  OBVIOUS
<1>30. \A k \in 1 .. m + 1 : at[k] = h[k]
  BY <1>28, <1>29, RedStarts
<1>31. ASSUME NEW k \in 1 .. m + 1
       PROVE  SubSeq(p, at[k], IF k <= m THEN at[k + 1] - 1 ELSE Len(p)) = frames[k]
  <2>1. at[k] = 2 * m + 2 + f[k - 1] /\ f[k - 1] \in Nat
    BY <1>27, <1>30
  <2>2. CASE k <= m
    <3>1. k \in 1 .. m /\ k + 1 \in 1 .. m + 1 /\ (k + 1) - 1 = k
      BY <2>2
    <3>2. at[k + 1] = 2 * m + 2 + f[k] /\ f[k] = f[k - 1] + size[k] /\ size[k] \in Nat
      BY <1>6, <1>13, <1>27, <1>30, <3>1
    <3>3. PICK t, i, j : t = frames[k] /\ i = at[k] /\ j = at[k + 1] - 1
      OBVIOUS
    <3>4. PICK b, l : b = f[k - 1] /\ l = size[k]
      OBVIOUS
    <3>5. b \in Nat /\ l \in Nat /\ i = 2 * m + 2 + b /\ j = 2 * m + 2 + (b + l) - 1
      BY <2>1, <3>2, <3>3, <3>4
    <3>6. i \in Nat /\ j \in Int /\ j - i + 1 = l
      BY <3>5
    <3>7. ASSUME NEW x \in 1 .. l PROVE p[i + x - 1] = t[x]
      <4>1. i + x - 1 = 2 * m + 1 + (b + x)
        BY <3>5
      <4>2. p[2 * m + 1 + (f[k - 1] + x)] = frames[k][x]
        BY <1>21, <3>1, <3>4
      <4> QED
        BY <3>3, <3>4, <4>1, <4>2
    <3>8. t \in Seq(Nat) /\ l = Len(t)
      BY <1>2, <1>6, <3>1, <3>3, <3>4
    <3>9. SubSeq(p, i, j) = t
      <4>1. p \in Seq(Nat)
        BY <1>18
      <4> QED
        BY <3>6, <3>7, <3>8, <4>1, SubSeqIs
    <3> QED
      BY <2>2, <3>3, <3>9
  <2>3. CASE ~(k <= m)
    <3>1. k = m + 1 /\ k - 1 = m
      BY <2>3
    <3>2. PICK i, j : i = at[k] /\ j = Len(p)
      OBVIOUS
    <3>3. i = 2 * m + 2 + L
      BY <1>13, <2>1, <3>1, <3>2
    <3>4. j = 2 * m + 1 + L + C
      BY <1>18, <3>2
    <3>5. i \in Nat /\ j \in Int /\ j - i + 1 = C
      BY <3>3, <3>4
    <3>6. ASSUME NEW x \in 1 .. C PROVE p[i + x - 1] = c[x]
      <4>1. i + x - 1 = 2 * m + 1 + L + x
        BY <3>3
      <4> QED
        BY <1>18, <4>1
    <3>7. SubSeq(p, i, j) = c
      <4>1. /\ p \in Seq(Nat) /\ c \in Seq(Nat) /\ i \in Nat /\ j \in Int /\ j - i + 1 = Len(c)
            /\ \A x \in 1 .. Len(c) : p[i + x - 1] = c[x]
        BY <1>14, <1>15, <1>18, <3>5, <3>6
      <4> QED
        BY <4>1, SubSeqIs
    <3> QED
      BY <1>7, <2>3, <3>1, <3>2, <3>7
  <2> QED
    BY <2>2, <2>3
<1>32. ~(mains = {} \/ at[m + 1] > Len(p))
  <2>1. m + 1 \in 1 .. m + 1 /\ (m + 1) - 1 = m
    OBVIOUS
  <2>2. at[m + 1] = 2 * m + 2 + L
    BY <1>13, <1>27, <1>30, <2>1
  <2>3. Len(p) = 2 * m + 1 + L + C
    BY <1>18
  <2>4. ~(at[m + 1] > Len(p))
    BY <2>2, <2>3
  <2> QED
    BY <1>23, <2>4
<1>33. DepackSplitRed(p) = [k \in 1 .. m + 1 |-> SubSeq(p, at[k], IF k <= m THEN at[k + 1] - 1 ELSE Len(p))]
  BY <1>22, <1>25, <1>29, <1>32 DEF DepackSplitRed
<1>34. DOMAIN frames = 1 .. m + 1
  BY <1>1
<1>35. [k \in 1 .. m + 1 |-> SubSeq(p, at[k], IF k <= m THEN at[k + 1] - 1 ELSE Len(p))] = frames
  BY <1>1, <1>31, <1>34
<1> QED
  BY <1>8, <1>33, <1>35

\* A frame is decoded if its first byte says so, and else is silence.
LEMMA DecodedBits ==
  ASSUME NEW b \in 0 .. 255
  PROVE  /\ ~ParseSmplTOC(b).stdOpus <=> b < 192
         /\ b < 192 =>
              /\ ParseSmplTOC(b).active <=> (b \div 64) % 2 = 1 \/ (b \div 2) % 2 = 1
              /\ ParseSmplTOC(b).khz = 16 <=> (b \div 32) % 2 # 1
              /\ ParseSmplTOC(b).flag2 <=> (b \div 4) % 2 = 1
              /\ ParseSmplTOC(b).ms = 60 <=> (b \div 8) % 4 = 2
<1>1. CASE b >= 192
  <2>1. ParseSmplTOC(b) = [stdOpus |-> TRUE, active |-> FALSE, khz |-> 16,
                           ms |-> StandardOpusFrameMs(b), flag2 |-> FALSE]
    BY <1>1 DEF ParseSmplTOC
  <2> QED
    BY <1>1, <2>1
<1>2. CASE ~(b >= 192)
  <2> DEFINE act == HasBit(b, 64) \/ HasBit(b, 2)
             khz == IF HasBit(b, 32) THEN 32 ELSE 16
             ms == <<10, 20, 60, 120>>[((b \div 8) % 4) + 1]
             fl == HasBit(b, 4)
  <2>1. ParseSmplTOC(b) = [stdOpus |-> FALSE, active |-> act, khz |-> khz, ms |-> ms, flag2 |-> fl]
    BY <1>2 DEF ParseSmplTOC
  <2>2. khz = 16 <=> (b \div 32) % 2 # 1
    BY DEF HasBit
  <2>3. ms = 60 <=> (b \div 8) % 4 = 2
    <3>1. PICK x : x = (b \div 8) % 4
      OBVIOUS
    <3>2. x \in 0 .. 3
      BY <3>1
    <3>3. <<10, 20, 60, 120>>[x + 1] = 60 <=> x = 2
      <4>1. x = 0 \/ x = 1 \/ x = 2 \/ x = 3
        BY <3>2
      <4> QED
        BY <4>1
    <3> QED
      BY <3>1, <3>3
  <2>4. /\ act <=> (b \div 64) % 2 = 1 \/ (b \div 2) % 2 = 1
        /\ fl <=> (b \div 4) % 2 = 1
    BY DEF HasBit
  <2> HIDE DEF act, khz, ms, fl
  <2>5. /\ ParseSmplTOC(b).stdOpus <=> FALSE
        /\ ParseSmplTOC(b).active <=> act
        /\ ParseSmplTOC(b).khz = khz /\ ParseSmplTOC(b).ms = ms
        /\ ParseSmplTOC(b).flag2 <=> fl
    BY <2>1
  <2>6. b < 192
    BY <1>2
  <2> QED
    BY <2>2, <2>3, <2>4, <2>5, <2>6
<1> QED
  BY <1>1, <1>2

LEMMA SoundingBits ==
  ASSUME NEW b \in 0 .. 255
  PROVE  b \in Sounding <=>
           /\ b < 192
           /\ (b \div 64) % 2 = 1 \/ (b \div 2) % 2 = 1
           /\ (b \div 32) % 2 # 1
           /\ (b \div 4) % 2 # 1
           /\ (b \div 8) % 4 = 2
<1>1. PICK h \in 0 .. 7, r \in 0 .. 31 : b = 32 * h + r /\ h = b \div 32
  <2>1. PICK h : h = b \div 32
    OBVIOUS
  <2>2. h \in 0 .. 7 /\ b - 32 * h \in 0 .. 31
    BY <2>1
  <2>3. b = 32 * h + (b - 32 * h)
    BY <2>2
  <2> QED
    BY <2>1, <2>2, <2>3
<1>2. /\ b \div 64 = h \div 2 /\ (b \div 2) % 2 = (r \div 2) % 2
      /\ (b \div 4) % 2 = (r \div 4) % 2 /\ (b \div 8) % 4 = r \div 8
  BY <1>1
<1>3. (r \div 8 = 2 /\ (r \div 4) % 2 # 1) <=> r \in {16, 17, 18, 19}
  OBVIOUS
<1>4. r \in {16, 17, 18, 19} => ((r \div 2) % 2 = 1 <=> r \in {18, 19})
  OBVIOUS
<1>5. (h < 6 /\ h % 2 # 1) <=> h \in {0, 2, 4}
  OBVIOUS
<1>6. h \in {0, 2, 4} => ((h \div 2) % 2 = 1 <=> h = 2)
  OBVIOUS
<1>7. b < 192 <=> h < 6
  BY <1>1
<1>8. b \in Sounding <=> \/ h \in {0, 2, 4} /\ r \in {18, 19}
                         \/ h = 2 /\ r \in {16, 17}
  BY <1>1 DEF Sounding
<1> QED
  BY <1>1, <1>2, <1>3, <1>4, <1>5, <1>6, <1>7, <1>8

LEMMA FramesHaveBytes ==
  ASSUME NEW f \in Frames
  PROVE  f # <<>>
<1>1. Len(f) \in 1 .. 255
  BY DEF Frames
<1>2. Len(f) # 0
  <2>1. PICK l \in 1 .. 255 : l = Len(f)
    BY <1>1
  <2>2. l # 0
    OBVIOUS
  <2> QED
    BY <2>1, <2>2
<1>3. f = <<>> => Len(f) = 0
  OBVIOUS
<1> QED
  BY <1>2, <1>3

LEMMA DecodeFrameIs ==
  ASSUME NEW f \in Frames
  PROVE  /\ DecodeFrame(f).frame = IF f[1] \in Sounding THEN f ELSE <<>>
         /\ f[1] \in Sounding => DecodeFrame(f).samples = Opus
<1>1. f \in Seq(Bytes) /\ Len(f) \in 1 .. 255
  BY DEF Frames
<1>2. f # <<>>
  BY FramesHaveBytes
<1>3. PICK b : b = f[1]
  OBVIOUS
<1>4. b \in 0 .. 255
  <2>1. b \in Bytes
    <3>1. PICK n \in 1 .. 255 : n = Len(f)
      BY <1>1, Zenon
    <3>2. 1 \in 1 .. n
      OBVIOUS
    <3> QED
      BY <1>1, <1>3, <3>1, <3>2, ElementOfSeq, Zenon
  <2> QED
    BY <2>1 DEF Bytes
<1>5. PICK toc : toc = ParseSmplTOC(b)
  OBVIOUS
<1>6. ~(toc.stdOpus \/ ~toc.active \/ toc.khz # 16 \/ toc.flag2 \/ toc.ms # 60) <=> b \in Sounding
  <2>1. /\ ~toc.stdOpus <=> b < 192
        /\ b < 192 =>
              /\ toc.active <=> (b \div 64) % 2 = 1 \/ (b \div 2) % 2 = 1
              /\ toc.khz = 16 <=> (b \div 32) % 2 # 1
              /\ toc.flag2 <=> (b \div 4) % 2 = 1
              /\ toc.ms = 60 <=> (b \div 8) % 4 = 2
    BY <1>4, <1>5, DecodedBits
  <2>2. b \in Sounding <=>
           /\ b < 192
           /\ (b \div 64) % 2 = 1 \/ (b \div 2) % 2 = 1
           /\ (b \div 32) % 2 # 1
           /\ (b \div 4) % 2 # 1
           /\ (b \div 8) % 4 = 2
    BY <1>4, SoundingBits
  <2> QED
    BY <2>1, <2>2
<1>7. DecodeFrame(f) = IF toc.stdOpus \/ ~toc.active \/ toc.khz # 16 \/ toc.flag2 \/ toc.ms # 60
                       THEN [frame |-> <<>>, samples |-> 16 * toc.ms]
                       ELSE [frame |-> f, samples |-> Opus]
  BY <1>3, <1>5, <1>2 DEF DecodeFrame
<1>8. CASE b \in Sounding
  <2>1. DecodeFrame(f) = [frame |-> f, samples |-> Opus]
    BY <1>6, <1>7, <1>8
  <2> QED
    BY <1>3, <1>8, <2>1
<1>9. CASE b \notin Sounding
  <2>1. DecodeFrame(f) = [frame |-> <<>>, samples |-> 16 * toc.ms]
    BY <1>6, <1>7, <1>9
  <2> QED
    BY <1>3, <1>9, <2>1
<1> QED
  BY <1>8, <1>9

\* What is played of some frames.
Played(frames) == [i \in DOMAIN frames |-> DecodeFrame(frames[i])]

\* What came is what the payloads stood for, frame by frame.
PlayInv ==
    /\ spans \in Seq(PeerFrames \cup {<<>>})
    /\ pcm = Played(spans)

LEMMA PeerFramesAreFrames == PeerFrames \subseteq Frames
<1>1. ASSUME NEW f \in PeerFrames PROVE f \in Frames
  <2>1. f \in Seq(0 .. 255) /\ Len(f) \in 1 .. 255
    BY MlowAssumption
  <2> QED
    BY <2>1 DEF Frames, Bytes
<1> QED
  BY <1>1

\* More payloads play what they stand for after what has been played.
LEMMA PlayedAfter ==
  ASSUME NEW S, NEW a \in Seq(S), NEW b \in Seq(S)
  PROVE  Played(a \o b) = Played(a) \o Played(b)
<1> DEFINE T == {DecodeFrame(f) : f \in S}
<1>1. Len(a) \in Nat /\ Len(b) \in Nat /\ DOMAIN a = 1 .. Len(a) /\ DOMAIN b = 1 .. Len(b)
  OBVIOUS
<1>2. PICK q : q = a \o b
  OBVIOUS
<1>3. /\ q \in Seq(S) /\ Len(q) = Len(a) + Len(b)
      /\ \A x \in 1 .. Len(a) : q[x] = a[x]
      /\ \A x \in 1 .. Len(b) : q[Len(a) + x] = b[x]
  BY <1>2, TwoInARow
<1>4. ASSUME NEW s \in Seq(S)
      PROVE  /\ Played(s) \in Seq(T) /\ Len(Played(s)) = Len(s)
             /\ \A x \in 1 .. Len(s) : Played(s)[x] = DecodeFrame(s[x])
  <2>1. Len(s) \in Nat /\ DOMAIN s = 1 .. Len(s) /\ \A x \in 1 .. Len(s) : s[x] \in S
    OBVIOUS
  <2>2. \A x \in 1 .. Len(s) : DecodeFrame(s[x]) \in T
    BY <2>1
  <2> HIDE DEF T
  <2> QED
    BY <2>1, <2>2 DEF Played
<1>5. PICK u, v, w, r : u = Played(a) /\ v = Played(b) /\ w = Played(q) /\ r = u \o v
  OBVIOUS
<1> HIDE DEF T
<1>6. /\ u \in Seq(T) /\ Len(u) = Len(a) /\ \A x \in 1 .. Len(a) : u[x] = DecodeFrame(a[x])
  BY <1>4, <1>5
<1>7. /\ v \in Seq(T) /\ Len(v) = Len(b) /\ \A x \in 1 .. Len(b) : v[x] = DecodeFrame(b[x])
  BY <1>4, <1>5
<1>8. /\ w \in Seq(T) /\ Len(w) = Len(q) /\ \A x \in 1 .. Len(q) : w[x] = DecodeFrame(q[x])
  BY <1>3, <1>4, <1>5
<1>9. /\ r \in Seq(T) /\ Len(r) = Len(u) + Len(v)
      /\ \A x \in 1 .. Len(u) : r[x] = u[x]
      /\ \A x \in 1 .. Len(v) : r[Len(u) + x] = v[x]
  <2>1. u \in Seq(T) /\ v \in Seq(T) /\ r = u \o v
    BY <1>5, <1>6, <1>7
  <2> QED
    BY <2>1, TwoInARow
<1>10. Len(r) = Len(w)
  BY <1>3, <1>6, <1>7, <1>8, <1>9
<1>11. ASSUME NEW x \in 1 .. Len(r) PROVE r[x] = w[x]
  <2>1. PICK A, B : A = Len(a) /\ B = Len(b)
    OBVIOUS
  <2>2. A \in Nat /\ B \in Nat /\ Len(r) = A + B /\ Len(q) = A + B
    BY <1>1, <1>3, <1>6, <1>7, <1>9, <2>1
  <2>3. w[x] = DecodeFrame(q[x])
    BY <1>8, <2>2
  <2>4. CASE x <= A
    <3>1. x \in 1 .. Len(a) /\ x \in 1 .. Len(u)
      BY <1>6, <2>1, <2>2, <2>4
    <3> QED
      BY <1>3, <1>6, <1>9, <2>3, <3>1
  <2>5. CASE ~(x <= A)
    <3>1. PICK y : y = x - A
      OBVIOUS
    <3>2. y \in 1 .. B /\ x = A + y
      BY <2>2, <2>5, <3>1
    <3>3. q[x] = b[y] /\ r[x] = v[y] /\ v[y] = DecodeFrame(b[y])
      BY <1>3, <1>6, <1>7, <1>9, <2>1, <3>2
    <3> QED
      BY <2>3, <3>3
  <2> QED
    BY <2>4, <2>5
<1>12. r = w
  BY <1>8, <1>9, <1>10, <1>11, SeqEqual
<1> QED
  BY <1>2, <1>5, <1>12

LEMMA NothingSplits ==
  ASSUME NEW p \in Seq(Bytes), Len(p) < 3 \/ p[1] # 146 \/ p[2] \notin 2 .. 8
  PROVE  SplitContainer(p) = <<>>
BY DEF SplitContainer

LEMMA TakePayloadKeeps ==
  ASSUME NEW payload, NEW frames, PlayInv, TakePayload(payload, frames),
         frames \in Seq(PeerFrames \cup {<<>>}), DecodePayload(payload) = Played(frames)
  PROVE  PlayInv'
<1>1. PICK old, more, was, is : old = spans /\ more = spans' /\ was = pcm /\ is = pcm'
  OBVIOUS
<1>2. more = old \o frames /\ is = was \o Played(frames)
  BY <1>1 DEF TakePayload
<1>3. old \in Seq(PeerFrames \cup {<<>>}) /\ was = Played(old)
  BY <1>1 DEF PlayInv
<1>4. more \in Seq(PeerFrames \cup {<<>>})
  BY <1>2, <1>3, ConcatProperties
<1>5. is = Played(more)
  BY <1>2, <1>3, PlayedAfter
<1> QED
  BY <1>1, <1>4, <1>5 DEF PlayInv, Played

LEMMA ReceiveBareKeeps ==
  ASSUME PlayInv, ReceiveBare
  PROVE  PlayInv'
<1>1. PICK f \in PeerFrames : BareIsPlain(f) /\ TakePayload(f, <<f>>)
  BY DEF ReceiveBare
<1>2. f \in Frames /\ f \in Seq(Bytes) /\ Len(f) \in 1 .. 255
  BY PeerFramesAreFrames DEF Frames
<1>3. SplitContainer(f) = <<>>
  <2>1. Len(f) < 3 \/ f[1] # 146 \/ f[2] \notin 2 .. 8
    <3>1. BareIsPlain(f)
      BY <1>1, Zenon
    <3>2. Len(f) \in Nat
      BY <1>2, SizeIsNat, Zenon
    <3>3. Len(f) < 3 \/ Len(f) >= 3
      BY <3>2
    <3> QED
      BY <3>1, <3>3, Zenon DEF BareIsPlain
  <2> QED
    BY <1>2, <2>1, NothingSplits
<1>4. f # <<>>
  BY <1>2, FramesHaveBytes
<1>5. DecodePayload(f) = <<DecodeFrame(f)>>
  BY <1>3, <1>4 DEF DecodePayload
<1>6. Played(<<f>>) = <<DecodeFrame(f)>>
  BY DEF Played
<1>7. <<f>> \in Seq(PeerFrames \cup {<<>>})
  OBVIOUS
<1> QED
  BY <1>1, <1>5, <1>6, <1>7, TakePayloadKeeps

LEMMA ReceiveContainerKeeps ==
  ASSUME PlayInv, ReceiveContainer
  PROVE  PlayInv'
<1>1. PICK n \in 2 .. MaxContained : \E fs \in [1 .. n -> PeerFrames] : TakePayload(Container(fs), fs)
  BY DEF ReceiveContainer
<1>2. PICK fs \in [1 .. n -> PeerFrames] : TakePayload(Container(fs), fs)
  BY <1>1
<1>3. n \in 2 .. 8
  <2>1. MaxContained \in 2 .. 8
    BY MlowAssumption, Zenon
  <2> QED
    BY <2>1
<1>4. fs \in [1 .. n -> Frames]
  BY PeerFramesAreFrames
<1>5. SplitContainer(Container(fs)) = fs
  BY <1>3, <1>4, ContainerSplits
<1>6. fs # <<>>
  <2>1. DOMAIN fs = 1 .. n /\ 1 \in 1 .. n
    BY <1>3
  <2>2. DOMAIN <<>> = {}
    OBVIOUS
  <2> QED
    BY <2>1, <2>2
<1>7. Container(fs) # <<>>
  <2>1. SplitContainer(<<>>) = <<>>
    <3>1. <<>> \in Seq(Bytes) /\ Len(<<>>) = 0
      OBVIOUS
    <3>2. Len(<<>>) < 3
      BY <3>1
    <3> QED
      BY <3>1, <3>2, NothingSplits
  <2> QED
    BY <1>5, <1>6, <2>1
<1>8. DecodePayload(Container(fs)) = Played(fs)
  BY <1>5, <1>6, <1>7 DEF DecodePayload, Played
<1>9. fs \in Seq(PeerFrames \cup {<<>>})
  BY <1>3
<1> QED
  BY <1>2, <1>8, <1>9, TakePayloadKeeps

LEMMA ReceiveNothingKeeps ==
  ASSUME PlayInv, ReceiveNothing
  PROVE  PlayInv'
<1>1. TakePayload(<<>>, << <<>> >>)
  BY DEF ReceiveNothing
<1>2. DecodePayload(<<>>) = <<[frame |-> <<>>, samples |-> Opus]>>
  BY DEF DecodePayload
<1>3. DecodeFrame(<<>>) = [frame |-> <<>>, samples |-> Opus]
  BY DEF DecodeFrame
<1>4. Played(<< <<>> >>) = <<DecodeFrame(<<>>)>>
  BY DEF Played
<1>5. << <<>> >> \in Seq(PeerFrames \cup {<<>>})
  OBVIOUS
<1> QED
  BY <1>1, <1>2, <1>3, <1>4, <1>5, TakePayloadKeeps

LEMMA PlayInvPlays ==
  ASSUME PlayInv
  PROVE  FramesPlayInOrder
<1>1. spans \in Seq(PeerFrames \cup {<<>>}) /\ pcm = Played(spans)
  BY DEF PlayInv
<1>2. Len(spans) \in Nat /\ DOMAIN spans = 1 .. Len(spans)
      /\ \A i \in DOMAIN spans : spans[i] \in PeerFrames \cup {<<>>}
  BY <1>1
<1>3. Len(pcm) = Len(spans) /\ \A i \in DOMAIN spans : pcm[i] = DecodeFrame(spans[i])
  BY <1>1, <1>2 DEF Played
<1>4. ASSUME NEW i \in DOMAIN spans
      PROVE  LET f == spans[i]
                 plain == f # <<>> /\ f[1] \in Sounding
             IN  /\ pcm[i].frame = (IF plain THEN f ELSE <<>>)
                 /\ plain => pcm[i].samples = Opus
  <2>1. PICK f : f = spans[i]
    OBVIOUS
  <2>2. pcm[i] = DecodeFrame(f) /\ f \in PeerFrames \cup {<<>>}
    BY <1>2, <1>3, <2>1
  <2>3. CASE f = <<>>
    <3>1. DecodeFrame(<<>>).frame = <<>>
      BY DEF DecodeFrame
    <3> QED
      BY <2>1, <2>2, <2>3, <3>1
  <2>4. CASE f # <<>>
    <3>1. f \in Frames
      BY <2>2, <2>4, PeerFramesAreFrames
    <3>2. /\ DecodeFrame(f).frame = IF f[1] \in Sounding THEN f ELSE <<>>
          /\ f[1] \in Sounding => DecodeFrame(f).samples = Opus
      BY <3>1, DecodeFrameIs
    <3> QED
      BY <2>1, <2>2, <2>4, <3>2
  <2> QED
    BY <2>3, <2>4
<1>5. ASSUME spans # <<>>, \A i \in DOMAIN spans : spans[i] # <<>>
      PROVE  DepackSplitRed(SplitRed(spans)) = spans
  <2>1. PICK N, fs : N = Len(spans) /\ fs = spans
    OBVIOUS
  <2>2. ASSUME NEW i \in 1 .. N PROVE fs[i] \in Seq(Nat) /\ Len(fs[i]) # 0
    <3>1. i \in DOMAIN spans
      BY <1>2, <2>1
    <3>2. spans[i] \in PeerFrames
      BY <1>2, <1>5, <3>1
    <3>3. fs[i] \in Frames
      BY <2>1, <3>2, PeerFramesAreFrames
    <3>4. PICK g : g = fs[i]
      OBVIOUS
    <3>5. g \in Seq(Bytes) /\ Len(g) \in 1 .. 255
      BY <3>3, <3>4 DEF Frames
    <3>6. IsSequence(g) /\ \A x \in 1 .. Len(g) : g[x] \in Bytes
      BY <3>5 DEF IsSequence
    <3>7. \A x \in 1 .. Len(g) : g[x] \in Nat
      <4>1. Bytes \subseteq Nat
        BY DEF Bytes
      <4> QED
        BY <3>6, <4>1
    <3>8. g \in Seq(Nat)
      BY <3>6, <3>7, SequenceOver
    <3>9. Len(g) # 0
      <4>1. PICK l \in 1 .. 255 : l = Len(g)
        BY <3>5
      <4>2. l # 0
        OBVIOUS
      <4> QED
        BY <4>1, <4>2
    <3> QED
      BY <3>4, <3>8, <3>9
  <2>3. fs \in Seq(Seq(Nat)) /\ Len(fs) = N
    <3>1. IsSequence(fs)
      BY <1>1, <2>1 DEF IsSequence
    <3> QED
      BY <2>1, <2>2, <3>1, SequenceOver
  <2>4. N \in Nat /\ N # 0
    <3>1. N \in Nat
      BY <1>2, <2>1
    <3>2. Len(spans) = 0 => spans = <<>>
      BY <1>1
    <3> QED
      BY <1>5, <2>1, <3>1, <3>2
  <2>5. PICK m : m = N - 1
    OBVIOUS
  <2>6. m \in Nat /\ N = m + 1 /\ m + 1 \in 1 .. N
    BY <2>4, <2>5
  <2>7. Len(fs) = m + 1 /\ Len(fs[m + 1]) # 0
    BY <2>2, <2>3, <2>6
  <2> QED
    BY <2>1, <2>3, <2>6, <2>7, RedTakenApart
<1> QED
  BY <1>3, <1>4, <1>5 DEF FramesPlayInOrder

\* Whatever frames a peer sends, bare, in containers of at most eight or not at
\* all, MlowDecoder plays each in its turn, or silence in its place, and
\* DepackSplitRed gives back what was put together.
THEOREM FramesPlay == MlowSpec => []FramesPlayInOrder
<1>1. MlowInit => PlayInv
  <2>1. Played(<<>>) = <<>>
    BY DEF Played
  <2> QED
    BY <2>1 DEF MlowInit, PlayInv
<1>2. PlayInv /\ [MlowNext]_mlowVars => PlayInv'
  <2>1. PlayInv /\ MlowNext => PlayInv'
    BY ReceiveBareKeeps, ReceiveContainerKeeps, ReceiveNothingKeeps DEF MlowNext
  <2>2. PlayInv /\ UNCHANGED mlowVars => PlayInv'
    BY DEF PlayInv, Played, mlowVars
  <2> QED
    BY <2>1, <2>2
<1>3. PlayInv => FramesPlayInOrder
  BY PlayInvPlays
<1> QED
  BY <1>1, <1>2, <1>3, PTL DEF MlowSpec
===============================================================================
