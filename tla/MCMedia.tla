------------------------------- MODULE MCMedia -------------------------------
(* Bounded instances of what makes sound and picture pass between two ends:   *)
(* the keys and streams they agree on, the packets, the frames, the symbols.  *)
(* These touch each other only through values that are inputs of the next, so *)
(* a behaviour has one of them.                                               *)
EXTENDS AudioPath, VideoPath, RangeCoder, SmplFrame, Wire, MlowPayload, Signaling, TLC

CONSTANTS c1, c2

VARIABLE part

---------------------------------------------------------------------------
(* AudioPath and VideoPath.                                                *)

MCStarts == {[seq |-> 0, ts |-> 0], [seq |-> 2, ts |-> 58]}
MCUnits == << <<[name |-> "idr", len |-> 14]>>, <<[name |-> "long", len |-> 15]>>,
              <<[name |-> "sps", len |-> 1], [name |-> "pps", len |-> 1]>>,
              <<[name |-> "sei", len |-> 2], [name |-> "slice", len |-> 9]>> >>
MCSymmetry == Permutations(Conns)

---------------------------------------------------------------------------
(* RangeCoder at a width of 12 bits, SmplFrame with two samples to a       *)
(* subframe.                                                               *)

MCSymbols ==
    {[op |-> "cdf", sym |-> s, cdf |-> <<3, 4, 11, 34>>] : s \in 0 .. 2}
        \cup {[op |-> "cdf", sym |-> s, cdf |-> <<0, 29, 31>>] : s \in 0 .. 1}
        \cup {[op |-> "icdf", sym |-> s, icdf |-> <<9, 2, 0>>, ftb |-> 4] : s \in 0 .. 2}
        \cup {[op |-> "bit", sym |-> s, logp |-> 3] : s \in 0 .. 1}
        \cup {[op |-> "raw", sym |-> s, bits |-> 3] : s \in {0, 7}}
        \cup {[op |-> "uint", sym |-> s, ft |-> 27] : s \in {0, 19, 26}}
        \cup {[op |-> "bits", sym |-> s, bits |-> 5] : s \in {0, 21, 31}}

MCBlocksegs == << [blocks |-> <<0>>, seglens |-> <<8>>],
                  [blocks |-> <<0, 2>>, seglens |-> <<3, 5>>],
                  [blocks |-> <<1, 0>>, seglens |-> <<4, 4>>],
                  [blocks |-> <<3, 2, 3>>, seglens |-> <<2, 4, 2>>] >>
MCGainShape == <<<<0, 0, 1, 1>>, <<-1, 0, -1, 1>>>>

\* What one subframe may hold, and what the others are made of.
Pulses == {v \in [1 .. 2 -> -2 .. 2] : Abs(v[1]) + Abs(v[2]) <= 2}
NoPulse == <<0, 0>>
Full == <<-1, 1>>
Some == {<<v, w, NoPulse, NoPulse>> : v, w \in Pulses} \cup {<<NoPulse, Full, v, w>> : v, w \in Pulses}
            \cup {<<v, NoPulse, w, Full>> : v, w \in Pulses} \cup {<<Full, Full, v, w>> : v, w \in Pulses}

Params(stage1, pulses, gain, seg, lags) ==
    [stage1 |-> stage1, grid |-> gain, stage2 |-> <<gain, 1>>, extra |-> 2, pulses |-> pulses,
     main |-> gain, delta |-> 1, nrg |-> <<0, 1, 0, 1>>,
     gains |-> <<gain, 1, gain, 2>>, filts |-> <<1, 0, 1, gain>>, seg |-> seg, lags |-> lags]

Quiet == Params(0, <<NoPulse, NoPulse, NoPulse, NoPulse>>, 0, 1, <<0>>)
Voiced == {Params(1, <<Full, NoPulse, Full, NoPulse>>, 1, seg, lags) :
             <<seg, lags>> \in {<<1, <<1>>>>, <<2, <<1, 5>>>>, <<3, <<3, 0>>>>, <<4, <<7, 4, 6>>>>}}

\* Pulses of every shape, and lags that move between all pairs of segments.
MCFrames == <<
    {<<p, q, r>> : p, q, r \in Voiced \cup {Quiet}},
    {<<Params(s, ps, 0, 2, <<0, 4>>), Params(1, ps, 1, 4, <<6, 5, 7>>), Quiet>> : s \in 0 .. 1, ps \in Some}
        \cup {<<p, q, r>> : p, q, r \in Voiced \cup {Quiet}} >>

---------------------------------------------------------------------------
(* Wire and MlowPayload.                                                   *)

MCTxId == <<1, 2, 3, 4, 5, 6, 7, 8, 9, 10, 11, 12>>
MCTieBreaker == <<1, 1, 2, 3, 5, 8, 13, 21>>
MCSsrcs == {0, 1, 127, 128, 16384, 2147483647}

\* Texts of all lengths modulo 4, one of them long.
MCRelays ==
    {[auth |-> <<97, 98>>, token |-> t, raw |-> <<9, 0, 9>>, key |-> <<107, 0>>, ip |-> <<10, 200, 0, 255>>,
      port |-> 3480, ufrag |-> u] : t \in {<<>>, <<97, 98>>, <<116>>}, u \in {<<>>, <<117>>}}
      \cup {[auth |-> <<>>, token |-> t, raw |-> r, key |-> <<>>, ip |-> ip, port |-> 3480, ufrag |-> <<117>>] :
              t \in {<<>>, <<116>>}, r \in {<<>>, [i \in 1 .. 180 |-> i % 7]}, ip \in {<<>>, <<1, 2, 3, 4>>}}

\* Varints of every length, and streams that have no SSRC.
MCStreams == {[self |-> <<>>, peer |-> p] : p \in {<<>>, <<7>>}}
               \cup {[self |-> <<a, 128>>, peer |-> <<b, 16384, 0>>] : a, b \in MCSsrcs}

Attr(type, n) == Attribute(type, [i \in 1 .. n |-> (40 * i) % 256])
\* One attribute has a length of two bytes.
MCAnswers ==
    {[type |-> t, attrs |-> <<Attr(9, n), Attr(16435, m), Attr(32, 5)>>] :
       t \in {257, 259, 273, 275, 17, 2049}, n \in {0, 4, 7}, m \in {0, 8, 9}}
      \cup {[type |-> 257, attrs |-> <<>>],
            [type |-> 259, attrs |-> <<Attr(32, 3), Attr(13, 300), Attr(16435, 8)>>]}

MCHeaders ==
    {[pt |-> pt, marker |-> m, csrc |-> c, ext |-> e # "none", pad |-> p,
      words |-> IF e = "words" THEN <<1, 2, 3, 4>> ELSE <<>>,
      seq |-> 65535 - n, ts |-> 960 * n, ssrc |-> 33000000 * n] :
       pt \in {97, 120, 1}, m, p \in BOOLEAN, c \in {<<>>, <<3>>, <<70000, 4>>},
       e \in {"none", "empty", "words"}, n \in {0, 7, 65}}
MCPayloads == {<<>>, <<146>>, <<80, 1, 2>>}

MCPeerFrames == {<<80, 1>>, <<18>>, <<146, 9, 1>>, <<146, 2, 1, 5>>, <<144>>, <<88, 3>>, <<112, 2>>, <<84, 2, 3>>, <<208, 1>>}

---------------------------------------------------------------------------
(* Signaling: a linked device calls a user with a phone and another.       *)

MCCaller == <<"a", 3>>
MCCallee == <<"b", -1>>
MCAnswerers == {<<"b", 0>>, <<"b", 2>>}

A(n) == <<"a", n>>
B(n) == <<"b", n>>

\* With and without device numbers, the callee's devices in any order, and
\* another device of the caller's.
MCLists == {<<>>, <<A(3), B(0), B(2), A(3)>>, <<B(2), B(0), A(3)>>, <<B(Bare), A(Bare), A(3)>>,
            <<A(3), B(2)>>, <<B(0), A(3)>>, <<A(0), A(3), B(2)>>}

Token(tag, id, val) == [tag |-> tag, id |-> id, val |-> val, auth |-> None, rtt |-> None, len |-> 0]
Te2(id, auth, rtt, ip, len) == [tag |-> "te2", id |-> id, val |-> ip, auth |-> auth, rtt |-> rtt, len |-> len]

Short == <<Token("token", None, 1), Te2(None, None, None, 7, 6)>>
MCRelayNodes ==
    {<<t[1], t[2], t[3], t[4], Token("auth_token", 1, 3)>> : t \in
       SetToSeqs({Token("token", None, 1), Te2(None, None, None, 7, 6), Te2(1, 1, 9, 8, 6),
                    Token("token", 1, 2)})}
      \cup {<<Te2(0, 1, a, 7, 6), Te2(1, None, b, 8, 6), Token("token", 1, 2), Te2(0, 2, c, 9, 6),
              Te2(0, 2, 1, 10, d)>> : a, b, c \in {None, 4, 5}, d \in {4, 6, 18}}
      \cup {<<Token("token", 1, 2), Te2(1, None, 3, 7, 6), Token("token", 1, 5)>>, <<>>}

RelayAttr(ip, token, rtt) == [ip |-> ip, rtt |-> rtt, token |-> token, auth |-> None]

MCServers ==
    {[list |-> l, relay |-> Short, others |-> o, inOffer |-> Short, attributes |-> <<>>] :
       l, o \in MCLists}
      \cup {[list |-> <<A(3), B(2)>>, relay |-> r, others |-> <<>>, inOffer |-> <<>>,
              attributes |-> <<RelayAttr(7, 1, None), RelayAttr(8, None, 1), RelayAttr(9, 2, 4)>>] :
              r \in MCRelayNodes}

---------------------------------------------------------------------------
codecVars == <<coder, written, packetNo, lstate, result>>

Init ==
    /\ AudioInit /\ VideoInit /\ RangeInit /\ SmplInit /\ WireInit /\ MlowInit /\ SigInit
    /\ part \in {"audio", "video", "range coder", "frames", "wire", "payloads", "signaling"}
    /\ part # "audio" => rtp.seq = 0

Next ==
    /\ part' = part
    /\ \/ /\ part = "audio" /\ AudioNext
          /\ UNCHANGED <<videoVars, codecVars, wire, mlowVars, sigVars>>
       \/ /\ part = "video" /\ VideoNext
          /\ UNCHANGED <<audioVars, codecVars, wire, mlowVars, sigVars>>
       \/ /\ part = "range coder" /\ RangeNext
          /\ UNCHANGED <<audioVars, videoVars, packetNo, lstate, result, wire, mlowVars, sigVars>>
       \/ /\ part = "frames" /\ SmplNext
          /\ UNCHANGED <<audioVars, videoVars, coder, written, wire, mlowVars, sigVars>>
       \/ /\ part = "wire" /\ WireNext
          /\ UNCHANGED <<audioVars, videoVars, codecVars, mlowVars, sigVars>>
       \/ /\ part = "payloads" /\ MlowNext
          /\ UNCHANGED <<audioVars, videoVars, codecVars, wire, sigVars>>
       \/ /\ part = "signaling" /\ SigNext
          /\ UNCHANGED <<audioVars, videoVars, codecVars, wire, mlowVars>>

Spec == Init /\ [][Next]_<<audioVars, videoVars, codecVars, wire, mlowVars, sigVars, part>>
===============================================================================
