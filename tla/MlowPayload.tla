------------------------------ MODULE MlowPayload ------------------------------
(***************************************************************************)
(* What an audio payload holds before any frame is decoded: one MLow       *)
(* frame, a container of several, or a frame with redundant ones before    *)
(* it; and what MlowDecoder makes of each frame by its first byte.  A      *)
(* decoded frame is the frame; 16 samples are a millisecond.               *)
(***************************************************************************)
EXTENDS Integers, Sequences, SequencesExt, FiniteSetsExt

CONSTANTS
    PeerFrames,    \* frames a peer may send, as bytes
    MaxContained,  \* bound: frames in one container; the code takes 8
    MaxSpans       \* bound: frames after which no payload is sent

\* Among others a frame's length is a byte.
ASSUME MlowAssumption ==
    /\ \A f \in PeerFrames : f \in Seq(0 .. 255) /\ Len(f) \in 1 .. 255
    /\ MaxContained \in 2 .. 8
    /\ MaxSpans \in Nat

VARIABLES
    pcm,       \* decoded so far: [frame, samples], frame <<>> for silence
    spans      \* history: the frames the payloads stood for

mlowVars == <<pcm, spans>>

Opus == 960  \* samples of a frame: opusFrameSamps

-----------------------------------------------------------------------------
(* toc.go.                                                                 *)

HasBit(b, weight) == (b \div weight) % 2 = 1

\* 2.5 ms are taken for 3.
StandardOpusFrameMs(b) ==
    LET config == b \div 8 IN
    IF config < 12 THEN <<10, 20, 40, 60>>[(config % 4) + 1]
    ELSE IF config < 16 THEN <<10, 20>>[((config - 12) % 2) + 1]
    ELSE <<3, 5, 10, 20>>[(config % 4) + 1]

ParseSmplTOC(b) ==
    IF b >= 192
    THEN [stdOpus |-> TRUE, active |-> FALSE, khz |-> 16, ms |-> StandardOpusFrameMs(b), flag2 |-> FALSE]
    ELSE [stdOpus |-> FALSE, active |-> HasBit(b, 64) \/ HasBit(b, 2), khz |-> IF HasBit(b, 32) THEN 32 ELSE 16,
          ms |-> <<10, 20, 60, 120>>[((b \div 8) % 4) + 1], flag2 |-> HasBit(b, 4)]

-----------------------------------------------------------------------------
(* decoder.go and red.go.                                                  *)

\* Mutant: the byte of a length is taken for one of its frame's.
FramesAtShort(p) ==
    LET at[k \in 1 .. p[2]] ==
          IF k = 1 THEN 3
          ELSE IF at[k - 1] > Len(p) THEN at[k - 1] ELSE at[k - 1] + p[at[k - 1]]
    IN  at

\* Where each frame's length is, and the last frame's first byte; past the end
\* once one does not fit.
FramesAt(p) ==
    LET at[k \in 1 .. p[2]] ==
          IF k = 1 THEN 3
          ELSE IF at[k - 1] > Len(p) THEN at[k - 1] ELSE at[k - 1] + 1 + p[at[k - 1]]
    IN  at

\* <<>> if the frames do not come out; the last takes what is left.
SplitContainer(p) ==
    LET at == FramesAt(p)
        count == p[2]
    IN  IF Len(p) < 3 \/ p[1] # 146 \/ count \notin 2 .. 8 \/ at[count] > Len(p) THEN <<>>
        ELSE [k \in 1 .. count |->
                IF k < count THEN SubSeq(p, at[k] + 1, at[k + 1] - 1) ELSE SubSeq(p, at[k], Len(p))]

\* Decoded at 16 kHz, 60 ms, at the high rate, active; silence otherwise.  The
\* bit that says SID is not asked: a peer sets it on every frame.
DecodeFrame(frame) ==
    LET toc == ParseSmplTOC(frame[1]) IN
    IF frame = <<>> THEN [frame |-> <<>>, samples |-> Opus]
    ELSE IF toc.stdOpus \/ ~toc.active \/ toc.khz # 16 \/ toc.flag2 \/ toc.ms # 60
         THEN [frame |-> <<>>, samples |-> 16 * toc.ms]
         ELSE [frame |-> frame, samples |-> Opus]

\* Every frame of a container is decoded, as the comment in the middle of Decode
\* has it; the one above it says otherwise (OnlyMainIsDecoded).
DecodePayload(payload) ==
    LET split == SplitContainer(payload)
    IN  IF payload = <<>> THEN <<[frame |-> <<>>, samples |-> Opus]>>
        ELSE IF split = <<>> THEN <<DecodeFrame(payload)>>
        ELSE [i \in DOMAIN split |-> DecodeFrame(split[i])]

\* Where the redundant frames and, after them, the main one begin, of which there
\* are as many as headers of a code with the high bit and a size.
RedAt(p, headers) ==
    LET at[k \in 1 .. headers + 1] == IF k = 1 THEN 2 * headers + 2 ELSE at[k - 1] + p[2 * (k - 1)]
    IN  at

\* The code of the main frame ends the headers.  <<>> is any of the errors: no
\* such code, or frames that leave nothing for the main one.
DepackSplitRed(p) ==
    LET mains == {k \in 0 .. Len(p) : 2 * k < Len(p) /\ p[2 * k + 1] < 128}
        red == Min(mains)
        at == RedAt(p, red)
    IN  IF mains = {} \/ at[red + 1] > Len(p) THEN <<>>
        ELSE [k \in 1 .. red + 1 |-> SubSeq(p, at[k], IF k <= red THEN at[k + 1] - 1 ELSE Len(p))]

-----------------------------------------------------------------------------
(* The peer (external), by what the comments say of its payloads.          *)

Container(frames) ==
    <<146, Len(frames)>>
    \o FlattenSeq([i \in 1 .. Len(frames) - 1 |-> <<Len(frames[i])>> \o frames[i]])
    \o Last(frames)

SplitRed(frames) ==
    LET old == Front(frames)
    IN  FlattenSeq([i \in DOMAIN old |-> <<128 + i, Len(old[i])>>]) \o <<0>>
          \o FlattenSeq(old) \o Last(frames)

MlowInit == pcm = <<>> /\ spans = <<>>

\* A frame that begins as a container does cannot be told from one.
BareIsPlain(frame) == ~(frame[1] = 146 /\ Len(frame) >= 3 /\ frame[2] \in 2 .. 8)

TakePayload(payload, frames) ==
    /\ Len(spans) < MaxSpans
    /\ pcm' = pcm \o DecodePayload(payload)
    /\ spans' = spans \o frames

ReceiveBare == \E f \in PeerFrames : BareIsPlain(f) /\ TakePayload(f, <<f>>)
ReceiveContainer ==
    \E n \in 2 .. MaxContained : \E fs \in [1 .. n -> PeerFrames] : TakePayload(Container(fs), fs)
ReceiveNothing == TakePayload(<<>>, << <<>> >>)

MlowNext == ReceiveBare \/ ReceiveContainer \/ ReceiveNothing

MlowSpec == MlowInit /\ [][MlowNext]_mlowVars

-----------------------------------------------------------------------------
(* Properties.                                                             *)

\* The first bytes, 0x50 and the like, of frames with sound at the decoder's one
\* rate and length.
Sounding == {18, 19, 80, 81, 82, 83, 146, 147}

\* Of every frame a payload holds, in order and once, either the frame or
\* silence of its own length is played, and only a frame of another kind than
\* those decoded, or without sound, is silence; a container ends no frame and
\* starts none.  With redundancy negotiated the frames are taken apart as they
\* were put together, the current one last.  This is what mlow/decoder.go:92 says
\* of a container; decoder.go:84 says the opposite (OnlyMainIsDecoded).
FramesPlayInOrder ==
    /\ Len(pcm) = Len(spans)
    /\ \A i \in DOMAIN spans :
         LET f == spans[i]
             plain == f # <<>> /\ f[1] \in Sounding
         IN  /\ pcm[i].frame = (IF plain THEN f ELSE <<>>)
             /\ plain => pcm[i].samples = Opus
    /\ spans # <<>> /\ (\A i \in DOMAIN spans : spans[i] # <<>>) =>
         DepackSplitRed(SplitRed(spans)) = spans

-----------------------------------------------------------------------------
(* What the repository says of the payloads and the code does not do.      *)

\* mlow/decoder.go:84 - "Decode only the main; the redundant copies are FEC": a
\* container adds its last frame and no other, as the 960 samples do that line 68
\* promises of a payload.
OnlyMainIsDecoded ==
    [][ReceiveContainer => \E f \in PeerFrames : pcm' = Append(pcm, DecodeFrame(f))]_mlowVars
===============================================================================
