------------------------------- MODULE SmplFrame -------------------------------
(***************************************************************************)
(* The body of an active MLow frame: which symbol EncodeSmplFrame writes   *)
(* with which table, and which table the decoder reads it with.  A body is *)
(* the sequence of the symbols, each with its table; RangeCoder shows that *)
(* a symbol comes back if it is read with the table it was written with.   *)
(* A table is named by what selects it.  The signal processing that finds  *)
(* the parameters of a frame (which has no more pulses than the tables) or *)
(* makes sound of them is left out.                                        *)
(***************************************************************************)
EXTENDS Integers, Sequences, SequencesExt, FiniteSetsExt

CONSTANTS
    Positions,   \* samples of a subframe: 80
    Granularity, \* subfrLen16, pulses a subframe may hold: 40
    SignBatch,   \* signs read at once: 15
    Grids, Levels,  \* symbols of the LSF grid, and of a residual
    GainSteps,   \* symbols of the main gain, and of an LTP gain
    GainShape,   \* delta gain -> the four offsets of GainRecon
    Filters,     \* symbols of a filter index or an energy residual
    Bucket,      \* pulses to an energy bucket: 10
    BlockSize, NumBlocks,  \* pitchBlocksize 64, pitchNumBlocks 9
    Blocksegs,   \* [blocks, seglens] in the order of their first blocks
    Frames       \* for every packet in turn, the frames it may carry

Subframes == 1 .. 4
Half == 2 * Granularity
Most(a, b) == Max({a, b})
Least(a, b) == Min({a, b})
Abs(x) == Most(x, 0 - x)
SumOf(s) == FoldSeq(LAMBDA x, y : x + y, 0, s)

ASSUME SmplFrameAssumption ==
    /\ {Positions, Granularity, SignBatch, Grids, Levels, GainSteps, Filters, Bucket, BlockSize,
        NumBlocks} \subseteq Nat \ {0}
    /\ \A i \in DOMAIN Blocksegs :
         /\ SumOf(Blocksegs[i].seglens) = 8
         /\ i > 1 => Blocksegs[i - 1].blocks[1] <= Blocksegs[i].blocks[1]

VARIABLES
    packetNo, lstate,  \* packets sent; the decoder's SmplLsfState
    result             \* of the last packet received: [frame, err, decoded, insync]

\* The fields of SmplLsfState the coding looks at; -1 is "none".
NoPredictor == [gain |-> -1, filt |-> -1, blk |-> -1, idx |-> -1]
FreshState == [stage1 |-> 0, pred |-> NoPredictor]

W(table, size, sym) == [table |-> table, size |-> size, sym |-> sym]

-----------------------------------------------------------------------------
(* What both sides compute.                                                *)

LsfSel(st, intf) == IF intf = 0 THEN 0 ELSE IF st.stage1 # 0 THEN 2 ELSE 1
LsfMatch(st, intf, stage1) == intf # 0 /\ stage1 = st.stage1

\* Mutant: the predictor outlives the first internal frame of a packet.
AdvanceLsfKeeps(st, intf, stage1) ==
    [stage1 |-> stage1, pred |-> IF stage1 = st.stage1 THEN st.pred ELSE NoPredictor]

AdvanceLsf(st, intf, stage1) ==
    [stage1 |-> stage1, pred |-> IF LsfMatch(st, intf, stage1) THEN st.pred ELSE NoPredictor]

\* The cumulative triangular prior of the pulse count.
TriT(k) == LET l == 4 * Granularity IN (k + 2) * (l + 1) - ((k - 1) * (k - 2)) \div 2
CountTable == <<"count", TriT(4 * Granularity)>>

\* How many of all pulses lie in the first two subframes.
FirstHalf(total) == [from |-> Most(0, total - Half), to |-> Least(total, Half)]
SplitTable(count, start, n) == <<"split", count, start, n>>
FirstHalfTable(total) ==
    LET h == FirstHalf(total) IN SplitTable(total, h.from - Most(0, total - Half), h.to - h.from + 2)
\* ... and how many of two subframes' in the first of them.
SplitRange(count) == [from |-> Most(0, count - Granularity), to |-> Least(count, Granularity)]
SplitRangeTable(count) ==
    LET r == SplitRange(count) IN SplitTable(count, r.from, r.to - r.from + 2)

RunTable(left, room) == <<"run", left, (room + 7) \div 8, room>>

GainQ(main, delta, sf) == main + GainShape[delta + 1][sf]
NrgTable(main, delta, sf, count) ==
    <<"nrg", Least(3, count \div Bucket), Most(0, 0 - GainQ(main, delta, sf))>>

Mode(gains) ==
    LET avg == SumOf(gains) \div 4
    IN  IF 2 * avg < GainSteps THEN 0 ELSE IF avg < GainSteps - 1 THEN 1 ELSE 2

\* The block segments that begin with a block.
SegsFrom(b) == {i \in DOMAIN Blocksegs : Blocksegs[i].blocks[1] = b}
Near(prev, blk) == prev > -1 /\ blk - prev >= -1 /\ blk - prev <= 2

FilterTable(pred) == IF pred.filt = -1 THEN <<"filter">> ELSE <<"filterDelta", pred.filt>>

-----------------------------------------------------------------------------
(* The encoder.                                                            *)

EncodeLsf(st, intf, p) ==
    LET m == LsfMatch(st, intf, p.stage1)
    IN  <<W(<<"sel", LsfSel(st, intf)>>, 2, p.stage1), W(<<"grid", m, p.stage1>>, Grids, p.grid)>>
        \o [k \in DOMAIN p.stage2 |-> W(<<"stage2", p.stage1, p.grid, k>>, Levels, p.stage2[k])]
        \o <<W(<<"extra">>, 3, p.extra)>>

\* smplBuildPulseParams: positions as run lengths, a larger pulse as runs of 0.
Nonzero(v) == SetToSortSeq({n \in DOMAIN v : v[n] # 0}, <)
MagRuns(v) ==
    LET at == Nonzero(v)
        run(i) == IF i = 1 THEN at[1] - 1 ELSE at[i] - at[i - 1]
    IN  FlattenSeq([i \in DOMAIN at |-> <<run(i)>> \o [k \in 1 .. Abs(v[at[i]]) - 1 |-> 0]])
Count(v) == SumOf([n \in DOMAIN v |-> Abs(v[n])])
Signs(pulses) ==
    FlattenSeq([sf \in Subframes |->
        LET v == pulses[sf] at == Nonzero(v) IN [i \in DOMAIN at |-> IF v[at[i]] > 0 THEN 1 ELSE 0]])

\* A batch of signs, the first one in the highest bit.
Batch(signs) ==
    W(<<"raw", Len(signs)>>, 2^Len(signs), FoldLeft(LAMBDA sym, bit : 2 * sym + bit, 0, signs))
SignBatches(signs) ==
    [b \in 1 .. (Len(signs) + SignBatch - 1) \div SignBatch |->
        Batch(SubSeq(signs, (b - 1) * SignBatch + 1, Least(b * SignBatch, Len(signs))))]

EncodeSplit(count, first) ==
    LET r == SplitRange(count)
    IN  IF r.from >= r.to THEN <<>>
        ELSE <<W(SplitRangeTable(count), r.to - r.from + 1, first - r.from)>>

EncodeRuns(runs) ==
    [k \in DOMAIN runs |->
        LET room == Positions - SumOf(SubSeq(runs, 1, k - 1))
        IN  W(RunTable(Len(runs) - k + 1, room), room, runs[k])]

EncodePulses(pulses) ==
    LET counts == [sf \in Subframes |-> Count(pulses[sf])]
        total == SumOf(counts)
        first == counts[1] + counts[2]
        half == FirstHalf(total)
        count == <<W(CountTable, TriT(4 * Granularity), <<IF total = 0 THEN 0 ELSE TriT(total - 1), TriT(total)>>)>>
        split == IF half.from >= half.to THEN <<>>
                 ELSE <<W(FirstHalfTable(total), half.to - half.from + 1, first - half.from)>>
        splits == split \o (IF first = 0 THEN <<>> ELSE EncodeSplit(first, counts[1]))
                        \o (IF first = total THEN <<>> ELSE EncodeSplit(total - first, counts[3]))
    IN  IF total = 0 THEN count
        ELSE count \o splits \o FlattenSeq([sf \in Subframes |-> EncodeRuns(MagRuns(pulses[sf]))])
                   \o SignBatches(Signs(pulses))

EncodeGains(p) ==
    LET nrg(sf) == W(NrgTable(p.main, p.delta, sf, Count(p.pulses[sf])), Filters, p.nrg[sf])
        pulsed == SelectSeq(<<1, 2, 3, 4>>, LAMBDA sf : Count(p.pulses[sf]) > 0)
    IN  <<W(<<"main">>, GainSteps, p.main), W(<<"delta">>, Len(GainShape), p.delta)>>
        \o [i \in DOMAIN pulsed |-> nrg(pulsed[i])]

\* LTP gains, each predicted from the one before; filters where there are pulses.
LtpBefore(st, p, sf) ==
    LET pulsed == {s \in 1 .. sf - 1 : Count(p.pulses[s]) > 0}
    IN  [st.pred EXCEPT !.gain = IF sf = 1 THEN @ ELSE p.gains[sf - 1],
                        !.filt = IF pulsed = {} THEN @ ELSE p.filts[Max(pulsed)]]
EncodeLtp(st, p) ==
    FlattenSeq([sf \in Subframes |->
        <<W(<<"gain", LtpBefore(st, p, sf).gain>>, GainSteps, p.gains[sf])>>
        \o IF Count(p.pulses[sf]) = 0 THEN <<>>
           ELSE <<W(FilterTable(LtpBefore(st, p, sf)), Filters, p.filts[sf])>>])

\* encodeLagsWire: the block segment, then a lag for each segment, in its block
\* if it is not near the one before, else relative to the last lag.
DeltaWrite(mode, blk, prevIdx, idx) ==
    LET base == blk * BlockSize - prevIdx + 2 * BlockSize - 1
    IN  W(<<"delta", mode, base>>, IF base \in 0 .. 4 * BlockSize - 1 THEN BlockSize ELSE 0,
          idx - blk * BlockSize)

EncodeLags(st, p) ==
    LET seg == Blocksegs[p.seg]
        b0 == seg.blocks[1]
        which == IF st.pred.blk < 0 THEN <<W(<<"seg">>, Len(Blocksegs), p.seg - 1)>>
                 ELSE <<W(<<"block", st.pred.blk>>, NumBlocks, b0),
                        W(<<"seg", b0>>, Max(SegsFrom(b0)) - Min(SegsFrom(b0)) + 1, p.seg - Min(SegsFrom(b0)))>>
        near == Near(st.pred.blk, b0)
        lag(k) == IF k = 0 THEN st.pred.idx ELSE p.lags[k]
        start == IF near THEN <<>> ELSE <<W(<<"fine">>, BlockSize, p.lags[1] - b0 * BlockSize)>>
        rest == [k \in 1 .. Len(seg.blocks) |-> DeltaWrite(Mode(p.gains), seg.blocks[k], lag(k - 1), lag(k))]
    IN  which \o start \o (IF near THEN rest ELSE Tail(rest))

EncodeInternal(st, intf, p) ==
    LET adv == AdvanceLsf(st, intf, p.stage1)
    IN  EncodeLsf(st, intf, p) \o EncodePulses(p.pulses)
        \o IF p.stage1 = 1 THEN EncodeLtp(adv, p) \o EncodeLags(adv, p) ELSE EncodeGains(p)

AfterInternal(st, intf, p) ==
    LET adv == AdvanceLsf(st, intf, p.stage1)
        blocks == Blocksegs[p.seg].blocks
    IN  IF p.stage1 # 1 THEN adv
        ELSE [adv EXCEPT !.pred = [gain |-> p.gains[4], filt |-> LtpBefore(adv, p, 5).filt,
                                   blk |-> Last(blocks), idx |-> Last(p.lags)]]

\* A symbol its table does not have makes the range coder fail.
EncodeError(body) == \E i \in DOMAIN body : body[i].table # CountTable /\ body[i].sym \notin 0 .. body[i].size - 1

EncodeSmplFrame(frame) ==
    LET next(e, intf) ==
          [st |-> AfterInternal(e.st, intf, frame[intf + 1]),
           body |-> e.body \o EncodeInternal(e.st, intf, frame[intf + 1])]
    IN  FoldLeft(next, [st |-> FreshState, body |-> <<>>], <<0, 1, 2>>).body

-----------------------------------------------------------------------------
(* The decoder.  d is what is left of the body, whether every symbol so    *)
(* far was read with its own table, and the symbols of the last read.      *)

Read(d, tables) ==
    LET n == Len(tables)
        same == Len(d.in) >= n /\ \A i \in 1 .. n : d.in[i].table = tables[i]
    IN  IF same THEN [in |-> SubSeq(d.in, n + 1, Len(d.in)), ok |-> d.ok, syms |-> [i \in 1 .. n |-> d.in[i].sym]]
        ELSE [in |-> <<>>, ok |-> FALSE, syms |-> [i \in 1 .. n |-> 0]]

DecodeLsf(d, st, intf, coeffs) ==
    LET sel == Read(d, <<<<"sel", LsfSel(st, intf)>>>>)
        stage1 == sel.syms[1]
        grid == Read(sel, <<<<"grid", LsfMatch(st, intf, stage1), stage1>>>>)
        rest == Read(grid, [k \in 1 .. coeffs |-> <<"stage2", stage1, grid.syms[1], k>>] \o <<<<"extra">>>>)
    IN  [d |-> rest, stage1 |-> stage1, grid |-> grid.syms[1], stage2 |-> Front(rest.syms), extra |-> Last(rest.syms)]

\* The count whose interval a value falls into, and that interval.
CountOf(val) == CHOOSE k \in 0 .. 4 * Granularity :
                  val < TriT(k) /\ \A j \in 0 .. k - 1 : val >= TriT(j)

DecodeSplit(d, count) ==
    LET r == SplitRange(count)
        s == Read(d, <<SplitRangeTable(count)>>)
    IN  IF r.from >= r.to THEN [d |-> d, first |-> r.from]
        ELSE [d |-> s, first |-> s.syms[1] + r.from]

DecodeHalves(d, first, total) ==
    LET one == IF first = 0 THEN [d |-> d, first |-> 0] ELSE DecodeSplit(d, first)
        two == IF first = total THEN [d |-> one.d, first |-> 0] ELSE DecodeSplit(one.d, total - first)
    IN  [d |-> two.d, counts |-> <<one.first, first - one.first, two.first, total - first - two.first>>]

DecodeSplits(d, total) ==
    LET half == FirstHalf(total)
        s == Read(d, <<FirstHalfTable(total)>>)
    IN  IF half.from >= half.to THEN DecodeHalves(d, half.from, total)
        ELSE DecodeHalves(s, half.from + s.syms[1], total)

DecodeCounts(d) ==
    LET c == Read(d, <<CountTable>>)
        known == c.ok /\ c.syms[1][1] < TriT(4 * Granularity)
        total == IF known THEN CountOf(c.syms[1][1]) ELSE 0
    IN  IF total = 0 THEN [d |-> c, counts |-> <<0, 0, 0, 0>>] ELSE DecodeSplits(c, total)

\* The magnitudes of a subframe: at most `left` more pulses, the last one at `at`.
RECURSIVE DecodeRuns(_, _, _, _, _)
DecodeRuns(d, left, room, at, mags) ==
    IF left <= 0 \/ room < 0 THEN [d |-> d, mags |-> mags]
    ELSE LET r == Read(d, <<RunTable(left, room)>>)
             m == r.syms[1]
             new == m > 0 \/ mags = <<>>
         IN  DecodeRuns(r, left - 1, room - m, at + m,
                        IF new THEN Append(mags, [at |-> at + m, mag |-> 1])
                        ELSE Append(Front(mags), [Last(mags) EXCEPT !.mag = @ + 1]))

RECURSIVE DecodeSigns(_, _)
DecodeSigns(d, left) ==
    IF left <= 0 THEN [d |-> d, signs |-> <<>>]
    ELSE LET n == Least(left, SignBatch)
             r == Read(d, <<<<"raw", n>>>>)
             rest == DecodeSigns(r, left - n)
             bit(q) == (r.syms[1] \div 2^(n - q)) % 2
         IN  [d |-> rest.d, signs |-> [q \in 1 .. n |-> 2 * bit(q) - 1] \o rest.signs]

DecodeMagnitudes(c) ==
    LET next(m, sf) == LET r == DecodeRuns(m.d, c.counts[sf], Positions, 1, <<>>)
                       IN  [d |-> r.d, mags |-> Append(m.mags, r.mags)]
    IN  FoldLeft(next, [d |-> c.d, mags |-> <<>>], <<1, 2, 3, 4>>)

\* The pulse at a position: the last run that ends there, with the sign of its own.
PulseAt(mags, signs, sf, n) ==
    LET at == {j \in DOMAIN mags[sf] : mags[sf][j].at = n}
        before == Len(FlattenSeq(SubSeq(mags, 1, sf - 1)))
    IN  IF at = {} THEN 0 ELSE mags[sf][Max(at)].mag * signs[before + Max(at)]

WithSigns(mags, counts, s) ==
    [d |-> s.d, counts |-> counts,
     pulses |-> [sf \in Subframes |-> [n \in 1 .. Positions |-> PulseAt(mags, s.signs, sf, n)]]]

DecodePulses(d) ==
    LET c == DecodeCounts(d)
        m == DecodeMagnitudes(c)
    IN  WithSigns(m.mags, c.counts, DecodeSigns(m.d, Len(FlattenSeq(m.mags))))

DecodeGains(d, counts) ==
    LET g == Read(d, <<<<"main">>, <<"delta">>>>)
        pulsed == SelectSeq(<<1, 2, 3, 4>>, LAMBDA sf : counts[sf] > 0)
        n == Read(g, [i \in DOMAIN pulsed |-> NrgTable(g.syms[1], g.syms[2], pulsed[i], counts[pulsed[i]])])
    IN  [d |-> n, main |-> g.syms[1], delta |-> g.syms[2], nrg |-> n.syms]

RECURSIVE DecodeLtp(_, _, _, _)
DecodeLtp(d, pred, counts, sf) ==
    IF sf > 4 THEN [d |-> d, pred |-> pred, gains |-> <<>>, filts |-> <<>>]
    ELSE LET g == Read(d, <<<<"gain", pred.gain>>>>)
             p1 == [pred EXCEPT !.gain = g.syms[1]]
             f == Read(g, <<FilterTable(p1)>>)
             rest == IF counts[sf] = 0 THEN DecodeLtp(g, p1, counts, sf + 1)
                     ELSE DecodeLtp(f, [p1 EXCEPT !.filt = f.syms[1]], counts, sf + 1)
         IN  [rest EXCEPT !.gains = g.syms \o @, !.filts = (IF counts[sf] = 0 THEN <<>> ELSE f.syms) \o @]

\* The fractional lags of the segments from the k-th on.
RECURSIVE DecodeDeltas(_, _, _, _, _)
DecodeDeltas(d, seg, mode, k, prevIdx) ==
    IF k > Len(seg.blocks) THEN [d |-> d, lags |-> <<>>]
    ELSE LET nl == seg.blocks[k] * BlockSize - prevIdx
             r == Read(d, <<<<"delta", mode, nl + 2 * BlockSize - 1>>>>)
             lag == r.syms[1] + prevIdx + nl
             rest == DecodeDeltas(r, seg, mode, k + 1, lag)
         IN  [rest EXCEPT !.lags = <<lag>> \o @]

Spread(seg, lags) == FlattenSeq([k \in DOMAIN seg.seglens |-> [i \in 1 .. seg.seglens[k] |-> lags[k]]])

DecodeSegment(d, prev) ==
    LET b == Read(d, <<<<"block", prev>>>>)
        s == IF prev < 0 THEN Read(d, <<<<"seg">>>>) ELSE Read(b, <<<<"seg", b.syms[1]>>>>)
        number == s.syms[1] + (IF prev < 0 \/ ~b.ok THEN 1 ELSE Min(SegsFrom(b.syms[1])))
    IN  [d |-> s, seg |-> Blocksegs[IF number \in DOMAIN Blocksegs THEN number ELSE 1]]

DecodeLags(d, seg, mode, pred) ==
    LET fine == Read(d, <<<<"fine">>>>)
        first == seg.blocks[1] * BlockSize + fine.syms[1]
        rest == DecodeDeltas(fine, seg, mode, 2, first)
    IN  IF Near(pred.blk, seg.blocks[1]) THEN DecodeDeltas(d, seg, mode, 1, pred.idx)
        ELSE [rest EXCEPT !.lags = <<first>> \o @]

WithLags(ltp, seg, lags) ==
    [d |-> lags.d, gains |-> ltp.gains, filts |-> ltp.filts, lags |-> Spread(seg, lags.lags),
     pred |-> [ltp.pred EXCEPT !.blk = Last(seg.blocks), !.idx = Last(lags.lags)]]

DecodePitch(d, st, counts) ==
    LET ltp == DecodeLtp(d, st.pred, counts, 1)
        s == DecodeSegment(ltp.d, st.pred.blk)
    IN  WithLags(ltp, s.seg, DecodeLags(s.d, s.seg, Mode(ltp.gains), st.pred))

\* What follows the LSF symbols l and the pulses p of an internal frame.
DecodeTail(f, l, adv, p) ==
    LET v == DecodePitch(p.d, adv, p.counts)
        g == DecodeGains(p.d, p.counts)
        common == [stage1 |-> l.stage1, grid |-> l.grid, stage2 |-> l.stage2, extra |-> l.extra, pulses |-> p.pulses]
    IN  IF l.stage1 = 1
        THEN [d |-> v.d, st |-> [adv EXCEPT !.pred = v.pred],
              out |-> Append(f.out, <<common, v.gains, v.filts, v.lags>>)]
        ELSE [d |-> g.d, st |-> adv, out |-> Append(f.out, <<common, g.main, g.delta, g.nrg>>)]

\* One internal frame: decodeOne of decodeActiveFrame, after the ones in f.
DecodeInternal(f, intf, coeffs) ==
    LET l == DecodeLsf(f.d, f.st, intf, coeffs)
    IN  DecodeTail(f, l, AdvanceLsf(f.st, intf, l.stage1), DecodePulses(l.d))

\* The three internal frames of a body, from the predictors the last one left.
DecodeActiveFrame(body, st, coeffs) ==
    FoldLeft(LAMBDA f, intf : DecodeInternal(f, intf, coeffs),
             [d |-> [in |-> body, ok |-> TRUE, syms |-> <<>>], st |-> st, out |-> <<>>], <<0, 1, 2>>)

\* What the decoder should get out of the parameters of an internal frame.
Meaning(p) ==
    LET pulsed == SelectSeq(<<1, 2, 3, 4>>, LAMBDA sf : Count(p.pulses[sf]) > 0)
        common == [stage1 |-> p.stage1, grid |-> p.grid, stage2 |-> p.stage2, extra |-> p.extra, pulses |-> p.pulses]
    IN  IF p.stage1 = 1
        THEN <<common, p.gains, [i \in DOMAIN pulsed |-> p.filts[pulsed[i]]], Spread(Blocksegs[p.seg], p.lags)>>
        ELSE <<common, p.main, p.delta, [i \in DOMAIN pulsed |-> p.nrg[pulsed[i]]]>>

-----------------------------------------------------------------------------
NoResult == [frame |-> <<>>, err |-> FALSE, decoded |-> <<>>, insync |-> TRUE]

SmplInit == packetNo = 0 /\ lstate = FreshState /\ result = NoResult

Decoded(frame, f) ==
    /\ result' = [frame |-> frame, err |-> FALSE, decoded |-> f.out, insync |-> f.d.ok /\ f.d.in = <<>>]
    /\ lstate' = f.st

\* A frame is encoded and its packet arrives; one the encoder refuses is not sent.
Deliver ==
    /\ result = NoResult
    /\ packetNo < Len(Frames)
    /\ packetNo' = packetNo + 1
    /\ \E frame \in Frames[packetNo'] :
         LET body == EncodeSmplFrame(frame)
         IN  IF EncodeError(body)
             THEN result' = [NoResult EXCEPT !.frame = frame, !.err = TRUE] /\ UNCHANGED lstate
             ELSE Decoded(frame, DecodeActiveFrame(body, lstate, Len(frame[1].stage2)))

\* The packet is lost.
Lose ==
    /\ result = NoResult
    /\ packetNo < Len(Frames)
    /\ packetNo' = packetNo + 1
    /\ UNCHANGED <<lstate, result>>

\* What was decoded goes on to be synthesised.
Synthesize == result # NoResult /\ result' = NoResult /\ UNCHANGED <<packetNo, lstate>>

SmplNext == Deliver \/ Lose \/ Synthesize

-----------------------------------------------------------------------------
\* Every frame can be encoded: the windows into the tables hold its symbols.  The
\* decoder reads each of them with the table it was written with and gets the
\* frame's parameters back, although its predictors live on from the packets
\* before, lost or not, and the encoder's start with the frame.
DecoderInStep ==
    result.frame # <<>> =>
        /\ ~result.err /\ result.insync
        /\ result.decoded = [i \in 1 .. 3 |-> Meaning(result.frame[i])]
===============================================================================
