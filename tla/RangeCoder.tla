------------------------------ MODULE RangeCoder ------------------------------
(***************************************************************************)
(* The range coder of MLow frames at any width: RangeEncoder and           *)
(* RangeDecoder as functions of their state, and an encoder that is given  *)
(* one symbol after another.  A byte is a number below Base.  The bit      *)
(* counts behind Tell are left out.                                        *)
(***************************************************************************)
EXTENDS Integers, Sequences, SequencesExt

CONSTANTS
    SymBits,    \* ecSymBits: 8
    CodeBits,   \* ecCodeBits: 32
    WindowSize, \* ecWindowSize: 32
    UintBits,   \* ecUintBits: 8
    Storage,    \* bytes of the buffer: 513 in EncodeSmplFrame
    Symbols,    \* what may be encoded: records with a field "op"
    MaxSymbols  \* bound

ASSUME RangeCoderAssumption ==
    /\ {SymBits, CodeBits, WindowSize, UintBits, Storage, MaxSymbols} \subseteq Nat \ {0}
    /\ CodeBits > 2 * SymBits /\ WindowSize >= 2 * SymBits

VARIABLES
    coder,     \* the RangeEncoder
    written    \* the symbols it was given

Base == 2^SymBits
CodeTop == 2^(CodeBits - 1)
CodeBot == CodeTop \div Base
CodeExtra == ((CodeBits - 2) % SymBits) + 1
CodeShift == CodeBits - SymBits - 1

RECURSIVE ilog(_)
ilog(x) == IF x = 0 THEN 0 ELSE 1 + ilog(x \div 2)

-----------------------------------------------------------------------------
(* RangeEncoder: out grows from the front of the buffer, back from its end. *)

NewRangeEncoder ==
    [out |-> <<>>, back |-> <<>>, window |-> 0, used |-> 0,
     rng |-> CodeTop, val |-> 0, ext |-> 0, rem |-> -1, err |-> FALSE]

NoRoom(e) == Len(e.out) + Len(e.back) >= Storage
WriteByte(e, b) ==
    IF NoRoom(e) THEN [e EXCEPT !.err = TRUE] ELSE [e EXCEPT !.out = Append(@, b % Base)]
WriteByteAtEnd(e, b) ==
    IF NoRoom(e) THEN [e EXCEPT !.err = TRUE] ELSE [e EXCEPT !.back = Append(@, b % Base)]

\* Mutant: the symbols held back do not take the carry.
CarryOutLost(e, c) ==
    LET carry == c \div Base
        first == IF e.rem >= 0 THEN WriteByte(e, e.rem + carry) ELSE e
        flushed == FoldSeq(LAMBDA sym, x : WriteByte(x, sym), first, [k \in 1 .. e.ext |-> Base - 1])
    IN  IF c = Base - 1 THEN [e EXCEPT !.ext = @ + 1]
        ELSE [flushed EXCEPT !.ext = 0, !.rem = c % Base]

\* A symbol of all ones is held back until it is known whether a carry comes.
CarryOut(e, c) ==
    LET carry == c \div Base
        first == IF e.rem >= 0 THEN WriteByte(e, e.rem + carry) ELSE e
        held == [k \in 1 .. e.ext |-> (Base - 1 + carry) % Base]
        flushed == FoldSeq(LAMBDA sym, x : WriteByte(x, sym), first, held)
    IN  IF c = Base - 1 THEN [e EXCEPT !.ext = @ + 1]
        ELSE [flushed EXCEPT !.ext = 0, !.rem = c % Base]

RECURSIVE EncNormalize(_)
EncNormalize(e) ==
    IF e.rng > CodeBot THEN e
    ELSE EncNormalize([CarryOut(e, e.val \div 2^CodeShift) EXCEPT
                           !.val = (e.val * Base) % CodeTop, !.rng = e.rng * Base])

Encode(e, fl, fh, ft) ==
    LET r == e.rng \div ft
    IN  EncNormalize(
          IF fl > 0 THEN [e EXCEPT !.val = @ + e.rng - r * (ft - fl), !.rng = r * (fh - fl)]
          ELSE [e EXCEPT !.rng = @ - r * (ft - fh)])

EncodeBitLogp(e, bit, logp) ==
    LET s == e.rng \div 2^logp
    IN  EncNormalize(IF bit # 0 THEN [e EXCEPT !.val = @ + e.rng - s, !.rng = s]
                     ELSE [e EXCEPT !.rng = @ - s])

EncodeICDF(e, s, icdf, ftb) ==
    LET r == e.rng \div 2^ftb
    IN  EncNormalize(
          IF s > 0 THEN [e EXCEPT !.val = @ + e.rng - r * icdf[s], !.rng = r * (icdf[s] - icdf[s + 1])]
          ELSE [e EXCEPT !.rng = @ - r * icdf[1]])

\* A table that has no such symbol is refused.
EncodeCDF(e, s, cdf) ==
    IF s + 1 >= Len(cdf) \/ cdf[Len(cdf)] <= cdf[1] THEN [e EXCEPT !.err = TRUE]
    ELSE Encode(e, cdf[s + 1] - cdf[1], cdf[s + 2] - cdf[1], cdf[Len(cdf)] - cdf[1])

RECURSIVE SpillWindow(_)
SpillWindow(e) ==
    IF e.used < SymBits THEN e
    ELSE SpillWindow([WriteByteAtEnd(e, e.window % Base) EXCEPT
                          !.window = @ \div Base, !.used = @ - SymBits])

EncodeBits(e, fl, n) ==
    LET room == IF e.used + n > WindowSize THEN SpillWindow(e) ELSE e
    IN  [room EXCEPT !.window = @ + fl * 2^room.used, !.used = @ + n]

EncodeUint(e, fl, ft0) ==
    LET shift == ilog(ft0 - 1) - UintBits
        t == ((ft0 - 1) \div 2^shift) + 1
        high == fl \div 2^shift
    IN  IF shift > 0
        THEN EncodeBits(Encode(e, high, high + 1, t), fl % 2^shift, shift)
        ELSE Encode(e, fl, fl + 1, ft0)

\* Done: as few bits as tell the interval from its neighbours, then what is held
\* back, then the raw bits, the last of them into a byte of the gap.
RECURSIVE FlushEnd(_, _, _)
FlushEnd(e, end, l) ==
    IF l <= 0 THEN e
    ELSE FlushEnd(CarryOut(e, end \div 2^CodeShift), (end * Base) % CodeTop, l - SymBits)

RoundUp(x, size) == ((x + size - 1) \div size) * size

Done(e) ==
    LET l == CodeBits - ilog(e.rng)
        size == CodeTop \div 2^l
        fits == RoundUp(e.val, size) + size - 1 < e.val + e.rng
        end == IF fits THEN RoundUp(e.val, size) ELSE RoundUp(e.val, size \div 2)
        flushed == FlushEnd(e, end, IF fits THEN l ELSE l + 1)
        final == IF flushed.rem >= 0 \/ flushed.ext > 0 THEN CarryOut(flushed, 0) ELSE flushed
        spilled == SpillWindow(final)
    IN  IF ~spilled.err /\ spilled.used > 0 /\ NoRoom(spilled) THEN [spilled EXCEPT !.err = TRUE]
        ELSE spilled

Bytes(e) ==
    LET gap == Storage - Len(e.out) - Len(e.back)
        last == IF e.used > 0 THEN e.window ELSE 0
    IN  e.out \o [i \in 1 .. gap |-> IF i = gap THEN last ELSE 0] \o Reverse(e.back)

\* The body of a frame: EncodeSmplFrame keeps ConsumedLen bytes, which is all of
\* it as long as no raw bits were written.
Body(e) == SubSeq(Bytes(e), 1, Len(e.out) + Len(e.back))

-----------------------------------------------------------------------------
(* RangeDecoder.                                                           *)

ByteAt(d, i) == IF i \in DOMAIN d.buf THEN d.buf[i] ELSE 0

RECURSIVE DecNormalize(_)
DecNormalize(d) ==
    IF d.rng > CodeBot THEN d
    ELSE LET next == ByteAt(d, d.offs + 1)
             sym == ((d.rem * Base + next) \div 2^(SymBits - CodeExtra)) % Base
         IN  DecNormalize([d EXCEPT !.offs = @ + 1, !.rem = next, !.rng = @ * Base,
                                    !.val = (@ * Base + Base - 1 - sym) % CodeTop])

NewRangeDecoder(buf) ==
    LET first == IF buf = <<>> THEN 0 ELSE buf[1]
    IN  DecNormalize([buf |-> buf, offs |-> 1, endOffs |-> 0, window |-> 0, avail |-> 0,
                      rng |-> 2^CodeExtra, rem |-> first, ext |-> 0, sym |-> 0,
                      val |-> 2^CodeExtra - 1 - first \div 2^(SymBits - CodeExtra)])

\* Decode: where in [0, ft) the next symbol lies.
Target(d, ft) ==
    LET s == d.val \div (d.rng \div ft) IN ft - (IF s + 1 < ft THEN s + 1 ELSE ft)

Update(d, fl, fh, ft, sym) ==
    LET ext == d.rng \div ft
        s == ext * (ft - fh)
    IN  DecNormalize([d EXCEPT !.val = @ - s, !.sym = sym,
                               !.rng = IF fl > 0 THEN ext * (fh - fl) ELSE @ - s])

DecodeUniform(d, ft) == LET s == Target(d, ft) IN Update(d, s, s + 1, ft, s)

DecodeBitLogp(d, logp) ==
    LET s == d.rng \div 2^logp
    IN  DecNormalize(IF d.val < s THEN [d EXCEPT !.rng = s, !.sym = 1]
                     ELSE [d EXCEPT !.val = @ - s, !.rng = @ - s, !.sym = 0])

DecodeICDF(d, icdf, ftb) ==
    LET r == d.rng \div 2^ftb
        sym == CHOOSE k \in DOMAIN icdf :
                 /\ d.val >= r * icdf[k] \/ k = Len(icdf)
                 /\ \A j \in 1 .. k - 1 : d.val < r * icdf[j]
        t == IF sym = 1 THEN d.rng ELSE r * icdf[sym - 1]
    IN  DecNormalize([d EXCEPT !.val = @ - r * icdf[sym], !.rng = t - r * icdf[sym], !.sym = sym - 1])

DecodeCDF(d, cdf) ==
    LET ft == cdf[Len(cdf)] - cdf[1]
        target == cdf[1] + Target(d, ft)
        k == CHOOSE i \in 1 .. Len(cdf) - 1 :
               cdf[i + 1] > target /\ \A j \in 1 .. i - 1 : cdf[j + 1] <= target
    IN  Update(d, cdf[k] - cdf[1], cdf[k + 1] - cdf[1], ft, k - 1)

RECURSIVE FillWindow(_)
FillWindow(d) ==
    LET next == ByteAt(d, Len(d.buf) - d.endOffs)
        filled == [d EXCEPT !.endOffs = @ + 1, !.window = @ + next * 2^d.avail, !.avail = @ + SymBits]
    IN  IF filled.avail > WindowSize - SymBits THEN filled ELSE FillWindow(filled)

DecodeBits(d, n) ==
    LET full == IF d.avail < n THEN FillWindow(d) ELSE d
    IN  [full EXCEPT !.sym = full.window % 2^n, !.window = @ \div 2^n, !.avail = @ - n]

DecodeUint(d, ft0) ==
    LET shift == ilog(ft0 - 1) - UintBits
        high == DecodeUniform(d, ((ft0 - 1) \div 2^shift) + 1)
        low == DecodeBits(high, shift)
        v == high.sym * 2^shift + low.sym
    IN  IF shift <= 0 THEN DecodeUniform(d, ft0)
        ELSE [low EXCEPT !.sym = IF v <= ft0 - 1 THEN v ELSE ft0 - 1]

-----------------------------------------------------------------------------
(* An encoder that is given symbols until it is asked for the bytes.       *)

RangeInit == coder = NewRangeEncoder /\ written = <<>>

Put(w, next) ==
    /\ Len(written) < MaxSymbols
    /\ coder' = next
    /\ written' = Append(written, w)

WriteCDF == \E w \in Symbols : w.op = "cdf" /\ Put(w, EncodeCDF(coder, w.sym, w.cdf))
WriteICDF == \E w \in Symbols : w.op = "icdf" /\ Put(w, EncodeICDF(coder, w.sym, w.icdf, w.ftb))
WriteBitLogp == \E w \in Symbols : w.op = "bit" /\ Put(w, EncodeBitLogp(coder, w.sym, w.logp))
\* EncodeRawSymbol and Encode64FineSym.
WriteRawSymbol ==
    \E w \in Symbols : w.op = "raw" /\ Put(w, Encode(coder, w.sym, w.sym + 1, 2^w.bits))
WriteUint == \E w \in Symbols : w.op = "uint" /\ Put(w, EncodeUint(coder, w.sym, w.ft))
WriteBits == \E w \in Symbols : w.op = "bits" /\ Put(w, EncodeBits(coder, w.sym, w.bits))

RangeNext == WriteCDF \/ WriteICDF \/ WriteBitLogp \/ WriteRawSymbol \/ WriteUint \/ WriteBits

-----------------------------------------------------------------------------
ReadSymbol(d, w) ==
    CASE w.op = "cdf" -> DecodeCDF(d, w.cdf)
      [] w.op = "icdf" -> DecodeICDF(d, w.icdf, w.ftb)
      [] w.op = "bit" -> DecodeBitLogp(d, w.logp)
      [] w.op = "raw" -> DecodeUniform(d, 2^w.bits)
      [] w.op = "uint" -> DecodeUint(d, w.ft)
      [] w.op = "bits" -> DecodeBits(d, w.bits)

RECURSIVE ReadsBack(_, _)
ReadsBack(d, ws) ==
    IF ws = <<>> THEN TRUE
    ELSE LET next == ReadSymbol(d, Head(ws)) IN next.sym = Head(ws).sym /\ ReadsBack(next, Tail(ws))

RawBits == coder.back # <<>> \/ coder.used > 0

\* Whatever sequence of symbols is encoded, through carries that run over held
\* symbols and raw bits that meet the coded ones in one byte of a full buffer,
\* the decoder reads the same symbols from the bytes, unless Done reports an
\* error; and from the body EncodeSmplFrame cuts off when no raw bits were used.
DecoderReadsBack ==
    LET done == Done(coder)
    IN  ~done.err =>
          /\ ReadsBack(NewRangeDecoder(Bytes(done)), written)
          /\ ~RawBits => ReadsBack(NewRangeDecoder(Body(done)), written)
===============================================================================
