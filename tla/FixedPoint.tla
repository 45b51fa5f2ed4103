----------------------------- MODULE FixedPoint -----------------------------
(***************************************************************************)
(* A fixed-point number, sc_fxnum: a representation of arbitrary width      *)
(* (scfx_rep) that is quantized and checked for overflow after every        *)
(* operation, and whose bits can be set and cleared one by one.             *)
(*                                                                          *)
(* The mantissa is a natural number stored in size words of WordBits bits.  *)
(* What depends on the words is kept: the array grows by whole words, at    *)
(* its upper or its lower end, a carry stops at its end, and so do the two's*)
(* complement and the indices.  Values are compared in units of 2^-Scale.   *)
(***************************************************************************)
EXTENDS Integers, FiniteSets, FiniteSetsExt

CONSTANTS
    WordBits,   \* bits_in_word
    Formats,    \* scfx_params: wl, iwl, enc, q_mode, o_mode and n_bits
    Sources,    \* mantissa, size and m_wp of the values assigned
    Shifts,     \* the distances numbers are shifted by
    MaxSize,    \* bound on shifting: the words of the array and its m_wp
    Scale       \* bound: no value has a bit below 2^-Scale

(* What is assumed of the constants; the model-checking modules assume it.  *)
FixedPointAssumption ==
    /\ {WordBits, Scale} \subseteq Nat \ {0}
    /\ Shifts \subseteq Int
    /\ \A f \in Formats :
        /\ f.wl \in Nat \ {0} /\ f.iwl \in Int /\ f.n_bits \in 0..f.wl
        /\ f.iwl - f.wl + Scale > 0
        /\ f.enc = "US" => f.o_mode # "WRAP_SM"     \* scfx_params refuses it

VARIABLES
    rep,        \* the scfx_rep: mant, size, wp, sign, msw and lsw
    format,     \* m_params
    q_flag, o_flag,
    last        \* history: the operation, its argument and the value it is applied to

vars == <<rep, format, q_flag, o_flag, last>>

Bits(r) == WordBits * r.size
Bit(n, pos) == (n \div 2^pos) % 2
Word(r, wi) == (r.mant \div 2^(WordBits * wi)) % 2^WordBits

(* Where the bit of weight 2^n lies (calc_indices); floor division.         *)
Position(r, n) == n + WordBits * r.wp
WordOf(pos) == pos \div WordBits

IsNeg(r) == r.sign = -1
IsZero(r) == r.mant = 0

TypeOK ==
    /\ rep.size \in Nat \ {0} /\ rep.wp \in Int
    /\ rep.mant \in 0..2^Bits(rep) - 1
    /\ rep.sign \in {-1, 1}
    /\ format \in Formats
    /\ q_flag \in BOOLEAN /\ o_flag \in BOOLEAN

-----------------------------------------------------------------------------
(* find_sw: the highest and the lowest word that is not zero.               *)
NonZeroWords(r) == {i \in 0..r.size - 1 : Word(r, i) # 0}
FindWords(r) ==
    LET words == IF NonZeroWords(r) = {} THEN {0} ELSE NonZeroWords(r)
    IN  [r EXCEPT !.msw = Max(words), !.lsw = Min(words)]

(* resize_to(size, 1): words at the upper end; resize_to(size, -1): at the  *)
(* lower end, where the indices of the words move.                          *)
GrowUp(r, pos) == IF WordOf(pos) >= r.size THEN [r EXCEPT !.size = WordOf(pos) + 1] ELSE r
GrowDown(r, pos) ==
    IF pos >= 0 THEN r
    ELSE LET n == -WordOf(pos)
         IN  [r EXCEPT !.mant = @ * 2^(WordBits * n), !.size = @ + n, !.wp = @ + n,
                       !.msw = @ + n, !.lsw = @ + n]

(* q_incr: the carry out of the word of pos runs through the words above it; *)
(* the array grows only when there is none.                                 *)
CarryOut(r, pos) == Word(r, WordOf(pos)) + 2^(pos % WordBits) >= 2^WordBits
Increment(r, pos) ==
    LET size == IF CarryOut(r, pos) /\ WordOf(pos) + 1 = r.size THEN r.size + 1 ELSE r.size
    IN  [r EXCEPT !.size = size, !.mant = (@ + 2^pos) % 2^(WordBits * size)]

(* q_bit, q_zero and q_odd: the highest bit that is cut off, whether the    *)
(* others are zero, and the lowest bit that is kept.                        *)
HalfBit(r, pos) == pos > 0 /\ Bit(r.mant, pos - 1) = 1
RestZero(r, pos) == pos = 0 \/ r.mant % 2^(pos - 1) = 0
Odd(r, pos) == Bit(r.mant, pos) = 1

RoundsUpTie(r, mode, half, zero, odd) ==
    \/ mode = "TRN" /\ IsNeg(r)
    \/ mode = "RND" /\ half
    \/ mode = "RND_INF" /\ half
    \/ mode = "RND_CONV" /\ half /\ (~zero \/ odd)
    \/ mode = "RND_ZERO" /\ half /\ ~zero
    \/ mode = "RND_MIN_INF" /\ half /\ (~zero \/ IsNeg(r))
RoundsUp(r, mode, half, zero, odd) ==
    \/ mode = "TRN" /\ IsNeg(r)
    \/ mode = "RND" /\ half /\ (~zero \/ ~IsNeg(r))
    \/ mode = "RND_INF" /\ half
    \/ mode = "RND_CONV" /\ half /\ (~zero \/ odd)
    \/ mode = "RND_ZERO" /\ half /\ ~zero
    \/ mode = "RND_MIN_INF" /\ half /\ (~zero \/ IsNeg(r))

(* quantization; the result and q_flag.                                     *)
Quantize(r, f) ==
    LET pos == Position(r, f.iwl - f.wl)
        s == GrowUp(r, pos)
        half == HalfBit(s, pos)
        zero == RestZero(s, pos)
        up == IF RoundsUp(s, f.q_mode, half, zero, Odd(s, pos)) THEN Increment(s, pos) ELSE s
    IN  IF pos < 0 THEN [rep |-> r, flag |-> FALSE]
        ELSE IF half \/ ~zero
        THEN [rep |-> FindWords([up EXCEPT !.mant = @ - (@ % 2^pos)]), flag |-> TRUE]
        ELSE [rep |-> s, flag |-> FALSE]

-----------------------------------------------------------------------------
(* toggle_tc: between sign and magnitude and two's complement, in the words *)
(* of the array.                                                            *)
ToggleOnes(r) == IF IsNeg(r) THEN [r EXCEPT !.mant = (2^Bits(r) - 1) - @] ELSE r
Toggle(r) == IF IsNeg(r) THEN [r EXCEPT !.mant = (2^Bits(r) - @) % 2^Bits(r)] ELSE r

(* o_extend: the bit at pos is the sign.                                    *)
Extend(r, pos, enc) ==
    IF enc = "US" \/ Bit(r.mant, pos) = 0
    THEN [r EXCEPT !.mant = @ % 2^(pos + 1), !.sign = 1]
    ELSE [r EXCEPT !.mant = (@ % 2^(pos + 1)) + (2^Bits(r) - 2^(pos + 1)), !.sign = -1]

SetLow(r, pos, enc) ==
    IF enc = "TC" THEN [r EXCEPT !.mant = 2^pos, !.sign = -1]
    ELSE [r EXCEPT !.mant = 0, !.sign = 1]

(* o_set_high: the bits from pos2 to below pos, and that at pos.            *)
SetHigh(r, pos, pos2, enc, sign) ==
    IF enc = "TC" THEN [r EXCEPT !.mant = 2^pos - 2^pos2, !.sign = sign]
    ELSE [r EXCEPT !.mant = 2^(pos + 1) - 2^pos2, !.sign = 1]

(* o_set: the bits above pos3 are saturated, in two's complement.           *)
SetBits(r, pos, pos3, enc, under) ==
    LET low == r.mant % 2^(pos3 + 1)
        high == IF under THEN 0 ELSE 2^Bits(r) - 2^(pos3 + 1)
        all == low + high
    IN  IF enc = "US" THEN [r EXCEPT !.mant = all]
        ELSE [r EXCEPT !.mant = all + ((IF under THEN 1 ELSE 0) - Bit(all, pos)) * 2^pos]

(* o_invert: the bits from pos on.                                          *)
Invert(r, pos) ==
    [r EXCEPT !.mant = (2^Bits(r) - 2^pos) - (@ - (@ % 2^pos)) + (@ % 2^pos)]

WrapSignMagnitude(r, f, pos, pos2, under) ==
    LET wide == IF f.n_bits = 0 THEN GrowUp(r, pos + 1) ELSE r
        s == Toggle(wide)
        turn == CASE f.n_bits = 0 -> Bit(s.mant, pos + 1) # Bit(s.mant, pos)
                  [] f.n_bits = 1 -> (IsNeg(s) # (Bit(s.mant, pos) = 1))
                  [] OTHER -> (IsNeg(s) = (Bit(s.mant, pos + 1 - f.n_bits) = 1))
        t == IF turn THEN Invert(s, pos2) ELSE s
        u == IF f.n_bits > 1 THEN SetBits(t, pos, pos - f.n_bits, "TC", under) ELSE t
    IN  Toggle(Extend(u, pos, "TC"))

Wrap(r, f, pos, under) ==
    LET s == Toggle(r)
        t == IF f.n_bits = 0 THEN s ELSE SetBits(s, pos, pos - f.n_bits, f.enc, under)
    IN  Toggle(Extend(t, pos, f.enc))

Saturate(r, f, pos, pos2, under) ==
    IF under THEN SetLow(r, pos, f.enc) ELSE SetHigh(r, pos, pos2, f.enc, 1)

Overflowed(r, f, pos, pos2, under) ==
    CASE f.o_mode = "SAT" -> Saturate(r, f, pos, pos2, under)
      [] f.o_mode = "SAT_SYM" ->
            IF under /\ f.enc = "TC" THEN SetHigh(r, pos, pos2, "TC", -1)
            ELSE Saturate(r, f, pos, pos2, under)
      [] f.o_mode = "SAT_ZERO" -> [r EXCEPT !.mant = 0, !.wp = 0, !.sign = 1]
      [] f.o_mode = "WRAP" ->
            IF f.n_bits < f.wl THEN Wrap(r, f, pos, under) ELSE Saturate(r, f, pos, pos2, under)
      [] f.o_mode = "WRAP_SM" ->
            IF f.n_bits \in {0, 1} \cup 0..f.wl - 1 THEN WrapSignMagnitude(r, f, pos, pos2, under)
            ELSE Saturate(r, f, pos, pos2, under)

(* Whether the value is below or above what the format holds.               *)
Under(r, f, pos) ==
    /\ IsNeg(r)
    /\ IF f.enc = "US" THEN ~IsZero(r)
       ELSE IF f.o_mode = "SAT_SYM" THEN r.mant >= 2^pos ELSE r.mant > 2^pos
Over(r, f, pos) == ~IsNeg(r) /\ r.mant >= (IF f.enc = "TC" THEN 2^pos ELSE 2^(pos + 1))

(* overflow; the result and o_flag.                                         *)
Overflow(r, f) ==
    LET s == LET first == Position(r, f.iwl - 1)
             IN  GrowDown(GrowUp(r, first), first)
        under == Under(s, f, Position(s, f.iwl - 1))
        over == Over(s, f, Position(s, f.iwl - 1))
        t == GrowDown(s, Position(s, f.iwl - f.wl))
    IN  IF under \/ over
        THEN [rep |-> FindWords(Overflowed(t, f, Position(t, f.iwl - 1),
                                           Position(t, f.iwl - f.wl), under)),
              flag |-> TRUE]
        ELSE [rep |-> s, flag |-> FALSE]

(* scfx_rep::cast.                                                          *)
Positive(r) == IF IsZero(r) THEN [r EXCEPT !.sign = 1] ELSE r
Cast(r, f) ==
    LET q == Quantize(r, f)
        o == Overflow(q.rep, f)
    IN  IF IsZero(r) THEN [rep |-> Positive(r), q |-> FALSE, o |-> FALSE]
        ELSE [rep |-> Positive(o.rep), q |-> q.flag, o |-> o.flag]

-----------------------------------------------------------------------------
(* lshift and rshift, by words and by bits; a word is added when the bits   *)
(* would leave the array.                                                   *)
Msb(n) == Max({0} \cup {i \in 0..WordBits - 1 : Bit(n, i) = 1})
Lsb(n) == Min({i \in 0..WordBits - 1 : Bit(n, i) = 1} \cup {WordBits})

ShiftLeft(r, n) ==
    LET bits == n % WordBits
        full == r.msw = r.size - 1 /\ Msb(Word(r, r.msw)) >= WordBits - bits
        s == IF full THEN [r EXCEPT !.size = @ + 1] ELSE r
    IN  FindWords([s EXCEPT !.wp = @ - (n \div WordBits), !.mant = @ * 2^bits])

ShiftRight(r, n) ==
    LET bits == n % WordBits
        s == IF r.lsw = 0 /\ Lsb(Word(r, r.lsw)) < bits THEN GrowDown(r, -1) ELSE r
    IN  FindWords([s EXCEPT !.wp = @ + (n \div WordBits), !.mant = @ \div 2^bits])

Shifted(r, n) ==
    CASE n > 0 -> ShiftLeft(r, n) [] n < 0 -> ShiftRight(r, -n) [] OTHER -> r

(* set and clear: one bit, in two's complement; that of the sign is         *)
(* extended.                                                                *)
WithBit(r, f, pos, b) ==
    LET s == Toggle(r)
        t == [s EXCEPT !.mant = @ + (b - Bit(@, pos)) * 2^pos]
    IN  FindWords(Toggle(IF pos = Position(r, f.iwl - 1) THEN Extend(t, pos, f.enc) ELSE t))

SetBit(r, f, i) ==
    LET pos == Position(r, i)
        s == GrowDown(GrowUp(r, pos), pos)
    IN  IF WordOf(pos) >= r.size /\ IsNeg(r) THEN r
        ELSE WithBit(s, f, Position(s, i), 1)

ClearBit(r, f, i) ==
    LET pos == Position(r, i) IN
    IF pos < 0 \/ (WordOf(pos) >= r.size /\ ~IsNeg(r)) THEN r
    ELSE WithBit(GrowUp(r, pos), f, pos, 0)

(* get_bit: of the number in two's complement.                              *)
GetBit(r, i) ==
    LET pos == Position(r, i) IN
    IF WordOf(pos) >= r.size THEN IsNeg(r)
    ELSE pos >= 0 /\ Bit(Toggle(r).mant, pos) = 1

-----------------------------------------------------------------------------
Value(r) == r.sign * r.mant * 2^(Scale - WordBits * r.wp)
Times(v, n) == IF n >= 0 THEN v * 2^n ELSE v \div 2^(-n)

(* The carry of a rounding leaves the array.                                *)
LosesCarry(r, f) ==
    LET pos == Position(r, f.iwl - f.wl)
        s == GrowUp(r, pos)
    IN  /\ pos >= 0
        /\ RoundsUp(s, f.q_mode, HalfBit(s, pos), RestZero(s, pos), Odd(s, pos))
        /\ HalfBit(s, pos) \/ ~RestZero(s, pos)
        /\ Increment(s, pos).mant < s.mant

Done(op, arg, value, lost) == last' = [op |-> op, arg |-> arg, value |-> value, lost |-> lost]

(* The representation of a value that is assigned, and its value after that.*)
Operand(source, sign) ==
    FindWords([mant |-> source.mant, size |-> source.size, wp |-> source.wp,
               sign |-> sign, msw |-> 0, lsw |-> 0])

(* Construction from a value; assignment of a value, which replaces the     *)
(* whole representation, leads to the same states.                          *)
Init ==
    /\ format \in Formats
    /\ \E source \in Sources, sign \in {-1, 1} :
        LET r == Operand(source, sign)
            c == Cast(r, format)
        IN  /\ IsZero(r) => sign = 1
            /\ rep = c.rep /\ q_flag = c.q /\ o_flag = c.o
            /\ last = [op |-> "cast", arg |-> 0, value |-> Value(r), lost |-> LosesCarry(r, format)]

(* <<= and >>=.                                                             *)
Shift(n) ==
    LET r == Shifted(rep, n)
        c == Cast(r, format)
    IN
    /\ rep.size <= MaxSize /\ r.wp \in -MaxSize..MaxSize
    /\ rep' = c.rep /\ q_flag' = c.q /\ o_flag' = c.o
    /\ Done("cast", n, Times(Value(rep), n), LosesCarry(r, format))
    /\ UNCHANGED format

Indices == format.iwl - format.wl..format.iwl - 1

(* x[i] = 1 and x[i] = 0; there is no cast.                                 *)
Set(i) ==
    /\ rep' = SetBit(rep, format, i)
    /\ Done("set", i, Value(rep), FALSE)
    /\ UNCHANGED <<format, q_flag, o_flag>>
Clear(i) ==
    /\ rep' = ClearBit(rep, format, i)
    /\ Done("clear", i, Value(rep), FALSE)
    /\ UNCHANGED <<format, q_flag, o_flag>>

Next ==
    \/ \E n \in Shifts : Shift(n)
    \/ \E i \in Indices : Set(i) \/ Clear(i)

Spec == Init /\ [][Next]_vars

-----------------------------------------------------------------------------
(* The unit of the format, and its range in that unit.                      *)
Unit == 2^(Scale + format.iwl - format.wl)
Greatest == IF format.enc = "TC" THEN 2^(format.wl - 1) - 1 ELSE 2^format.wl - 1
Least == IF format.enc = "TC" THEN -(2^(format.wl - 1)) ELSE 0
LeastKept == IF format.o_mode = "SAT_SYM" /\ format.enc = "TC" THEN -Greatest ELSE Least

Magnitude(n) == IF n < 0 THEN -n ELSE n
Signed(n, v) == IF v < 0 THEN -n ELSE n

(* Rounding, as the comments on the modes name it: v in units, to plus      *)
(* infinity, to minus infinity, away from zero, to zero, or to even.        *)
Up(v) == (2 * v + Unit) \div (2 * Unit)
Down(v) == -Up(-v)
Rounded(v) ==
    CASE format.q_mode = "TRN" -> v \div Unit
      [] format.q_mode = "TRN_ZERO" -> Signed(Magnitude(v) \div Unit, v)
      [] format.q_mode = "RND" -> Up(v)
      [] format.q_mode = "RND_MIN_INF" -> Down(v)
      [] format.q_mode = "RND_INF" -> Signed(Up(Magnitude(v)), v)
      [] format.q_mode = "RND_ZERO" -> Signed(Down(Magnitude(v)), v)
      [] format.q_mode = "RND_CONV" -> IF Up(v) % 2 = 0 THEN Up(v) ELSE Down(v)

(* Overflow: saturation, to zero, or wrap-around of all bits; with n_bits   *)
(* the highest n_bits bits are saturated and the others kept.  Sign         *)
(* magnitude wrap-around folds the numbers back and forth over the range.   *)
Modulo == 2^format.wl
Folded(n) ==
    LET m == ((n + (Modulo \div 2)) % (2 * Modulo)) - (Modulo \div 2)
    IN  IF m <= Greatest THEN m ELSE Modulo - 1 - m
Limited(n) ==
    LET low == 2^(format.wl - format.n_bits)
        nearest == IF n > Greatest THEN Greatest ELSE LeastKept
        same == (n \div low) % 2 = (nearest \div low) % 2
        kept == IF format.o_mode = "WRAP_SM" /\ ~same THEN (low - 1) - (n % low) ELSE n % low
    IN  CASE format.o_mode \in {"SAT", "SAT_SYM"} -> nearest
          [] format.o_mode = "SAT_ZERO" -> 0
          [] format.n_bits > 0 -> (nearest - (nearest % low)) + kept
          [] format.o_mode = "WRAP" -> ((n - Least) % Modulo) + Least
          [] format.o_mode = "WRAP_SM" -> Folded(n)

Fits(n) == LeastKept <= n /\ n <= Greatest
Result == Value(rep) \div Unit

(* The number always is one of its format: a multiple of the unit in the    *)
(* range, after every operation and every sequence of them.                 *)
InFormat == Value(rep) % Unit = 0 /\ Least <= Result /\ Result <= Greatest

(* Assigning and shifting round exactly as the mode says and then saturate  *)
(* or wrap exactly as the mode says, wherever the words of the array lie;   *)
(* except when the carry of the rounding runs out of the array (LosesCarry).*)
CastRight ==
    last.op = "cast" /\ ~last.lost =>
        LET n == Rounded(last.value) IN Result = IF Fits(n) THEN n ELSE Limited(n)

(* The flags tell whether the value was rounded and whether it did not fit. *)
FlagsRight ==
    last.op = "cast" /\ ~last.lost =>
        /\ q_flag = (last.value % Unit # 0)
        /\ o_flag = ~Fits(Rounded(last.value))

(* Setting or clearing a bit changes this bit of the number in two's        *)
(* complement (the highest one being its sign) and no other.                *)
BitOf(n, i) == (n \div 2^(i - format.iwl + format.wl)) % 2
BitsRight ==
    last.op \in {"set", "clear"} =>
        LET n == last.value \div Unit IN
        \A i \in Indices :
            BitOf(Result, i) = IF i # last.arg THEN BitOf(n, i)
                               ELSE IF last.op = "set" THEN 1 ELSE 0

(* What get_bit reads are the bits of the value.                            *)
GetBitRight ==
    \A i \in Indices : GetBit(rep, i) = (BitOf(Result, i) = 1)

(* The indices of the highest and lowest word in use, which comparison,     *)
(* addition and the shifts rely on, are never stale.                        *)
WordsKnown ==
    ~IsZero(rep) => rep.msw = Max(NonZeroWords(rep)) /\ rep.lsw = Min(NonZeroWords(rep))

(* "rounding to plus infinity" and the other modes, without the exception.  *)
CastAlwaysRight ==
    last.op = "cast" =>
        LET n == Rounded(last.value) IN Result = IF Fits(n) THEN n ELSE Limited(n)
=============================================================================
