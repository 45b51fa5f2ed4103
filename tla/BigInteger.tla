----------------------------- MODULE BigInteger -----------------------------
(***************************************************************************)
(* Integers of arbitrary width, sc_signed and sc_unsigned: a sign and the   *)
(* digits of a magnitude.                                                   *)
(*                                                                          *)
(* The vector of digits is one natural number; its length follows from the  *)
(* number of bits, and the loops go over its digits.  What depends on the   *)
(* digits is kept: carries, products and quotients by half digits, the long *)
(* division by bytes, the shortcuts, what is cut off, and the conversions   *)
(* between sign and magnitude and two's complement.                         *)
(*                                                                          *)
(* An operator returns a temporary of its own width; a variable keeps its   *)
(* class and its width, and what is assigned to it is cut off.              *)
(***************************************************************************)
EXTENDS Integers, FiniteSets, FiniteSetsExt, Bitwise

CONSTANTS
    DigitBits,      \* BITS_PER_DIGIT
    HalfBits,       \* BITS_PER_HALF_DIGIT
    ByteBits,       \* BITS_PER_BYTE
    IntBits,        \* the width of int64 and uint64
    DefaultBits,    \* the width of CLASS_TYPE()
    Starts,         \* the numbers x starts with
    Formats,        \* class and nbits of the variables that are initialized
    Operands,       \* the other operands
    Later,          \* those of the second operator of an expression
    Shifts,         \* the distances numbers are shifted by
    Parts,          \* the ranges <<left, right>> that are selected
    MaxSteps        \* bound: the operators in a statement

(* What is assumed of the constants; the model-checking modules assume it.  *)
BigIntegerAssumption ==
    /\ {DigitBits, HalfBits, ByteBits, IntBits, DefaultBits, MaxSteps} \subseteq Nat \ {0}
    /\ DigitBits = 2 * HalfBits
    /\ DigitBits >= 3 * ByteBits        \* asserted by vec_div_large
    /\ HalfBits >= ByteBits             \* two bytes when not less than half a digit
    /\ Shifts \subseteq Nat
    /\ \A v \in Operands : v.cls = "int64" => v.mag < 2^(IntBits - 1)     \* -v is an int64

VARIABLES
    x,          \* a variable: cls, nb (nbits), sgn and mag (digit)
    t,          \* the temporary that the last operator returned
    last,       \* history: the last operation and its operands
    steps       \* operators of the statement so far

vars == <<x, t, last, steps>>

Radix == 2^DigitBits
Half == 2^HalfBits
Byte == 2^ByteBits
Word == 4 * Radix       \* sc_digit has two overflow bits

Digits(nb) == (nb - 1) \div DigitBits + 1
Digit(u, i) == (u \div Radix^i) % Radix
Low(d) == d % Half
High(d) == d \div Half

(* How many digits, or bytes, u has without leading zeros.                  *)
Length(u, radix) == LET len[n \in Nat] == IF n = 0 THEN 0 ELSE 1 + len[n \div radix] IN len[u]
Used(u) == Length(u, Radix)
Bytes(u) == Length(u, Byte)

Value(n) == n.sgn * n.mag
Builtin(v) == v.cls \in {"int64", "uint64"}

(* num_bits: a number of class sc_unsigned has one bit more than its length.*)
NumBits(cls, nb) == IF cls = "unsigned" THEN nb + 1 ELSE nb
LengthOf(n) == IF n.cls = "unsigned" THEN n.nb - 1 ELSE n.nb

-----------------------------------------------------------------------------
(* A loop over n digits: the lowest digit of what a step gives is stored,   *)
(* the rest is carried to the next step.                                    *)
Loop(step(_, _), n, first) ==
    LET at[i \in 0..n] ==
            IF i = 0 THEN [mag |-> 0, carry |-> first]
            ELSE LET p == at[i - 1]
                     s == step(i - 1, p.carry)
                 IN  [mag |-> p.mag + Radix^(i - 1) * (s % Radix), carry |-> s \div Radix]
    IN  at[n]

(* vec_add, vec_sub and vec_complement: n digits of the result.             *)
Add(u, v, n) == Loop(LAMBDA i, c : Digit(u, i) + Digit(v, i) + c, n, 0).mag
Subtract(u, v, n) == Loop(LAMBDA i, c : Digit(u, i) - Digit(v, i) + c, n, 0).mag
Complement(u, n) == Loop(LAMBDA i, c : Radix - 1 - Digit(u, i) + c, n, 1).mag

(* A step of vec_mul: a times b by half digits, added to the digit w and    *)
(* the carry c; every intermediate result is an sc_digit.                   *)
Product(a, b, w, c) ==
    LET prod_l == (w + Low(a) * Low(b) + Low(c)) % Word
        prod_h == (High(a) * Low(b) + Low(a) * High(b) + High(prod_l) + High(c)) % Word
        carry == (High(a) * High(b) + High(prod_h)) % Word
    IN  Radix * carry + Half * Low(prod_h) + Low(prod_l)

MulSmall(u, v) ==
    LET p == Loop(LAMBDA i, c : Product(v, Digit(u, i), 0, c), Used(u), 0)
    IN  p.mag + p.carry * Radix^Used(u)

Mul(u, v) ==
    LET rows[i \in 0..Used(u)] ==
            IF i = 0 THEN 0
            ELSE LET w == rows[i - 1]
                     row == Loop(LAMBDA j, c :
                                Product(Digit(u, i - 1), Digit(v, j), Digit(w, i - 1 + j), c),
                                Used(v), 0)
                 IN  (w % Radix^(i - 1)) + Radix^(i - 1) * (row.mag + row.carry * Radix^Used(v))
    IN  rows[Used(u)]

(* vec_div_small and vec_rem_small, for v below Half: from the highest      *)
(* digit on, two half digits at a time.                                     *)
DivSmall(u, v) ==
    LET n == Used(u)
        at[i \in 0..n] ==
            IF i = n THEN [q |-> 0, r |-> 0]
            ELSE LET p == at[i + 1]
                     a == p.r * Half + High(Digit(u, i))
                     b == (a % v) * Half + Low(Digit(u, i))
                 IN  [q |-> p.q + ((a \div v) * Half + b \div v) * Radix^i, r |-> b % v]
    IN  at[0]

OnceGuessed(guess, v, xk) == guess
Corrected(guess, v, xk) == IF v * guess > xk THEN guess - 1 ELSE guess

(* vec_div_large and vec_rem_large, for v of two bytes or more: each byte   *)
(* of the quotient is guessed from three bytes of what is left and two of   *)
(* v, and corrected once when the guess is too large.                       *)
DivLarge(u, v) ==
    LET ylen == Bytes(v)
        top == Bytes(u) - ylen
        y2 == v \div Byte^(ylen - 2)
        at[k \in 0..top + 1] ==
            IF k = top + 1 THEN [q |-> 0, x |-> u]
            ELSE LET p == at[k + 1]
                     xk == (p.x \div Byte^k) % Byte^(ylen + 1)
                     guess == Min({(xk \div Byte^(ylen - 2)) \div y2, Byte - 1})
                     qk == Corrected(guess, v, xk)
                 IN  [q |-> p.q + qk * Byte^k,
                      x |-> p.x + Byte^k * (((xk - v * qk) % Byte^(ylen + 1)) - xk)]
    IN  at[0]

(* vec_cmp: the lengths, then the highest digit that differs.               *)
Compare(u, v) ==
    LET differ == {i \in 0..Used(u) - 1 : Digit(u, i) # Digit(v, i)}
    IN  IF Used(u) # Used(v) THEN Used(u) - Used(v)
        ELSE IF differ = {} THEN 0
        ELSE Digit(u, Max(differ)) - Digit(v, Max(differ))

(* Which routine multiplies, divides or takes the remainder, u not less     *)
(* than v in a division.                                                    *)
MulDigits(u, v) ==
    CASE v = 1 -> u
      [] v # 1 /\ u = 1 -> v
      [] u \in 2..Half - 1 /\ v \in 2..Half - 1 -> u * v
      [] u \in 2..Half - 1 /\ v >= Half -> MulSmall(v, u)
      [] u >= Half /\ v \in 2..Half - 1 -> MulSmall(u, v)
      [] u >= Half /\ v >= Half -> IF Used(v) < Used(u) THEN Mul(u, v) ELSE Mul(v, u)

DivDigits(u, v) ==
    CASE v = 1 -> u
      [] v # 1 /\ Used(u) = 1 -> u \div v
      [] v \in 2..Half - 1 /\ Used(u) # 1 -> DivSmall(u, v).q
      [] v >= Half /\ Used(u) # 1 -> DivLarge(u, v).q

RemSmall(u, v) == DivSmall(u, v).r
RemLarge(u, v) == DivLarge(u, v).x
RemDigits(u, v) ==
    CASE Used(u) = 1 -> u % v
      [] Used(u) # 1 /\ v < Half -> RemSmall(u, v)
      [] Used(u) # 1 /\ v >= Half -> RemLarge(u, v)

-----------------------------------------------------------------------------
(* convert_SM_to_2C on n digits, and back on the nb bits of a number.       *)
ToTwos(s, n, mag) == IF s = -1 THEN Complement(mag, n) ELSE mag

SignedFromTwos(nb, mag) ==
    LET neg == (mag \div 2^(nb - 1)) % 2 = 1
        m == (IF neg THEN Complement(mag, Digits(nb)) ELSE mag) % 2^nb
    IN  [sgn |-> IF neg THEN -1 ELSE IF m = 0 THEN 0 ELSE 1, mag |-> m]

UnsignedFromTwos(nb, mag) ==
    LET m == mag % 2^(nb - 1) IN [sgn |-> IF m = 0 THEN 0 ELSE 1, mag |-> m]

(* n with s and mag instead of what it holds; with two's complement digits; *)
(* and converted there and back.                                            *)
Hold(n, s, mag) == [n EXCEPT !.sgn = s, !.mag = mag]
HoldTwos(n, mag) ==
    LET r == IF n.cls = "signed" THEN SignedFromTwos(n.nb, mag) ELSE UnsignedFromTwos(n.nb, mag)
    IN  Hold(n, r.sgn, r.mag)
Renormal(n, s, mag) == HoldTwos(n, ToTwos(s, Digits(n.nb), mag))

CopyDigitsRaw(n, s, vnb, vnd, mag) ==
    IF n.cls = "signed" /\ Digits(n.nb) >= vnd
    THEN Hold(n, s, mag % (Radix^Digits(n.nb)))
    ELSE Renormal(n, s, mag % (Radix^Digits(n.nb)))

(* copy_digits: a signed number that is wider is not converted.             *)
CopyDigits(n, s, vnb, vnd, mag) ==
    LET und == Digits(n.nb)
        m == mag % (Radix^und)
    IN  IF n.cls = "signed" /\ (und > vnd \/ n.nb > vnb)
        THEN Hold(n, s, m)
        ELSE Renormal(n, s, m)

(* operator= of int64 and uint64, and of the classes.                       *)
FromInt(n, v) ==
    LET m == v.mag % (Radix^Digits(n.nb))
    IN  IF n.cls = "signed" /\ n.nb > IntBits THEN Hold(n, v.sgn, m) ELSE Renormal(n, v.sgn, m)

Assigned(n, v) ==
    IF v.sgn = 0 THEN Hold(n, 0, 0)
    ELSE IF Builtin(v) THEN FromInt(n, v)
    ELSE CopyDigits(n, v.sgn, v.nb, Digits(v.nb), v.mag)

(* The temporaries: from digits, zero, a copy in class cls, and a negation. *)
Make(cls, s, nb, mag) ==
    LET n == NumBits(cls, nb)
    IN  [cls |-> cls, nb |-> n, sgn |-> s, mag |-> mag % Radix^Digits(n)]
Zero(cls) == Make(cls, 0, DefaultBits, 0)
CopyOf(cls, v) == IF Builtin(v) THEN Make(cls, v.sgn, v.nb, v.mag) ELSE [v EXCEPT !.cls = cls]
Negated(v) ==
    CASE v.cls = "signed" -> Hold(v, -v.sgn, v.mag)
      [] v.cls = "unsigned" ->
            CopyDigits([v EXCEPT !.cls = "signed"], -v.sgn, v.nb, Digits(v.nb), v.mag)
      [] Builtin(v) -> Make("signed", -v.sgn, v.nb, v.mag)

-----------------------------------------------------------------------------
(* The operators that return a temporary of class cls.                      *)
AddHelperNarrow(cls, us, u, vs, v) ==
    IF us = vs THEN Make(cls, us, Max({u.nb, v.nb}), u.mag + v.mag)
    ELSE IF u.mag > v.mag THEN Make(cls, us, Max({u.nb, v.nb}), u.mag - v.mag)
    ELSE Make(cls, -us, Max({u.nb, v.nb}), v.mag - u.mag)
AddHelper(cls, us, u, vs, v) ==
    LET nb == Max({u.nb, v.nb})
        nd == Max({Used(u.mag), Used(v.mag)}) + 1
        cmp_res == Compare(u.mag, v.mag)
    IN  CASE us = vs -> Make(cls, us, nb + 1, Add(u.mag, v.mag, nd))
          [] us # vs /\ cmp_res = 0 -> Zero(cls)
          [] us # vs /\ cmp_res > 0 -> Make(cls, us, nb, Subtract(u.mag, v.mag, nd))
          [] us # vs /\ cmp_res < 0 -> Make(cls, -us, nb, Subtract(v.mag, u.mag, nd))

(* Which operand is returned when one is zero: that of a built-in type is   *)
(* tested first.                                                            *)
Other(u, v) == IF u.sgn = 0 /\ ~(Builtin(v) /\ v.sgn = 0) THEN v ELSE u

Plus(cls, u, v) ==
    IF u.sgn = 0 \/ v.sgn = 0 THEN CopyOf(cls, Other(u, v))
    ELSE AddHelper(cls, u.sgn, u, v.sgn, v)

Minus(u, v) ==
    LET negate == u.sgn = 0 /\ (v.sgn # 0 \/ Builtin(u))
    IN  CASE negate -> Negated(v)
          [] ~negate /\ v.sgn = 0 -> CopyOf("signed", u)
          [] u.sgn # 0 /\ v.sgn # 0 -> AddHelper("signed", u.sgn, u, -v.sgn, v)

Times(cls, u, v) ==
    IF u.sgn * v.sgn = 0 THEN Zero(cls)
    ELSE Make(cls, u.sgn * v.sgn, u.nb + v.nb, MulDigits(u.mag, v.mag))

Quotient(cls, u, v) ==
    LET cmp_res == Compare(u.mag, v.mag)
    IN  IF u.sgn = 0 \/ cmp_res < 0 THEN Zero(cls)
        ELSE Make(cls, u.sgn * v.sgn, Max({u.nb, v.nb}),
                  IF cmp_res = 0 THEN 1 ELSE DivDigits(u.mag, v.mag))

Remainder(cls, u, v) ==
    LET cmp_res == Compare(u.mag, v.mag)
        r == IF cmp_res < 0 THEN u.mag ELSE RemDigits(u.mag, v.mag)
    IN  IF u.sgn = 0 \/ cmp_res = 0 \/ (cmp_res > 0 /\ v.mag = 1) \/ r = 0 THEN Zero(cls)
        ELSE Make(cls, u.sgn, Min({u.nb, v.nb}), r)

Bit(op, a, b) ==
    CASE op = "&" -> a & b
      [] op = "|" -> a | b
      [] op = "^" -> a ^^ b

BitHelper(cls, op, u, v) ==
    LET nb == Max({u.nb, v.nb})
        nd == Digits(nb)
        r == SignedFromTwos(nb, Bit(op, ToTwos(u.sgn, nd, u.mag), ToTwos(v.sgn, nd, v.mag)))
    IN  Make(cls, r.sgn, nb, r.mag)

BitAnd(cls, u, v) ==
    IF u.sgn = 0 \/ v.sgn = 0 THEN Zero(cls) ELSE BitHelper(cls, "&", u, v)
BitOr(cls, u, v) ==
    IF u.sgn = 0 \/ v.sgn = 0
    THEN CopyOf(cls, IF v.sgn = 0 /\ ~(Builtin(u) /\ u.sgn = 0) THEN u ELSE v)
    ELSE BitHelper(cls, "|", u, v)
BitXor(cls, u, v) ==
    IF u.sgn = 0 \/ v.sgn = 0
    THEN CopyOf(cls, IF v.sgn = 0 /\ ~(Builtin(u) /\ u.sgn = 0) THEN u ELSE v)
    ELSE BitHelper(cls, "^", u, v)

(* The class of a result: sc_unsigned when neither operand is signed.       *)
ResultClass(op, u, v) ==
    IF op # "-" /\ {u.cls, v.cls} \subseteq {"unsigned", "uint64"} THEN "unsigned" ELSE "signed"

Binary(op, u, v) ==
    LET cls == ResultClass(op, u, v)
    IN  CASE op = "+" -> Plus(cls, u, v)
          [] op = "-" -> Minus(u, v)
          [] op = "*" -> Times(cls, u, v)
          [] op = "/" -> Quotient(cls, u, v)
          [] op = "%" -> Remainder(cls, u, v)
          [] op = "&" -> BitAnd(cls, u, v)
          [] op = "|" -> BitOr(cls, u, v)
          [] op = "^" -> BitXor(cls, u, v)

Inverted(u) ==
    LET nd == Digits(u.nb)
        less == Subtract(u.mag, 1, nd)
    IN  CASE u.sgn = 0 -> Make(u.cls, -1, u.nb, 1)
          [] u.sgn = 1 -> Make(u.cls, -1, u.nb, Add(u.mag, 1, nd))
          [] u.sgn = -1 -> Make(u.cls, IF less = 0 THEN 0 ELSE 1, u.nb, less)

(* vec_shift_left and vec_shift_right on n digits.                          *)
Left(m, n, k) ==
    IF k >= DigitBits * n THEN 0 ELSE (m % 2^(DigitBits * n - k)) * 2^k
Right(s, m, n, k) == IF s = -1 THEN ((m - Radix^n) \div 2^k) % Radix^n ELSE m \div 2^k

ShiftLeft(u, k) ==
    LET nb == u.nb + k
        nd == Digits(nb)
        r == SignedFromTwos(nb, Left(ToTwos(u.sgn, nd, u.mag), nd, k))
    IN  IF k = 0 \/ u.sgn = 0 THEN u ELSE Make(u.cls, r.sgn, nb, r.mag)

ShiftRight(u, k) ==
    LET nd == Digits(u.nb)
        r == SignedFromTwos(u.nb, Right(u.sgn, ToTwos(u.sgn, nd, u.mag), nd, k))
    IN  IF k = 0 \/ u.sgn = 0 THEN u ELSE Make(u.cls, r.sgn, u.nb, r.mag)

-----------------------------------------------------------------------------
(* The operators that change the variable n in place: a result is cut to   *)
(* the digits of n.                                                         *)
AddOn(n, vs, v) ==
    LET nd == Digits(n.nb)
        cmp_res == Compare(n.mag, v.mag)
    IN  CASE n.sgn = vs -> Renormal(n, vs, Add(n.mag, v.mag, nd))
          [] n.sgn # vs /\ cmp_res = 0 -> Hold(n, 0, 0)
          [] n.sgn # vs /\ cmp_res > 0 -> Renormal(n, n.sgn, Subtract(n.mag, v.mag, nd))
          [] n.sgn # vs /\ cmp_res < 0 -> Renormal(n, -n.sgn, Subtract(v.mag, n.mag, nd))

PlusOn(n, v) ==
    CASE n.sgn = 0 -> Assigned(n, v)
      [] n.sgn # 0 /\ v.sgn = 0 -> n
      [] n.sgn # 0 /\ v.sgn # 0 -> AddOn(n, v.sgn, v)

(* 0 - v for a built-in v: uint64 is cast to int64 before it is negated.    *)
AsInt64(v) ==
    IF v.cls = "uint64" /\ v.mag >= 2^(IntBits - 1)
    THEN [cls |-> "int64", nb |-> IntBits, sgn |-> -1, mag |-> 2^IntBits - v.mag]
    ELSE v
MinusOn(n, v) ==
    LET w == IF Builtin(v) THEN AsInt64(v) ELSE v
    IN  CASE v.sgn = 0 -> n
          [] v.sgn # 0 /\ n.sgn = 0 /\ Builtin(v) -> Assigned(n, Hold(w, -w.sgn, w.mag))
          [] v.sgn # 0 /\ n.sgn = 0 /\ ~Builtin(v) ->
                CopyDigits(n, -v.sgn, v.nb, Digits(v.nb), v.mag)
          [] v.sgn # 0 /\ n.sgn # 0 -> AddOn(n, -v.sgn, v)

TimesOn(n, v) ==
    LET s == n.sgn * v.sgn
        small == n.mag < Half /\ v.mag < Half
        nd == IF small THEN 1 ELSE Used(n.mag) + Used(v.mag)
    IN  CASE s = 0 -> Hold(n, 0, 0)
          [] s # 0 /\ v.mag = 1 -> Renormal(n, s, n.mag)
          [] s # 0 /\ v.mag # 1 /\ n.mag = 1 -> CopyDigits(n, s, v.nb, Used(v.mag), v.mag)
          [] s # 0 /\ v.mag # 1 /\ n.mag # 1 ->
                CopyDigits(n, s, n.nb + v.nb, nd, MulDigits(n.mag, v.mag))

QuotientOn(n, v) ==
    LET s == n.sgn * v.sgn
        cmp_res == Compare(n.mag, v.mag)
    IN  CASE s = 0 \/ cmp_res < 0 -> Hold(n, 0, 0)
          [] s # 0 /\ cmp_res > 0 /\ v.mag = 1 -> Renormal(n, s, n.mag)
          [] s # 0 /\ (cmp_res = 0 \/ (cmp_res > 0 /\ v.mag # 1)) ->
                CopyDigits(n, s, Max({n.nb, v.nb}), Used(n.mag),
                           IF cmp_res = 0 THEN 1 ELSE DivDigits(n.mag, v.mag))

(* As in the code, the number of digits of v stands for its bits.           *)
RemainderOn(n, v) ==
    LET cmp_res == Compare(n.mag, v.mag)
        r == IF v.mag < Half THEN RemSmall(n.mag, v.mag) ELSE RemLarge(n.mag, v.mag)
    IN  CASE n.sgn = 0 \/ cmp_res < 0 -> n
          [] n.sgn # 0 /\ (cmp_res = 0 \/ (cmp_res > 0 /\ (v.mag = 1 \/ r = 0))) -> Hold(n, 0, 0)
          [] n.sgn # 0 /\ cmp_res > 0 /\ v.mag # 1 /\ r # 0 ->
                CopyDigits(n, n.sgn, Min({n.nb, Used(v.mag)}), Used(n.mag), r)

BitOpOn(op, n, v) ==
    LET nd == Digits(n.nb)
        both == Bit(op, ToTwos(n.sgn, nd, n.mag), ToTwos(v.sgn, nd, v.mag % Radix^nd))
    IN  CASE op = "&" /\ (n.sgn = 0 \/ v.sgn = 0) -> Hold(n, 0, 0)
          [] op # "&" /\ v.sgn = 0 -> n
          [] op # "&" /\ v.sgn # 0 /\ n.sgn = 0 -> Assigned(n, v)
          [] n.sgn # 0 /\ v.sgn # 0 -> HoldTwos(n, both)

BinaryOn(op, n, v) ==
    CASE op = "+" -> PlusOn(n, v)
      [] op = "-" -> MinusOn(n, v)
      [] op = "*" -> TimesOn(n, v)
      [] op = "/" -> QuotientOn(n, v)
      [] op = "%" -> RemainderOn(n, v)
      [] op \in {"&", "|", "^"} -> BitOpOn(op, n, v)

ShiftLeftOn(n, k) ==
    LET nd == Digits(n.nb)
    IN  IF k = 0 \/ n.sgn = 0 THEN n
        ELSE HoldTwos(n, Left(ToTwos(n.sgn, nd, n.mag), nd, k))
ShiftRightOn(n, k) ==
    LET nd == Digits(n.nb)
    IN  IF k = 0 \/ n.sgn = 0 THEN n
        ELSE HoldTwos(n, Right(n.sgn, ToTwos(n.sgn, nd, n.mag), nd, k))

-----------------------------------------------------------------------------
(* Single bits, the mirror image and a range of bits, which is mirrored     *)
(* when it is selected from right to left.                                  *)
BitOf(m, i) == (m \div 2^i) % 2
Twos(n) == ToTwos(n.sgn, Digits(n.nb), n.mag)
Outside(n, i) == i < 0 \/ NumBits(n.cls, i) >= n.nb

Test(n, i) ==
    IF Outside(n, i) THEN n.cls = "signed" /\ n.sgn = -1 ELSE BitOf(Twos(n), i) = 1

SetBit(n, i, v) ==
    IF Outside(n, i) THEN n ELSE HoldTwos(n, Twos(n) + (v - BitOf(Twos(n), i)) * 2^i)

MapThenAdd(f(_), n) == LET sum[i \in 0..n] == IF i = 0 THEN 0 ELSE sum[i - 1] + f(i - 1) IN sum[n]
Mirror(m, n) == MapThenAdd(LAMBDA i : BitOf(m, i) * 2^(n - 1 - i), n)

Reverse(n) ==
    LET len == LengthOf(n)
    IN  HoldTwos(n, Twos(n) - (Twos(n) % 2^len) + Mirror(Twos(n), len))

RangeOf(cls, u, left, right) ==
    LET l == Min({Max({left, right}), u.nb - 1})
        r == Max({Min({left, right}), 0})
        n == IF l < r THEN [cls |-> cls, nb |-> 1, sgn |-> 0, mag |-> 0]
             ELSE Make(cls, 0, l - r + 1, 0)
        m == Right(u.sgn, Twos(u), Digits(u.nb), r) % 2^(l - r + 1)
    IN  IF u.sgn = 0 \/ l < r THEN n
        ELSE HoldTwos(n, IF left < right THEN Mirror(m, l - r + 1) ELSE m)

(* compare_unsigned: a negative number is taken as unsigned.                *)
AsUnsigned(n) ==
    Complement(n.mag, Digits(n.nb)) % 2^(IF n.cls = "signed" THEN n.nb ELSE n.nb - 1)
CompareUnsigned(u, v) ==
    CASE u.sgn = v.sgn -> u.sgn * Compare(u.mag, v.mag)
      [] u.sgn # v.sgn /\ u.sgn = 0 -> -v.sgn
      [] u.sgn # v.sgn /\ v.sgn = 0 -> u.sgn
      [] u.sgn = -1 /\ v.sgn = 1 -> Compare(AsUnsigned(u), v.mag)
      [] u.sgn = 1 /\ v.sgn = -1 -> Compare(u.mag, AsUnsigned(v))

(* When one of the two is an sc_unsigned, a negative number of another      *)
(* class is less than it; otherwise signs and magnitudes are compared.      *)
Negative(n) == n.cls # "unsigned" /\ n.sgn = -1
LessUnsigned(u, v) == ~Negative(v) /\ (Negative(u) \/ CompareUnsigned(u, v) < 0)
LessSigned(u, v) == u.sgn < v.sgn \/ (u.sgn = v.sgn /\ u.sgn * Compare(u.mag, v.mag) < 0)
Less(u, v) ==
    IF "unsigned" \in {u.cls, v.cls} THEN LessUnsigned(u, v) ELSE LessSigned(u, v)

EqualUnsigned(u, v) == ~Negative(u) /\ ~Negative(v) /\ CompareUnsigned(u, v) = 0
EqualSigned(u, v) == u.sgn = v.sgn /\ Compare(u.mag, v.mag) = 0
Equal(u, v) ==
    IF "unsigned" \in {u.cls, v.cls} THEN EqualUnsigned(u, v) ELSE EqualSigned(u, v)

-----------------------------------------------------------------------------
Operators == {"+", "-", "*", "/", "%", "&", "|", "^"}

Init ==
    /\ x \in Starts
    /\ t = Zero("signed")
    /\ last = [op |-> "none", by |-> "place", u |-> x, v |-> x, k |-> <<>>]
    /\ steps = 0

(* div_by_zero reports an error.                                            *)
Defined(op, v) == op \in {"/", "%"} => v.sgn # 0

(* An operator returns n, which is used in the same statement, or the       *)
(* variable becomes n, which ends the statement.  One is enough: it leaves  *)
(* nothing but x, and every value is one to start with.                     *)
Returns(op, u, v, k, n) ==
    /\ steps < MaxSteps
    /\ t' = n
    /\ last' = [op |-> op, by |-> "value", u |-> u, v |-> v, k |-> k]
    /\ steps' = steps + 1
    /\ UNCHANGED x

Becomes(op, u, v, k, n) ==
    /\ steps < MaxSteps
    /\ x' = n
    /\ last' = [op |-> op, by |-> "place", u |-> u, v |-> v, k |-> k]
    /\ steps' = MaxSteps
    /\ UNCHANGED t

(* u op v, where one of them may be of a built-in type.                     *)
Operate(op, u, v) ==
    /\ Defined(op, v)
    /\ Returns(op, u, v, <<>>, Binary(op, u, v))

Compute ==
    /\ steps = 0
    /\ \E op \in Operators, v \in Operands :
          \/ Operate(op, x, v)
          \/ Builtin(v) /\ Operate(op, v, x)

(* The next operator of an expression.                                      *)
Continue ==
    /\ steps > 0
    /\ \E op \in Operators, v \in Later : Operate(op, t, v)

Unary ==
    \E u \in IF steps = 0 THEN {x} ELSE {t} :
        \/ Returns("neg", u, u, <<>>, Negated(u))
        \/ Returns("~", u, u, <<>>, Inverted(u))
        \/ \E k \in Shifts :
              \/ Returns("<<", u, u, <<k>>, ShiftLeft(u, k))
              \/ Returns(">>", u, u, <<k>>, ShiftRight(u, k))

(* The result of an expression, or a built-in number, is assigned.          *)
Assign ==
    \/ steps > 0 /\ \E f \in Formats : Becomes("=", f, t, <<>>, Assigned(f, t))
    \/ steps = 0 /\ \E v \in Operands : Becomes("=", x, v, <<>>, Assigned(x, v))

(* x op= v.  The least int64 cannot be negated.                             *)
Update ==
    \E op \in Operators, v \in Operands :
        /\ steps = 0 /\ Defined(op, v)
        /\ ~(op = "-" /\ x.sgn = 0 /\ Builtin(v) /\ v.mag = 2^(IntBits - 1))
        /\ Becomes(op, x, v, <<>>, BinaryOn(op, x, v))

Shift ==
    steps = 0 /\ \E k \in Shifts :
        \/ Becomes("<<", x, x, <<k>>, ShiftLeftOn(x, k))
        \/ Becomes(">>", x, x, <<k>>, ShiftRightOn(x, k))

Bits ==
    \/ steps = 0 /\ \E i \in -1..x.nb, b \in {0, 1} :
          Becomes("bit", x, x, <<i, b>>, SetBit(x, i, b))
    \/ steps = 0 /\ Becomes("reverse", x, x, <<>>, Reverse(x))

Select ==
    steps = 0 /\ \E p \in Parts, cls \in {"signed", "unsigned"} :
        Returns("range", x, x, p, RangeOf(cls, x, p[1], p[2]))

Next == Compute \/ Continue \/ Unary \/ Assign \/ Update \/ Shift \/ Bits \/ Select

Spec == Init /\ [][Next]_vars

-----------------------------------------------------------------------------
(* What the numbers mean.                                                   *)
Number == [cls : {"signed", "unsigned"}, nb : Nat \ {0}, sgn : {-1, 0, 1}, mag : Nat]

TypeOK == x \in Number /\ t \in Number /\ steps \in 0..MaxSteps

Magnitude(i) == IF i < 0 THEN -i ELSE i
Arithmetic(op, i, j) ==
    CASE op = "+" -> i + j
      [] op = "-" -> i - j
      [] op = "*" -> i * j
      [] op = "/" -> (Magnitude(i) \div Magnitude(j)) * (IF (i < 0) = (j < 0) THEN 1 ELSE -1)
      [] op = "%" -> (Magnitude(i) % Magnitude(j)) * (IF i < 0 THEN -1 ELSE 1)

(* The number that the n lowest bits of i are in two's complement, and the  *)
(* number of the width of n that i is cut to.                               *)
Cut(i, n) == ((i + 2^(n - 1)) % 2^n) - 2^(n - 1)
FitsIn(i, n) == Cut(i, n) = i
Wrapped(n, i) == IF n.cls = "signed" THEN Cut(i, n.nb) ELSE i % 2^(n.nb - 1)
InFormat(n) == (n.sgn = 0) = (n.mag = 0) /\ Wrapped(n, Value(n)) = Value(n)

Widest == Max({last.u.nb, last.v.nb})
Meaning(n) ==
    LET op == last.op
        i == Value(last.u)
        j == Value(last.v)
    IN  CASE op \in {"+", "-", "*", "/", "%"} -> Arithmetic(op, i, j)
          [] op \in {"&", "|", "^"} -> Cut(Bit(op, i % 2^n, j % 2^n), n)
          [] op = "neg" -> -i
          [] op = "~" -> -i - 1
          [] op = "<<" -> i * 2^last.k[1]
          [] op = ">>" -> i \div 2^last.k[1]
          [] op = "=" -> j

(* A temporary is what the operator means, whatever its operands: no carry, *)
(* guess or shortcut goes wrong.  Numbers are shifted, and bits combined,   *)
(* in two's complement, and so only when they have room there.              *)
Exact ==
    LET Room(n) == FitsIn(Value(last.u), n) /\ FitsIn(Value(last.v), n)
    IN  (last.by = "value" /\ last.op # "range") =>
            /\ (t.sgn = 0) = (t.mag = 0)
            /\ \/ Value(t) = Meaning(Widest)
               \/ last.op \in {"&", "|", "^", "<<", ">>"} /\ ~Room(Widest)

(* x is the number of its width that is congruent to what the operator      *)
(* means, and always one of its width.  Subtracting from zero, uint64 is    *)
(* cast to int64, which shows when x is wider.                              *)
Congruent ==
    LET cast == last.op = "-" /\ last.u.sgn = 0 /\ last.v.cls = "uint64"
                    /\ last.v.mag > 2^(IntBits - 1) /\ x.nb > IntBits
    IN  /\ InFormat(x)
        /\ (last.by = "place" /\ last.op \notin {"none", "bit", "reverse"} /\ ~cast) =>
                Value(x) = Wrapped(x, Meaning(Widest + 1))

(* Every bit is where it is in two's complement: the one that was written,  *)
(* the others, and those that were mirrored or selected; what lies outside  *)
(* is not written and reads as the sign.                                    *)
IntBit(i, j) == IF j < 0 THEN 0 ELSE (i \div 2^j) % 2
BitsPlaced ==
    LET before == Value(last.u)
        len == LengthOf(last.u)
        lo == Max({Min({last.k[1], last.k[2]}), 0})
        hi == Min({Max({last.k[1], last.k[2]}), last.u.nb - 1})
    IN  /\ last.by = "place" => \A j \in 0..x.nb : Test(x, j) = (IntBit(Value(x), j) = 1)
        /\ last.op = "bit" => \A j \in 0..len - 1 :
              IntBit(Value(x), j) = IF j = last.k[1] THEN last.k[2] ELSE IntBit(before, j)
        /\ last.op = "reverse" => \A j \in 0..len - 1 :
              IntBit(Value(x), j) = IntBit(before, len - 1 - j)
        /\ last.op = "range" =>
              /\ InFormat(t)
              /\ \A j \in 0..hi - lo : IntBit(Value(t), j) =
                    IntBit(before, IF last.k[1] < last.k[2] THEN hi - j ELSE lo + j)

(* Numbers are ordered by their values, whatever their classes and widths.  *)
Ordered ==
    last.by = "place" => \A v \in Operands :
        /\ Less(x, v) = (Value(x) < Value(v)) /\ Less(v, x) = (Value(v) < Value(x))
        /\ Equal(x, v) = (Value(x) = Value(v))

(* The result of u | v is positive when both are, as the comment above      *)
(* operator| says: refuted, a uint64 may lack room for its sign.            *)
OrPositive ==
    (last.by = "value" /\ last.op = "|" /\ last.u.sgn = 1 /\ last.v.sgn = 1) => t.sgn = 1

(* A shift multiplies or divides (operator<<, operator>>): refuted after    *)
(* an operator whose result has no room for its sign.                       *)
ShiftExact ==
    (last.by = "value" /\ last.op \in {"<<", ">>"}) => Value(t) = Meaning(Widest)

(* Zero minus v is -v, as a comment in operator-= says: refuted for uint64. *)
ZeroMinus ==
    (last.by = "place" /\ last.op = "-" /\ last.u.sgn = 0) =>
        Value(x) = Wrapped(x, -Value(last.v))
=============================================================================
