------------------------------- MODULE Bignum -------------------------------
(***************************************************************************)
(* Multiple precision integers: bignum.c, as POLARSSL_HAVE_INT8 builds it, a  *)
(* limb being one byte and two of them t_udbl.                               *)
(*                                                                         *)
(* A number is its sign and its limbs, the lowest first; limbs at the high    *)
(* end may be zero.  An operation's result object is told from its operands   *)
(* only where the code does not copy the operand first.  Where two numbers    *)
(* are called A and B, the comment's formula is the one above the function.   *)
(***************************************************************************)
EXTENDS Integers, Sequences, SequencesExt, Binding

CONSTANTS
  BnStart,       \* pairs of integers the two registers may start with
  BnMaxOps,      \* operations done on them
  BnMaxBits,     \* operations whose result has more bits are left out
  BnModulusBits, \* and so are moduli of more
  BnShifts,      \* numbers of bits to shift by
  BnWindow(_),   \* the window of an exponent of so many bits (1, from 24 bits on 3, ..)
  BnRadices,     \* bases numbers are written in
  BnDigits,      \* exponents, and what is added to or divides a register
  BnSmallPrimes, \* what mpi_is_prime divides by first
  BnPrimeBits,   \* sizes of primes asked for
  BnRounds,      \* rounds of the Miller-Rabin test (27 for small numbers)
  BnDraws        \* what the random generator may give, as numbers

VARIABLES
  bnReg,         \* the registers "x" and "y"
  bnOp,          \* the operation done last: its name, operands and result, as integers
  bnOps,         \* how many were done
  bnPrime        \* mpi_gen_prime: the candidate it is at

bnVars == <<bnReg, bnOp, bnOps, bnPrime>>

BiL == 8
Base == 2^BiL
BiH == BiL \div 2

Mpi(s, p) == [s |-> s, p |-> p]
Limb(p, i) == IF i \in 1..Len(p) THEN p[i] ELSE 0
Zeros(n) == SubSeq([i \in 1..n |-> 0], 1, n)
LimbSeq(n, f(_)) == SubSeq([i \in 1..n |-> f(i)], 1, n)

\* The place of the highest limb that is not 0, or 0.
High(p) == IF \A i \in DOMAIN p : p[i] = 0 THEN 0
           ELSE CHOOSE i \in DOMAIN p : p[i] # 0 /\ \A j \in (i + 1)..Len(p) : p[j] = 0
LargerOf(a, b) == IF a > b THEN a ELSE b
Bits(n) == CHOOSE k \in 0..31 : n < 2^k /\ (k = 0 \/ n >= 2^(k - 1))

\* The integer a number stands for.
ValueOf(X) ==
  LET sum[i \in 0..Len(X.p)] == IF i = 0 THEN 0 ELSE sum[i - 1] + X.p[i] * Base^(i - 1)
  IN  X.s * sum[High(X.p)]

-----------------------------------------------------------------------------
(* Objects and bits *)

MpiGrow(X, n) == [X EXCEPT !.p = @ \o Zeros(n - Len(@))]
MpiCopy(Y) == Mpi(Y.s, SubSeq(Y.p, 1, LargerOf(High(Y.p), 1)))
MpiLset(z) == Mpi(IF z < 0 THEN -1 ELSE 1, <<(IF z < 0 THEN -z ELSE z) % Base>>)
\* A number of any size, as the readers below make it.
FromInt(z) ==
  LET v == IF z < 0 THEN -z ELSE z
      n == LargerOf((Bits(v) + BiL - 1) \div BiL, 1)
  IN  Mpi(IF z < 0 THEN -1 ELSE 1, LimbSeq(n, LAMBDA i : (v \div Base^(i - 1)) % Base))

MpiGetBit(X, pos) == (Limb(X.p, (pos \div BiL) + 1) \div 2^(pos % BiL)) % 2
MpiSetBit(X, pos, val) ==
  LET off == (pos \div BiL) + 1
      Y == IF Len(X.p) * BiL <= pos THEN MpiGrow(X, off) ELSE X
  IN  IF Len(X.p) * BiL <= pos /\ val = 0 THEN X
      ELSE [Y EXCEPT !.p[off] = @ + (val - MpiGetBit(Y, pos)) * 2^(pos % BiL)]

\* Of zero, too, the answer is 0.
MpiLsb(X) ==
  IF High(X.p) = 0 THEN 0
  ELSE CHOOSE c \in 0..(Len(X.p) * BiL - 1) :
         MpiGetBit(X, c) = 1 /\ \A d \in 0..(c - 1) : MpiGetBit(X, d) = 0
MpiMsb(X) == IF High(X.p) = 0 THEN 0 ELSE (High(X.p) - 1) * BiL + Bits(X.p[High(X.p)])
MpiSize(X) == (MpiMsb(X) + 7) \div 8

MpiShiftL(X, count) ==
  With(MpiMsb(X) + count, LAMBDA bits :
  LET Y == IF Len(X.p) * BiL < bits THEN MpiGrow(X, (bits + BiL - 1) \div BiL) ELSE X
      v0 == count \div BiL
      t1 == count % BiL IN
    [Y EXCEPT !.p = LimbSeq(Len(Y.p), LAMBDA i :
       ((Limb(X.p, i - v0) * 2^t1) % Base) + (Limb(X.p, i - v0 - 1) \div 2^(BiL - t1)))])

MpiShiftR(X, count) ==
  LET v0 == count \div BiL
      v1 == count % BiL
  IN  IF v0 > Len(X.p) \/ (v0 = Len(X.p) /\ v1 > 0) THEN Mpi(1, Zeros(Len(X.p)))
      ELSE [X EXCEPT !.p = LimbSeq(Len(X.p), LAMBDA i :
              (Limb(X.p, i + v0) \div 2^v1) + ((Limb(X.p, i + v0 + 1) * 2^(BiL - v1)) % Base))]

-----------------------------------------------------------------------------
(* Comparison: -1, 0 or 1 *)

MpiCmpAbs(X, Y) ==
  With(High(X.p), LAMBDA i :
  With(High(Y.p), LAMBDA j :
  With({k \in 1..i : X.p[k] # Limb(Y.p, k)}, LAMBDA d :
  LET top == CHOOSE k \in d : \A l \in d : l <= k IN
    IF i # j THEN (IF i > j THEN 1 ELSE -1)
    ELSE IF d = {} THEN 0 ELSE IF X.p[top] > Y.p[top] THEN 1 ELSE -1)))

MpiCmpMpi(X, Y) ==
  With(High(X.p), LAMBDA i :
  With(High(Y.p), LAMBDA j :
    IF i = 0 /\ j = 0 THEN 0
    ELSE IF i > j THEN X.s ELSE IF j > i THEN -Y.s
    ELSE IF X.s # Y.s THEN X.s ELSE X.s * MpiCmpAbs(X, Y)))

MpiCmpInt(X, z) == MpiCmpMpi(X, MpiLset(z))

-----------------------------------------------------------------------------
(* Addition and subtraction *)

\* The carries of limbs 1..n, of sums or of differences.
Carries(n, Out(_, _)) ==
  LET c[i \in 0..n] == IF i = 0 THEN 0 ELSE Out(i, c[i - 1]) IN c

\* X = |A| + |B|.  Where X, A and B are one object the limb read as B's was just changed.
MpiAddAbs(A, B, oneObject) ==
  With(LargerOf(Len(A.p), High(B.p)), LAMBDA n :
  LET sum(i, c) == Limb(A.p, i) + Limb(B.p, i) + c IN
  With(Carries(n, LAMBDA i, in : sum(i, in) \div Base), LAMBDA c :
  With(Carries(n, LAMBDA i, in : (Limb(A.p, i) + in) \div Base), LAMBDA d :
    IF oneObject
    THEN Mpi(1, LimbSeq(n, LAMBDA i : (2 * ((A.p[i] + d[i - 1]) % Base)) % Base)
                \o (IF d[n] = 1 THEN <<1>> ELSE << >>))
    ELSE Mpi(1, LimbSeq(n, LAMBDA i : sum(i, c[i - 1]) % Base)
                \o (IF c[n] = 1 THEN <<1>> ELSE << >>)))))

\* d - s, with a borrow that goes on through the limbs of d.
MpiSubHlp(d, s) ==
  LET diff(i, c) == d[i] - Limb(s, i) - c IN
  With(Carries(Len(d), LAMBDA i, in : IF diff(i, in) < 0 THEN 1 ELSE 0), LAMBDA c :
    LimbSeq(Len(d), LAMBDA i : diff(i, c[i - 1]) % Base))

\* X = |A| - |B|; callers see to it that A is not the smaller one.
MpiSubAbs(A, B) == Mpi(1, MpiSubHlp(A.p, B.p))

WithSign(X, s) == [X EXCEPT !.s = s]

MpiAddMpi(A, B, oneObject) ==
  IF A.s # B.s
  THEN IF MpiCmpAbs(A, B) >= 0 THEN WithSign(MpiSubAbs(A, B), A.s) ELSE WithSign(MpiSubAbs(B, A),
                                                                                 -A.s)
  ELSE WithSign(MpiAddAbs(A, B, oneObject), A.s)

MpiSubMpi(A, B) ==
  IF A.s = B.s
  THEN IF MpiCmpAbs(A, B) >= 0 THEN WithSign(MpiSubAbs(A, B), A.s) ELSE WithSign(MpiSubAbs(B, A),
                                                                                 -A.s)
  ELSE WithSign(MpiAddAbs(A, B, FALSE), A.s)

MpiAddInt(A, b) == MpiAddMpi(A, MpiLset(b), FALSE)
MpiSubInt(A, b) == MpiSubMpi(A, MpiLset(b))

-----------------------------------------------------------------------------
(* Multiplication *)

\* Defect: the last carry goes into its limb and no further.
MpiMulHlpOne(s, d, at, b) ==
  LET n == Len(s)
      sum(i, c) == Limb(d, at + i) + (IF i <= n THEN s[i] * b ELSE 0) + c
      c == Carries(n, LAMBDA i, in : sum(i, in) \div Base)
  IN  LimbSeq(Len(d), LAMBDA k :
        IF k <= at THEN d[k] ELSE IF k <= at + n + 1
        THEN sum(k - at, IF k - at - 1 <= n THEN c[k - at - 1] ELSE 0) % Base ELSE d[k])

\* d + s * b, s being moved up by so many limbs.
MpiMulHlp(s, d, at, b) ==
  LET n == Len(d) - at
      sum(i, c) == d[at + i] + Limb(s, i) * b + c IN
  With(Carries(n, LAMBDA i, in : sum(i, in) \div Base), LAMBDA c :
    LimbSeq(Len(d), LAMBDA k : IF k <= at THEN d[k] ELSE sum(k - at, c[k - at - 1]) % Base))

MpiMulMpi(A, B) ==
  LET i == High(A.p) IN
  With(High(B.p), LAMBDA j :
  LET d[k \in 0..j] == IF k = 0 THEN Zeros(LargerOf(i + j, 1))
                       ELSE MpiMulHlp(SubSeq(A.p, 1, i), d[k - 1], j - k, B.p[j - k + 1]) IN
    Mpi(A.s * B.s, d[j]))

\* b is taken as it stands in a limb: a negative one is a large one.
MpiMulInt(A, b) == MpiMulMpi(A, Mpi(1, <<b % Base>>))

-----------------------------------------------------------------------------
(* Division *)

\* One digit of the quotient, at i of X; n and t are the places of the highest limbs.
DivDigit(X, Y, i, t) ==
  LET x(k) == Limb(X.p, k + 1)
      y(k) == Limb(Y.p, k + 1) IN
  With(IF x(i) >= y(t) THEN Base - 1
       ELSE LET r ==
         (x(i) * Base + x(i - 1)) \div y(t) IN IF r > Base - 1 THEN Base - 1 ELSE r, LAMBDA guess :
  LET two == (IF t < 1 THEN 0 ELSE y(t - 1)) + y(t) * Base
      three == (IF i < 2 THEN 0 ELSE x(i - 2)) + x(i - 1) * Base + x(i) * Base^2 IN
  With(IF guess * two <= three THEN guess ELSE three \div two, LAMBDA q :
  With(MpiSubMpi(X, MpiShiftL(MpiMulInt(Y, q), BiL * (i - t - 1))), LAMBDA less :
    IF MpiCmpInt(less, 0) < 0
    THEN <<MpiAddMpi(less, MpiShiftL(Y, BiL * (i - t - 1)), FALSE), q - 1>>
    ELSE <<less, q>>)))

\* A = Q * B + R, R having the sign of A.
MpiDivMpi(A, B) ==
  LET Y0 == Mpi(1, MpiCopy(B).p) IN
  With(IF MpiMsb(Y0) % BiL < BiL - 1 THEN BiL - 1 - (MpiMsb(Y0) % BiL) ELSE 0, LAMBDA k :
  With(MpiShiftL(Mpi(1, MpiCopy(A).p), k), LAMBDA X :
  With(MpiShiftL(Y0, k), LAMBDA Y :
  LET n == Len(X.p) - 1
      t == Len(Y.p) - 1 IN
  With(MpiShiftL(Y, BiL * (n - t)), LAMBDA up :
  With(CHOOSE c \in 0..Base : LET r[j \in 0..c] == IF j = 0 THEN X ELSE MpiSubMpi(r[j - 1], up)
                              IN  /\ MpiCmpMpi(r[c], up) < 0
                                  /\ c > 0 => MpiCmpMpi(r[c - 1], up) >= 0, LAMBDA times :
  With(LET r[j \in 0..times] == IF j = 0 THEN X ELSE MpiSubMpi(r[j - 1], up) IN r[times],
       LAMBDA top :
  \* The remainder and the digits from n - t down, after digit i.
  LET digit[i \in t..n] ==
        IF i = n THEN <<top, <<times>>>>
        ELSE LET before == digit[i + 1] IN
             With(DivDigit(before[1], Y, i + 1, t), LAMBDA d :
               <<d[1], <<d[2]>> \o before[2]>>) IN
  With(MpiCopy(WithSign(MpiShiftR(digit[t][1], k), A.s)), LAMBDA R :
    IF High(B.p) = 0 THEN [ret |-> "division by zero"]
    ELSE IF MpiCmpAbs(A, B) < 0 THEN [ret |-> "ok", Q |-> MpiLset(0), R |-> MpiCopy(A)]
    ELSE [ret |-> "ok", Q |-> Mpi(A.s * B.s, digit[t][2]),
          R |-> IF MpiCmpInt(R, 0) = 0 THEN WithSign(R, 1) ELSE R])))))))

MpiDivInt(A, b) == MpiDivMpi(A, MpiLset(b))

\* A mod B for a B that is not negative; the two loops turn at most once each.
MpiModMpi(A, B) ==
  With(MpiDivMpi(A, B), LAMBDA d :
  With(IF MpiCmpInt(d.R, 0) < 0 THEN MpiAddMpi(d.R, B, FALSE) ELSE d.R, LAMBDA up :
    IF MpiCmpInt(B, 0) < 0 THEN [ret |-> "negative value"]
    ELSE IF d.ret # "ok" THEN d
    ELSE [ret |-> "ok", R |-> IF MpiCmpMpi(up, B) >= 0 THEN MpiSubMpi(up, B) ELSE up]))

\* Half a limb at a time, in a limb: right for divisors of no more than half a limb's bits.
MpiModInt(A, b) ==
  LET half(y, h) == ((y * 2^BiH + h) % Base) % b
      y[i \in 0..Len(A.p)] ==       \* after the i highest limbs
        IF i = 0 THEN 0
        ELSE LET x == A.p[Len(A.p) - i + 1]
             IN  half(half(y[i - 1], x \div 2^BiH), x % 2^BiH)
      r == y[Len(A.p)]
  IN  IF b = 1 THEN 0 ELSE IF b = 2 THEN A.p[1] % 2
      ELSE IF A.s < 0 /\ r # 0 THEN b - r ELSE r

-----------------------------------------------------------------------------
(* Text and bytes *)

\* A character's digit; 255 is no digit.
MpiGetDigit(c) ==
  IF c \in 48..57 THEN c - 48
  ELSE IF c \in 65..70 THEN c - 55
  ELSE IF c \in 97..102 THEN c - 87
  ELSE 255

Minus == 45
MpiReadString(radix, text) ==
  LET neg == text # << >> /\ text[1] = Minus
      digits == [i \in 1..(Len(text) - (IF neg THEN 1 ELSE 0)) |->
                   MpiGetDigit(text[i + (IF neg THEN 1 ELSE 0)])]
      n == Len(digits)
      hex(k) == IF k \in 1..n THEN digits[n - k + 1] ELSE 0
      X[i \in 0..n] ==
        IF i = 0 THEN WithSign(MpiLset(0), IF neg THEN -1 ELSE 1)
        ELSE LET before == X[i - 1]
                 T == MpiMulInt(before, radix)
             IN  IF before.s = 1 THEN MpiAddInt(T, digits[i]) ELSE MpiSubInt(T, digits[i])
  IN  IF \E i \in 1..n : digits[i] >= radix THEN [ret |-> "invalid character"]
      ELSE IF radix # 16 THEN [ret |-> "ok", X |-> X[n]]
      ELSE [ret |-> "ok", X |-> Mpi(IF neg THEN -1 ELSE 1,
              LimbSeq(LargerOf((4 * Len(text) + BiL - 1) \div BiL, 1),
                      LAMBDA i : hex(2 * i - 1) + 16 * hex(2 * i)))]

Character(r) == r + (IF r < 10 THEN 48 ELSE 55)
RECURSIVE MpiWriteHlp(_, _)
MpiWriteHlp(X, radix) ==
  With(MpiDivInt(X, radix).Q, LAMBDA Q :
    (IF MpiCmpInt(Q, 0) # 0 THEN MpiWriteHlp(Q, radix) ELSE << >>)
    \o <<Character(MpiModInt(X, radix))>>)

\* The text, and the size the caller was told to have room for.
MpiWriteString(X, radix) ==
  LET n == MpiMsb(X) \div (IF radix >= 16 THEN 4 ELSE IF radix >= 4 THEN 2 ELSE 1)
      h == High(X.p)
      half(k) == LET c == X.p[h - ((k - 1) \div 2)] IN IF k % 2 = 1 THEN c \div 16 ELSE c % 16
      bytes == SubSeq([k \in 1..(2 * h) |-> Character(half(k))], 1, 2 * h)
  IN  [room |-> n + 3,
       text |-> (IF X.s = -1 THEN <<Minus>> ELSE << >>)
                \o (IF radix = 16 THEN bytes ELSE MpiWriteHlp(WithSign(MpiCopy(X), 1), radix))]

\* The number at the end of a line: a minus is as little part of it as a label is.
MpiReadFile(radix, line) ==
  LET n == Len(line)
      from == CHOOSE k \in 0..n : /\ \A i \in (k + 1)..n : MpiGetDigit(line[i]) < radix
                                  /\ k > 0 => MpiGetDigit(line[k]) >= radix
  IN  MpiReadString(radix, SubSeq(line, from + 1, n))
MpiWriteFile(X, radix) == MpiWriteString(X, radix).text

MpiReadBinary(buf) ==
  LET n == Len(buf) - (CHOOSE k \in 0..Len(buf) : /\ \A i \in 1..k : buf[i] = 0
                                                  /\ k < Len(buf) => buf[k + 1] # 0)
  IN  Mpi(1, LimbSeq(LargerOf(n, 1), LAMBDA i : IF i <= n THEN buf[Len(buf) - i + 1] ELSE 0))
MpiWriteBinary(X, buflen) ==
  IF buflen < MpiSize(X) THEN [ret |-> "buffer too small"]
  ELSE [ret |-> "ok", buf |-> LimbSeq(buflen, LAMBDA i : Limb(X.p, buflen - i + 1))]

-----------------------------------------------------------------------------
(* Powers and inverses to a modulus *)

\* -1 / N in a limb, N being odd.
MpiMontgInit(N) ==
  LET m0 == N.p[1]
      x0 == (m0 + (IF ((m0 + 2) \div 4) % 2 = 1 THEN 8 ELSE 0)) % Base
      x1 == (x0 * (2 - (m0 * x0))) % Base
  IN  (Base - x1) % Base

\* The n turns of the product; the lowest limb done with is overwritten.
MontTurns(A, B, N, mm) ==
  LET n == Len(N.p)
      b == SubSeq(B.p, 1, IF Len(B.p) < n THEN Len(B.p) ELSE n)
      T[i \in 0..n] ==
        IF i = 0 THEN Zeros(2 * (n + 1))
        ELSE LET d == T[i - 1]
                 u0 == A.p[i]
                 u1 == ((d[i] + u0 * B.p[1]) * mm) % Base
             IN  [MpiMulHlp(N.p, MpiMulHlp(b, d, i - 1, u0), i - 1, u1)
                    EXCEPT ![i] = u0, ![i + n + 2] = 0]
  IN  T[n]

\* A * B / R to the modulus N, in an A of one limb more than N.
MpiMontmul(A, B, N, mm) ==
  LET n == Len(N.p) IN
  With([A EXCEPT !.p = SubSeq(MontTurns(A, B, N, mm), n + 1, 2 * n + 1)], LAMBDA X :
    IF MpiCmpAbs(X, N) >= 0 THEN [X EXCEPT !.p = MpiSubHlp(@, N.p)] ELSE X)

MpiMontred(A, N, mm) == MpiMontmul(A, Mpi(1, <<1>>), N, mm)

\* X squared the given number of times.
Squares(X, times, N, mm) ==
  LET Y[i \in 0..times] ==
        IF i = 0 THEN X ELSE LET Z == Y[i - 1] IN MpiMontmul(Z, Z, N, mm)
  IN  Y[times]

\* The powers of W1 that a window of w bits may call for: of those below half only the first.
Windows(W1, w, N, mm) ==
  LET half == 2^(w - 1)
      W[i \in 1..(2^w - 1)] == IF i = 1 THEN W1
                               ELSE IF i <= half THEN Squares(W1, w - 1, N, mm)
                               ELSE MpiMontmul(W[i - 1], W1, N, mm)
  IN  W

\* One bit of the exponent, by a sliding window of w bits.
ExpBit(st, ei, w, W, N, mm) ==
  LET nbits == st.nbits + 1
      wbits == st.wbits + ei * 2^(w - nbits)
  IN  IF ei = 0 /\ st.state = 0 THEN st
      ELSE IF ei = 0 /\ st.state = 1 THEN [st EXCEPT !.X = MpiMontmul(@, @, N, mm)]
      ELSE IF nbits < w THEN [st EXCEPT !.state = 2, !.nbits = nbits, !.wbits = wbits]
      ELSE [X |-> MpiMontmul(Squares(st.X, w, N, mm), W[wbits], N, mm), state |-> 1,
            nbits |-> 0, wbits |-> 0]

\* The bits left in a window that was not filled.
RemainingBits(st, w, W1, N, mm) ==
  LET Y[i \in 0..st.nbits] ==
        IF i = 0 THEN st.X
        ELSE With(MpiMontmul(Y[i - 1], Y[i - 1], N, mm), LAMBDA sq :
               IF (st.wbits \div 2^(w - i)) % 2 = 1 THEN MpiMontmul(sq, W1, N, mm) ELSE sq)
  IN  Y[st.nbits]

\* X = A^E mod N; a negative A's power is taken from N whatever E is.
MpiExpMod(A, E, N) ==
  LET mm == MpiMontgInit(N)
      w == BnWindow(MpiMsb(E))
      n == Len(N.p)
      bits == Len(E.p) * BiL
      Apos == IF A.s = -1 THEN WithSign(MpiCopy(A), 1) ELSE A
      reduced == IF MpiCmpMpi(Apos, N) >= 0 THEN MpiModMpi(Apos, N).R ELSE MpiCopy(Apos) IN
  With(MpiModMpi(MpiShiftL(MpiLset(1), 2 * n * BiL), N).R, LAMBDA RR :
  With(MpiMontmul(MpiGrow(reduced, n + 1), RR, N, mm), LAMBDA W1 :
  With(Windows(W1, w, N, mm), LAMBDA W :
  LET st[k \in 0..bits] ==
        IF k = 0 THEN [X |-> MpiMontred(MpiGrow(MpiCopy(RR), n + 1), N, mm),
                       state |-> 0, nbits |-> 0, wbits |-> 0]
        ELSE ExpBit(st[k - 1], MpiGetBit(E, bits - k), w, W, N, mm) IN
  With(MpiMontred(RemainingBits(st[bits], w, W1, N, mm), N, mm), LAMBDA X :
    IF MpiCmpInt(N, 0) < 0 \/ N.p[1] % 2 = 0 \/ MpiCmpInt(E, 0) < 0 THEN [ret |-> "bad input"]
    ELSE [ret |-> "ok", X |-> IF A.s = -1 THEN MpiAddMpi(N, WithSign(X, -1), FALSE) ELSE X]))))

\* The two numbers' turns until the first is zero; the greatest common divisor of A and 0
\* comes out as 0.
RECURSIVE GcdTurn(_, _)
GcdTurn(TA, TB) ==
  IF MpiCmpInt(TA, 0) = 0 THEN TB
  ELSE LET a == MpiShiftR(TA, MpiLsb(TA))
           b == MpiShiftR(TB, MpiLsb(TB))
       IN  IF MpiCmpMpi(a, b) >= 0 THEN GcdTurn(MpiShiftR(MpiSubAbs(a, b), 1), b)
           ELSE GcdTurn(a, MpiShiftR(MpiSubAbs(b, a), 1))
MpiGcd(A, B) ==
  LET lz == IF MpiLsb(B) < MpiLsb(A) THEN MpiLsb(B) ELSE MpiLsb(A)
  IN  MpiCopy(MpiShiftL(GcdTurn(WithSign(MpiShiftR(A, lz), 1), WithSign(MpiShiftR(B, lz), 1)), lz))

Odd(X) == X.p[1] % 2 = 1
\* t is halved until it is odd, and its two factors u with it.
RECURSIVE Halved(_, _, _)
Halved(t, TA, TB) ==
  With(IF Odd(t.u1) \/ Odd(t.u2) THEN MpiAddMpi(t.u1, TB, FALSE) ELSE t.u1, LAMBDA u1 :
  With(IF Odd(t.u1) \/ Odd(t.u2) THEN MpiSubMpi(t.u2, TA) ELSE t.u2, LAMBDA u2 :
    IF Odd(t.t) THEN t
    ELSE Halved([t |-> MpiShiftR(t.t, 1), u1 |-> MpiShiftR(u1, 1), u2 |-> MpiShiftR(u2, 1)], TA,
                TB)))
\* The two triples U and V until U's number is 0; V's first factor is the inverse.
RECURSIVE InvTurn(_, _, _, _)
InvTurn(U, V, TA, TB) ==
  LET u == Halved(U, TA, TB) IN
  With(Halved(V, TA, TB), LAMBDA v :
  LET less(a, b) == [t |-> MpiSubMpi(a.t, b.t), u1 |-> MpiSubMpi(a.u1, b.u1),
                     u2 |-> MpiSubMpi(a.u2, b.u2)] IN
    IF MpiCmpMpi(u.t, v.t) < 0 THEN InvTurn(u, less(v, u), TA, TB)
    ELSE IF MpiCmpInt(less(u, v).t, 0) = 0 THEN v.u1 ELSE InvTurn(less(u, v), v, TA, TB))
RECURSIVE IntoModulus(_, _)
IntoModulus(X, N) ==
  IF MpiCmpInt(X, 0) < 0 THEN IntoModulus(MpiAddMpi(X, N, FALSE), N)
  ELSE IF MpiCmpMpi(X, N) >= 0 THEN IntoModulus(MpiSubMpi(X, N), N) ELSE X

\* X = 1 / A mod N.  To the modulus 1 the halving of 0 never ends.
MpiInvMod(A, N) ==
  With(MpiModMpi(A, N).R, LAMBDA TA :
  LET triple(t, u1, u2) == [t |-> t, u1 |-> MpiLset(u1), u2 |-> MpiLset(u2)] IN
    IF MpiCmpInt(N, 0) <= 0 THEN [ret |-> "bad input"]
    ELSE IF MpiCmpInt(MpiGcd(A, N), 1) # 0 THEN [ret |-> "not acceptable"]
    ELSE IF MpiCmpInt(TA, 0) = 0 THEN [ret |-> "never"]
    ELSE [ret |-> "ok",
          X |-> MpiCopy(IntoModulus(InvTurn(triple(TA, 1, 0), triple(N, 0, 1), TA, N), N))])

-----------------------------------------------------------------------------
(* Primes *)

MpiFillRandom(size, draw) == Mpi(1, LimbSeq(size, LAMBDA i : (draw \div Base^(i - 1)) % Base))
\* The lowest two bits set.
OrThree(X) == [X EXCEPT !.p[1] = @ + (3 - (@ % 4))]

\* The base of a round of the test, from what the random generator gave.
MillerBase(X, W, draw) ==
  LET A == MpiFillRandom(Len(X.p), draw)
  IN  OrThree(IF MpiCmpMpi(A, W) >= 0 THEN MpiShiftR(A, MpiMsb(A) - MpiMsb(W) + 1) ELSE A)

\* One turn of a round: 1 and X - 1 stay as they are.
Squared(B, X, W) ==
  IF MpiCmpMpi(B, W) = 0 \/ MpiCmpInt(B, 1) = 0 THEN B ELSE MpiModMpi(MpiMulMpi(B, B), X).R

\* Whether X passes a round; W is X - 1 and s the number of its low zero bits.
MillerRound(X, W, s, A0) ==
  With(MpiExpMod(A0, MpiShiftR(MpiCopy(W), s), X).X, LAMBDA first :
  LET A[j \in 1..s] == IF j = 1 THEN first ELSE Squared(A[j - 1], X, W)
  IN  MpiCmpInt(first, 1) = 0 \/ MpiCmpMpi(A[s], W) = 0)

\* The answer, and X, whose sign is left off by the answers given early.
MpiIsPrime(X0, draws) ==
  LET X == WithSign(X0, 1)
      W == MpiSubInt(X, 1)
      s == MpiLsb(W)
      \* The first small prime that decides.
      decides == {i \in DOMAIN BnSmallPrimes : \/ MpiCmpInt(X, BnSmallPrimes[i]) <= 0
                                               \/ MpiModInt(X, BnSmallPrimes[i]) = 0}
      first == CHOOSE i \in decides : \A j \in decides : i <= j
      answer(prime, Y) == [prime |-> prime, X |-> Y]
  IN  IF MpiCmpInt(X0, 0) = 0 \/ MpiCmpInt(X0, 1) = 0 THEN answer(FALSE, X0)
      ELSE IF MpiCmpInt(X0, 2) = 0 THEN answer(TRUE, X0)
      ELSE IF ~Odd(X) THEN answer(FALSE, X)
      ELSE IF decides # {} THEN answer(MpiCmpInt(X, BnSmallPrimes[first]) <= 0, X)
      ELSE answer(\A i \in 1..BnRounds : MillerRound(X, W, s, MillerBase(X, W, draws[i])), X0)

\* A number of nbits bits that ends in 3, where the random one is not 0.
MpiFirstCandidate(nbits, draw) ==
  LET X == MpiFillRandom((nbits + BiL - 1) \div BiL, draw)
      k == MpiMsb(X)
  IN  OrThree(IF k < nbits THEN MpiShiftL(X, nbits - k)
              ELSE IF k > nbits THEN MpiShiftR(X, k - nbits)
              ELSE X)

-----------------------------------------------------------------------------
(* Two registers, and a prime being looked for *)

Registers == {"x", "y"}
NoCandidate == [on |-> FALSE, X |-> MpiLset(0), Y |-> MpiLset(0), nbits |-> 0, dh |-> FALSE]
BnNone == [op |-> "none", a |-> 0, b |-> 0, r |-> 0, ok |-> TRUE]

BnInit ==
  /\ \E start \in BnStart : bnReg = [x |-> FromInt(start[1]), y |-> FromInt(start[2])]
  /\ bnOp = BnNone
  /\ bnOps = 0
  /\ bnPrime = NoCandidate

BnReady == bnOps < BnMaxOps /\ ~bnPrime.on

\* Register t gets X, as the result of op on the integers a and b.
Performed(op, a, b, t, X, ok) ==
  /\ BnReady
  /\ MpiMsb(X) <= BnMaxBits
  /\ bnReg' = [bnReg EXCEPT ![t] = X]
  /\ bnOp' = [op |-> op, a |-> a, b |-> b, r |-> ValueOf(X), ok |-> ok]
  /\ bnOps' = bnOps + 1
  /\ UNCHANGED bnPrime

Val(r) == ValueOf(bnReg[r])

BnAdd == \E t, a, b \in Registers :
  Performed("add", Val(a), Val(b), t, MpiAddMpi(bnReg[a], bnReg[b], t = a /\ a = b),
            ~(t = a /\ a = b))
BnSub == \E t, a, b \in Registers : Performed("sub", Val(a), Val(b), t,
                                              MpiSubMpi(bnReg[a], bnReg[b]), TRUE)
BnAddInt == \E t \in Registers, b \in BnDigits : Performed("add", Val(t), b, t,
                                                           MpiAddInt(bnReg[t], b), TRUE)
BnSubInt == \E t \in Registers, b \in BnDigits : Performed("sub", Val(t), b, t,
                                                           MpiSubInt(bnReg[t], b), TRUE)
BnMul == \E t, a, b \in Registers : Performed("mul", Val(a), Val(b), t,
                                              MpiMulMpi(bnReg[a], bnReg[b]), TRUE)
BnMulInt == \E t \in Registers, b \in {n \in BnDigits : n >= 0} : Performed("mul", Val(t), b, t,
                                                                            MpiMulInt(bnReg[t],
                                                                                      b), TRUE)
BnShiftL == \E t \in Registers, c \in BnShifts : Performed("mul", Val(t), 2^c, t,
                                                           MpiShiftL(bnReg[t], c), TRUE)
BnShiftR == \E t \in Registers, c \in BnShifts : Performed("shift", Val(t), 2^c, t,
                                                           MpiShiftR(bnReg[t], c), TRUE)
BnSetBit == \E t \in Registers, c \in BnShifts, v \in {0, 1} :
  Performed("bit", Val(t), IF MpiGetBit(bnReg[t], c) = v THEN 0 ELSE (2 * v - 1) * 2^c, t,
            MpiSetBit(bnReg[t], c, v), TRUE)
BnDiv == BnReady /\ \E d \in {MpiDivMpi(bnReg["x"], bnReg["y"])} :
  /\ d.ret = "ok"
  /\ \E t \in Registers :
       Performed("div", Val("x"), Val("y"), t, d.Q,
                 ValueOf(d.Q) * Val("y") + ValueOf(d.R) = Val("x"))
BnDivInt == BnReady /\ \E t \in Registers, b \in BnDigits \ {0} :
  \E d \in {MpiDivInt(bnReg[t], b)} :
    Performed("div", Val(t), b, t, d.Q, ValueOf(d.Q) * b + ValueOf(d.R) = Val(t))
BnMod == BnReady /\ \E d \in {MpiModMpi(bnReg["x"], bnReg["y"])} :
  /\ d.ret = "ok"
  /\ \E t \in Registers : Performed("mod", Val("x"), Val("y"), t, d.R, TRUE)
BnModInt == \E t \in Registers, b \in BnDigits \cap 1..2^BiH :
  Performed("mod", Val(t), b, t, MpiLset(MpiModInt(bnReg[t], b)), TRUE)
\* The larger of the two.
BnCompare == \E t \in Registers :
  Performed("max", Val("x"), Val("y"), t,
            MpiCopy(IF MpiCmpMpi(bnReg["x"],
                                 bnReg["y"]) >= 0 THEN bnReg["x"] ELSE bnReg["y"]), TRUE)
BnGcd == Performed("gcd", Val("x"), Val("y"), "x", MpiGcd(bnReg["x"], bnReg["y"]), TRUE)
BnInvMod ==
  /\ BnReady /\ MpiMsb(bnReg["y"]) <= BnModulusBits
  /\ \E i \in {MpiInvMod(bnReg["x"], bnReg["y"])} :
       IF i.ret = "ok" THEN Performed("inverse", Val("x"), Val("y"), "x", i.X, TRUE)
       ELSE Performed("no inverse", Val("x"), Val("y"), "x", bnReg["x"], i.ret # "never")
BnExpMod == \E e \in {n \in BnDigits : n >= 0} :
  /\ BnReady /\ MpiMsb(bnReg["y"]) <= BnModulusBits
  /\ \E p \in {MpiExpMod(bnReg["x"], FromInt(e), bnReg["y"])} :
       p.ret = "ok" /\ Performed("power", Val("x"), e, "x", p.X, TRUE)
BnText == BnReady /\ \E t \in Registers, radix \in BnRadices :
  \E w \in {MpiWriteString(bnReg[t], radix)} :
    Performed("text", Val(t), radix, t, MpiReadString(radix, w.text).X, Len(w.text) + 1 <= w.room)
BnFile == \E t \in Registers, radix \in BnRadices :
  Performed("file", Val(t), radix, t, MpiReadFile(radix, MpiWriteFile(bnReg[t], radix)).X, TRUE)
BnBinary == \E t \in Registers, more \in {0, 1} :
  Performed("binary", Val(t), 0, t,
            MpiReadBinary(MpiWriteBinary(bnReg[t], MpiSize(bnReg[t]) + more).buf), TRUE)
BnIsPrime == \E draws \in [1..BnRounds -> BnDraws] :
  /\ BnReady /\ MpiMsb(bnReg["x"]) <= BnModulusBits
  /\ \E p \in {MpiIsPrime(bnReg["x"], draws)}, X \in {WithSign(bnReg["x"], 1)} :
       Performed(IF p.prime THEN "prime" ELSE "not prime", Val("x"), 0, "x", p.X,
         \A i \in DOMAIN draws :       \* no base is a multiple of X
           MpiCmpInt(X,
                     1) > 0 => ValueOf(MillerBase(X, MpiSubInt(X, 1), draws[i])) % ValueOf(X) # 0)

\* The registers play no part in it, so both are 0; a draw of nothing but zeros is left out.
BnGenPrime == \E nbits \in BnPrimeBits, dh \in BOOLEAN, draw \in BnDraws \ {0} :
  LET X == MpiFirstCandidate(nbits, draw)
  IN  /\ bnOps = 0 /\ Val("x") = 0 /\ Val("y") = 0
      /\ ~bnPrime.on
      /\ bnPrime' = [on |-> TRUE, X |-> X, Y |-> MpiShiftR(MpiSubInt(X, 1), 1), nbits |-> nbits,
                     dh |-> dh]
      /\ UNCHANGED <<bnReg, bnOp, bnOps>>

\* A candidate is tried; one that is refused is followed by the next that is 3 modulo 4 or 1.
BnTryPrime == \E draws, more \in [1..BnRounds -> BnDraws] :
  /\ bnPrime.on
  /\ \E X \in {bnPrime.X} :
    /\ IF \A try \in {<<X, draws>>} \cup (IF bnPrime.dh THEN {<<bnPrime.Y, more>>} ELSE {}) :
            MpiIsPrime(try[1], try[2]).prime
       THEN /\ bnPrime' = NoCandidate
            /\ bnOp' = [op |-> "generated", a |-> bnPrime.nbits, b |-> IF bnPrime.dh THEN 1 ELSE 0,
                        r |-> ValueOf(X), ok |-> TRUE]
            /\ bnOps' = BnMaxOps
       ELSE /\ bnPrime' = [bnPrime EXCEPT !.X = MpiAddInt(X, 2),
                           !.Y = MpiShiftR(MpiAddInt(X, 1), 1)]
            /\ UNCHANGED <<bnOp, bnOps>>
    /\ MpiMsb(X) <= BnMaxBits
    /\ UNCHANGED bnReg

BnSums == BnAdd \/ BnSub \/ BnAddInt \/ BnSubInt \/ BnMul \/ BnMulInt \/ BnCompare
          \/ BnShiftL \/ BnShiftR \/ BnSetBit
BnQuotients == BnDiv \/ BnDivInt \/ BnMod \/ BnModInt
BnToModulus == BnGcd \/ BnInvMod \/ BnExpMod
BnTexts == BnText \/ BnFile \/ BnBinary
BnPrimality == BnIsPrime \/ BnGenPrime \/ BnTryPrime

BnNext == BnSums \/ BnQuotients \/ BnToModulus \/ BnTexts \/ BnPrimality

-----------------------------------------------------------------------------
(* Properties *)

AbsOf(z) == IF z < 0 THEN -z ELSE z
SignOf(z) == IF z < 0 THEN -1 ELSE 1
GcdOf(a, b) == LET g[m \in Nat, n \in Nat] == IF n = 0 THEN m ELSE g[n, m % n] IN g[a, b]
PowerOf(a, e, n) == LET p[i \in 0..e] == IF i = 0 THEN 1 % n ELSE (p[i - 1] * (a % n)) % n IN p[e]
PrimeNumber(z) == z > 1 /\ \A d \in 2..2^((BnModulusBits + 1) \div 2) : d * d > z \/ z % d # 0

\* What limb arithmetic with its carries, borrows and guessed quotient digits gives is what integers
\* give, in every order of calls, whatever leading zeros and signed zeros the earlier ones left
\* and whichever operand is the result's own object; only X = X + X is left out (bignum.c:717-765).
BnLikeIntegers ==
  LET o == bnOp
  IN  /\ o.op = "add" /\ o.ok => o.r = o.a + o.b
      /\ o.op = "sub" => o.r = o.a - o.b
      /\ o.op = "mul" => o.r = o.a * o.b
      /\ o.op = "shift" => o.r = SignOf(o.a) * (AbsOf(o.a) \div o.b)
      /\ o.op = "bit" => AbsOf(o.r) = AbsOf(o.a) + o.b
      /\ o.op = "div" => o.ok /\ o.r = SignOf(o.a) * SignOf(o.b) * (AbsOf(o.a) \div AbsOf(o.b))
      /\ o.op = "mod" => o.r = o.a % o.b
      /\ o.op = "max" => o.r = LargerOf(o.a, o.b)

\* A greatest common divisor, an inverse and a power to a modulus are what they are called,
\* by the binary algorithms and Montgomery's product with a sliding window: of a negative
\* number, and of the zero with a minus, only odd powers, and of 0 as the second operand no
\* divisor (bignum.c:1392-1745).
BnModular ==
  LET o == bnOp
      N == Val("y")
  IN  /\ o.op = "gcd" /\ o.b # 0 => o.r = GcdOf(AbsOf(o.a), AbsOf(o.b))
      /\ o.op = "inverse" => o.r \in 0..(o.b - 1) /\ (o.r * (o.a % o.b)) % o.b = 1
      /\ o.op = "no inverse" => o.b <= 1 \/ o.a = 0 \/ GcdOf(AbsOf(o.a), o.b) # 1
      /\ o.op = "power" => /\ o.r \in 0..(IF o.a <= 0 THEN N ELSE N - 1)
                           /\ o.a > 0 \/ o.b % 2 = 1 => o.r % N = PowerOf(o.a, o.b, N)

\* A number comes back from its text and its bytes, and its text fits the size its caller was
\* told to have room for, a negative number's hexadecimal text aside; a file keeps no sign
\* (bignum.c:274-543).
BnReadsBack ==
  LET o == bnOp
  IN  /\ o.op = "text" => o.r = o.a /\ (o.ok \/ (o.a <= 0 /\ o.b = 16))
      /\ o.op \in {"file", "binary"} => o.r = AbsOf(o.a)

\* A prime is refused only for a base that is a multiple of it, what is accepted has no small
\* factor (of the negative numbers -1 passes and -2 does not), and a generated prime has the
\* bits asked for, or one more (bignum.c:1780-1960).
BnPrimes ==
  LET o == bnOp
      small == {BnSmallPrimes[i] : i \in DOMAIN BnSmallPrimes}
      good(z) == (AbsOf(z) > 1 \/ z = -1) /\ \A p \in small : AbsOf(z) % p = 0 => AbsOf(z) = p
  IN  /\ o.op = "not prime" /\ o.ok => ~PrimeNumber(AbsOf(o.a)) \/ o.a = -2
      /\ o.op = "prime" => good(o.a)
      /\ o.op = "generated" => /\ good(o.r) /\ o.r % 2 = 1
                               /\ o.b = 1 => good((o.r - 1) \div 2) /\ o.r % 4 = 3
                               /\ Bits(o.r) \in {o.a, o.a + 1}

BnTypeOK ==
  /\ \A r \in Registers : /\ bnReg[r].s \in {-1, 1}
                          /\ \A i \in DOMAIN bnReg[r].p : bnReg[r].p[i] \in 0..(Base - 1)
  /\ bnOps \in 0..BnMaxOps
  /\ bnPrime.on \in BOOLEAN

=============================================================================
