---------------------------- MODULE LibraryProofs ----------------------------
(* Proofs about two parts of Library.  Random, for any sources, thresholds and  *)
(* lengths: what a seed is made of follows from the two counts of a source's    *)
(* bytes being the same, what it has given and what lies unhashed in the        *)
(* accumulator.  RecordProtection, for any suites, versions, lengths and number *)
(* of records and faults: a MAC covers the counter, so what it accepts is the   *)
(* next record; and what nobody touched decrypts to what it was made of.        *)
EXTENDS Random, RecordProtection, SequenceTheorems, FiniteSetTheorems, WellFoundedInduction, TLAPS

-----------------------------------------------------------------------------
(* Induction over the natural numbers, with sets for predicates *)

\* Every set of natural numbers that is not empty has a least element.
LEMMA Least ==
  ASSUME NEW T \in SUBSET Nat, T # {}
  PROVE  \E x \in T : \A y \in T : x <= y
<1>1. IsWellFoundedOn(OpToRel(<, Nat), Nat)
      BY NatLessThanWellFounded
<1>2. PICK x \in T : \A y \in T : ~ (<<y, x>> \in OpToRel(<, Nat))
      BY <1>1, WFMin
<1>3. \A y \in T : <<y, x>> \in OpToRel(<, Nat) <=> y < x
      BY DEF OpToRel
<1>4. \A y \in T : ~(y < x)
      BY <1>2, <1>3
<1>5. \A y \in T : x <= y
      BY <1>4
<1> QED
  BY <1>5

\* Induction over the natural numbers, for a set.
LEMMA ByInduction ==
  ASSUME NEW T \in SUBSET Nat, 0 \in T, \A n \in T : n + 1 \in T
  PROVE  \A n \in Nat : n \in T
<1>1. SUFFICES ASSUME Nat \ T # {} PROVE FALSE
      OBVIOUS
<1>2. PICK x \in Nat \ T : \A y \in Nat \ T : x <= y
      BY <1>1, Least
<1>3. x # 0 /\ x - 1 \in Nat /\ ~(x <= x - 1) /\ (x - 1) + 1 = x
      BY <1>2
<1>4. x - 1 \in T
      BY <1>2, <1>3
<1> QED
  BY <1>2, <1>3, <1>4

\* A recursive definition of numbers defines something.
LEMMA Recursion ==
  ASSUME NEW n \in Nat, NEW a \in Nat, NEW F \in [Nat -> [Nat -> Nat]]
  PROVE  \E h \in [0..n -> Nat] : h[0] = a /\ \A i \in 1..n : h[i] = F[i][h[i - 1]]
<1> DEFINE Is(h, m) == /\ h \in [0..m -> Nat]
                       /\ h[0] = a
                       /\ \A i \in 1..m : h[i] = F[i][h[i - 1]]
           T == {m \in Nat : \E h : Is(h, m)}
<1>1. 0 \in T
  <2>1. Is([i \in 0..0 |-> a], 0)
        OBVIOUS
  <2> QED
    BY <2>1
<1>2. ASSUME NEW m \in T PROVE m + 1 \in T
  <2>1. m \in Nat /\ \E h : Is(h, m)
        OBVIOUS
  <2>2. PICK h \in [0..m -> Nat] : h[0] = a /\ \A i \in 1..m : h[i] = F[i][h[i - 1]]
        BY <2>1
  <2> DEFINE k == [i \in 0..(m + 1) |-> IF i = m + 1 THEN F[i][h[m]] ELSE h[i]]
  <2> HIDE DEF T
  <2>3. k \in [0..(m + 1) -> Nat] /\ k[0] = a
    <3>1. h[m] \in Nat /\ m + 1 \in Nat
          BY <2>1
    <3>2. F[m + 1] \in [Nat -> Nat]
          BY <3>1
    <3>3. F[m + 1][h[m]] \in Nat
          BY <3>1, <3>2
    <3>4. \A i \in 0..(m + 1) : i # m + 1 => i \in 0..m
          BY <2>1
    <3>5. 0 # m + 1 /\ 0 \in 0..(m + 1)
          BY <2>1
    <3> QED
      BY <2>2, <3>3, <3>4, <3>5
  <2>4. ASSUME NEW i \in 1..(m + 1) PROVE k[i] = F[i][k[i - 1]]
    <3>1. i - 1 \in 0..m /\ i - 1 \in 0..(m + 1) /\ i - 1 # m + 1 /\ i \in 0..(m + 1)
          BY <2>1
    <3>2. k[i - 1] = h[i - 1]
          BY <3>1
    <3>3. CASE i = m + 1
          BY <2>1, <3>1, <3>2, <3>3
    <3>4. CASE i # m + 1
      <4>1. i \in 1..m
            BY <2>1, <3>4
      <4>2. k[i] = h[i] /\ h[i] = F[i][h[i - 1]]
            BY <2>2, <3>1, <3>4, <4>1
      <4> QED
        BY <3>2, <4>2
    <3> QED
      BY <3>3, <3>4
  <2> HIDE DEF k
  <2>5. m + 1 \in Nat
        BY <2>1
  <2>6. Is(k, m + 1)
        BY <2>3, <2>4
  <2> QED
    BY <2>5, <2>6 DEF T
<1>3. \A m \in Nat : m \in T
  <2> HIDE DEF T
  <2>1. T \in SUBSET Nat
        BY DEF T
  <2> QED
    BY <1>1, <1>2, <2>1, ByInduction
<1> QED
  BY <1>3

-----------------------------------------------------------------------------
(* Random *)

\* The generator alone, as Library runs it.
RdSpec == RdInit /\ [][RdNext]_rdVars

\* No byte that counts for a threshold has left the accumulator.
PoolHoldsSize == rdPool = rdSize

\* Once there was a seed the counter is one ahead of the requests, and a request is
\* answered at once only while the counter is within the interval.
CountsRequests ==
  /\ rdCount \in Nat /\ rdSince \in Nat
  /\ rdCount = rdSince \/ rdCount = rdSince + 1
  /\ rdCount = rdSince + 1 => rdSince <= RdInterval

\* A call that waits for a seed brings an input that fits behind it.
CallFits == Waiting => /\ rdCall.add \in Nat
                       /\ RdEntropyLen + rdCall.add <= RdMaxSeed

\* Every seed was drawn from fresh entropy of every source: a poll adds to both
\* counts what it gave, also when a later source fails, and a seed clears both
\* (entropy_gather, entropy_func).
THEOREM FreshEntropyAlways == RdSpec => []RdFreshEntropy
<1> DEFINE Inv == PoolHoldsSize /\ RdFreshEntropy
<1>1. RdInit => Inv
  BY RdAssumption DEF RdInit, PoolHoldsSize, RdFreshEntropy, SourceIds
<1>2. Inv /\ [RdNext]_rdVars => Inv'
  <2> SUFFICES ASSUME Inv, [RdNext]_rdVars PROVE Inv'
    OBVIOUS
  <2>1. CASE UNCHANGED entropyVars
    BY <2>1 DEF entropyVars, PoolHoldsSize, RdFreshEntropy
  <2>2. CASE Gather
    BY <2>2 DEF Gather, PoolHoldsSize, RdFreshEntropy
  <2>3. CASE Seed
    BY <2>3 DEF Seed, Reached, SizesCleared, PoolHoldsSize, RdFreshEntropy
  <2> QED
    BY <2>1, <2>2, <2>3
    DEF RdNext, rdVars, CtrDrbgInit, CtrDrbgUpdate, RandomWithAdd, SetPredictionResistance,
        GatherFails
<1>3. Inv => RdFreshEntropy
  OBVIOUS
<1> QED
  BY <1>1, <1>2, <1>3, PTL DEF RdSpec

\* No seed serves more requests than the interval, if that is one at least: the request
\* that has a seed drawn is answered from it without another look at the counter
\* (ctr_drbg_random_with_add).
THEOREM SeedNotWornOutAlways ==
  ASSUME RdInterval >= 1
  PROVE  RdSpec => []RdSeedNotWornOut
<1>1. RdInit => CountsRequests
  BY DEF RdInit, CountsRequests
<1>2. CountsRequests /\ [RdNext]_rdVars => CountsRequests'
  <2> SUFFICES ASSUME CountsRequests, [RdNext]_rdVars PROVE CountsRequests'
    OBVIOUS
  <2>1. CASE rdCount' = rdCount /\ rdSince' = rdSince
    BY <2>1 DEF CountsRequests
  <2>2. ASSUME NEW out \in RdRequests, NEW add \in RdInputs, RandomWithAdd(out, add)
        PROVE  CountsRequests'
    <3>1. CASE ~ReseedDue /\ rdCount' = rdCount + 1 /\ rdSince' = rdSince + 1
      BY <3>1, RdAssumption DEF CountsRequests, ReseedDue
    <3> QED
      BY <2>1, <2>2, <3>1 DEF RandomWithAdd, drbgVars
  <2>3. CASE Seed
    <3>1. \/ rdCount' = 1 /\ rdSince' = 0
          \/ rdCount' = 2 /\ rdSince' = 1
      BY <2>3 DEF Seed
    <3> QED
      BY <3>1, RdAssumption DEF CountsRequests
  <2> QED
    BY <2>1, <2>2, <2>3
    DEF RdNext, rdVars, drbgVars, CtrDrbgInit, CtrDrbgUpdate, SetPredictionResistance,
        Gather, GatherFails
<1>3. CountsRequests => RdSeedNotWornOut
  BY DEF CountsRequests, RdSeedNotWornOut
<1> QED
  BY <1>1, <1>2, <1>3, PTL DEF RdSpec

\* What block_cipher_df reads ends at most 31 bytes behind its input: its buffer holds it
\* when the longest input is whole blocks.
LEMMA WholeBlocksFit ==
  ASSUME RdMaxSeed % 16 = 0, NEW len \in Nat, len <= RdMaxSeed
  PROVE  DfFits(len)
  BY RdAssumption DEF DfFits

\* Whatever is called in whatever order, only ctr_drbg_update, which checks no length,
\* makes block_cipher_df leave its buffer, and only with an input longer than the longest
\* seed input.  It needs what ctr_drbg.h's own values have: the longest seed input is
\* whole blocks, and not shorter than the longest additional input.
THEOREM ReadsInBufferAlways ==
  ASSUME RdMaxSeed % 16 = 0, RdMaxInput <= RdMaxSeed
  PROVE  RdSpec => []RdReadsInBuffer
<1>1. RdInit => CallFits
  BY DEF RdInit, CallFits, Waiting
<1>2. CallFits /\ [RdNext]_rdVars => CallFits'
  <2> SUFFICES ASSUME CallFits, [RdNext]_rdVars PROVE CallFits'
    OBVIOUS
  <2>1. CASE rdCall' = rdCall \/ rdCall' = Idle
    BY <2>1 DEF CallFits, Waiting
  <2>2. ASSUME NEW call, call.add \in Nat, BeginReseed(call) PROVE CallFits'
    <3>1. CASE RdEntropyLen + call.add > RdMaxSeed \/ RdEntropyLen > 64
      BY <2>1, <2>2, <3>1 DEF BeginReseed, Return
    <3>2. CASE ~(RdEntropyLen + call.add > RdMaxSeed \/ RdEntropyLen > 64)
      BY <2>2, <3>2, RdAssumption DEF BeginReseed, CallFits, Waiting
    <3> QED
      BY <3>1, <3>2
  <2>3. ASSUME NEW custom \in RdInputs, CtrDrbgInit(custom) PROVE CallFits'
    <3>1. InitCall(custom).add \in Nat
      BY RdAssumption DEF InitCall
    <3> QED
      BY <2>2, <2>3, <3>1 DEF CtrDrbgInit
  <2>4. ASSUME NEW out \in RdRequests, NEW add \in RdInputs, RandomWithAdd(out, add)
        PROVE  CallFits'
    <3>1. [out |-> out, add |-> add].add \in Nat
      BY RdAssumption
    <3> QED
      BY <2>1, <2>2, <2>4, <3>1 DEF RandomWithAdd, Return
  <2>5. ASSUME NEW add \in RdInputs, CtrDrbgUpdate(add) PROVE CallFits'
    BY <2>1, <2>5 DEF CtrDrbgUpdate, Return
  <2>6. CASE SetPredictionResistance \/ Gather \/ GatherFails \/ Seed
    BY <2>1, <2>6 DEF SetPredictionResistance, Gather, GatherFails, Seed, Return
  <2> QED
    BY <2>1, <2>3, <2>4, <2>5, <2>6 DEF RdNext, rdVars
<1>3. RdInit => RdReadsInBuffer
  BY DEF RdInit, RdReadsInBuffer
<1>4. CallFits /\ RdReadsInBuffer /\ [RdNext]_rdVars => RdReadsInBuffer'
  <2> SUFFICES ASSUME CallFits, RdReadsInBuffer, [RdNext]_rdVars PROVE RdReadsInBuffer'
    OBVIOUS
  <2>1. CASE UNCHANGED rdOver
    BY <2>1 DEF RdReadsInBuffer
  <2>2. ASSUME NEW out \in RdRequests, NEW add \in RdInputs, RandomWithAdd(out, add)
        PROVE  RdReadsInBuffer'
    <3>1. CASE add <= RdMaxInput
      <4>1. DfFits(add)
        BY <3>1, WholeBlocksFit, RdAssumption
      <4> QED
        BY <2>1, <2>2, <4>1 DEF RandomWithAdd, BlockCipherDf
    <3>2. CASE ~ (add <= RdMaxInput)
      BY <2>1, <2>2, <3>2, RdAssumption DEF RandomWithAdd
    <3> QED
      BY <3>1, <3>2
  <2>3. ASSUME NEW add \in RdInputs, CtrDrbgUpdate(add) PROVE RdReadsInBuffer'
    <3>1. add \in Nat /\ (~ DfFits(add) => add > RdMaxSeed)
      BY WholeBlocksFit, RdAssumption
    <3> QED
      BY <2>1, <2>3, <3>1 DEF CtrDrbgUpdate, BlockCipherDf, RdReadsInBuffer
  <2>4. CASE Seed
    <3>1. DfFits(RdEntropyLen + rdCall.add)
      BY <2>4, WholeBlocksFit, RdAssumption DEF Seed, CallFits
    <3> QED
      BY <2>1, <2>4, <3>1 DEF Seed, BlockCipherDf
  <2> QED
    BY <2>1, <2>2, <2>3, <2>4
    DEF RdNext, rdVars, CtrDrbgInit, SetPredictionResistance, Gather, GatherFails
<1> QED
  BY <1>1, <1>2, <1>3, <1>4, PTL DEF RdSpec

-----------------------------------------------------------------------------
(* Random: the counter goes on round, one by one *)

\* Counting is the function its recursion says.
LEMMA CountingIs ==
  ASSUME NEW ctr, NEW n \in Nat
  PROVE  /\ Counting(ctr, n) = [i \in 0..n |-> IF i = 0 THEN ctr ELSE Increment(Counting(ctr, n)[i - 1])]
<1> DEFINE Is(h, m) == h = [i \in 0..m |-> IF i = 0 THEN ctr ELSE Increment(h[i - 1])]
           T == {m \in Nat : \E h : Is(h, m)}
<1>1. 0 \in T
  <2>1. Is([i \in 0..0 |-> ctr], 0)
        OBVIOUS
  <2> QED
    BY <2>1
<1>2. ASSUME NEW m \in T PROVE m + 1 \in T
  <2>1. PICK h : Is(h, m)
        OBVIOUS
  <2> DEFINE k == [i \in 0..(m + 1) |-> IF i = 0 THEN ctr ELSE Increment(h[i - 1])]
  <2>2. ASSUME NEW i \in 0..m PROVE k[i] = h[i]
        BY <2>1
  <2>3. ASSUME NEW i \in 0..(m + 1), i # 0 PROVE i - 1 \in 0..m
        BY <2>3
  <2>4. k = [i \in 0..(m + 1) |-> IF i = 0 THEN ctr ELSE Increment(k[i - 1])]
        BY <2>2, <2>3
  <2>5. m + 1 \in Nat /\ \E l : Is(l, m + 1)
    <3>1. Is(k, m + 1)
          BY <2>4
    <3>2. m + 1 \in Nat
          OBVIOUS
    <3> HIDE DEF k
    <3> QED
      BY <3>1, <3>2
  <2> QED
    BY <2>5
<1>3. \E h : Is(h, n)
  <2>1. \A m \in Nat : m \in T
    <3> HIDE DEF T
    <3>1. T \in SUBSET Nat
          BY DEF T
    <3> QED
      BY <1>1, <1>2, <3>1, ByInduction
  <2> QED
    BY <2>1
<1>4. Counting(ctr, n) = CHOOSE h : Is(h, n)
      BY DEF Counting
<1> QED
  BY <1>3, <1>4
\* The powers of RdDigit.
Power == CHOOSE p \in [0..RdDigits -> Nat] :
           p[0] = 1 /\ \A i \in 1..RdDigits : p[i] = RdDigit * p[i - 1]

\* The numbers that the first bytes of a counter stand for.
Value(ctr) == CHOOSE v \in [0..RdDigits -> Nat] :
                v[0] = 0 /\ \A i \in 1..RdDigits : v[i] = RdDigit * v[i - 1] + ctr[i]

\* There are such powers.
LEMMA PowerIs ==
  /\ Power \in [0..RdDigits -> Nat]
  /\ Power[0] = 1
  /\ \A i \in 1..RdDigits : Power[i] = RdDigit * Power[i - 1]
<1> DEFINE F == [i \in Nat |-> [x \in Nat |-> RdDigit * x]]
<1>1. RdDigit \in Nat /\ RdDigits \in Nat
      BY RdAssumption
<1>2. \A x \in Nat : RdDigit * x \in Nat
      BY <1>1
<1>3. F \in [Nat -> [Nat -> Nat]] /\ \A i, x \in Nat : F[i][x] = RdDigit * x
      BY <1>2
<1>4. PICK p \in [0..RdDigits -> Nat] : p[0] = 1 /\ \A i \in 1..RdDigits : p[i] = F[i][p[i - 1]]
  <2> HIDE DEF F
  <2>1. RdDigits \in Nat /\ 1 \in Nat /\ F \in [Nat -> [Nat -> Nat]]
        BY <1>1, <1>3
  <2> QED
    BY <2>1, Recursion
<1>5. \A i \in 1..RdDigits : p[i] = RdDigit * p[i - 1]
  <2> HIDE DEF F
  <2>1. \A i \in 1..RdDigits : i \in Nat /\ i - 1 \in 0..RdDigits /\ p[i - 1] \in Nat
        BY <1>1
  <2> QED
    BY <1>3, <1>4, <2>1
<1> QED
  BY <1>4, <1>5 DEF Power

\* And such numbers.
LEMMA ValueIs ==
  ASSUME NEW ctr \in Counters
  PROVE  /\ Value(ctr) \in [0..RdDigits -> Nat]
         /\ Value(ctr)[0] = 0
         /\ \A i \in 1..RdDigits : Value(ctr)[i] = RdDigit * Value(ctr)[i - 1] + ctr[i]
<1> DEFINE F == [i \in Nat |-> [x \in Nat |-> RdDigit * x + IF i \in 1..RdDigits THEN ctr[i] ELSE 0]]
<1>1. RdDigit \in Nat /\ RdDigits \in Nat
      BY RdAssumption
<1>2. \A i \in 1..RdDigits : ctr[i] \in Nat
      BY <1>1 DEF Counters
<1>3. \A x \in Nat : RdDigit * x \in Nat
      BY <1>1
<1>4. F \in [Nat -> [Nat -> Nat]] /\ \A i \in 1..RdDigits, x \in Nat : F[i][x] = RdDigit * x + ctr[i]
      BY <1>1, <1>2, <1>3
<1>5. PICK p \in [0..RdDigits -> Nat] : p[0] = 0 /\ \A i \in 1..RdDigits : p[i] = F[i][p[i - 1]]
  <2> HIDE DEF F
  <2>1. RdDigits \in Nat /\ 0 \in Nat /\ F \in [Nat -> [Nat -> Nat]]
        BY <1>1, <1>4
  <2> QED
    BY <2>1, Recursion
<1>6. \A i \in 1..RdDigits : p[i] = RdDigit * p[i - 1] + ctr[i]
  <2> HIDE DEF F
  <2>1. \A i \in 1..RdDigits : i - 1 \in 0..RdDigits /\ p[i - 1] \in Nat
        BY <1>1
  <2> QED
    BY <1>4, <1>5, <2>1
<1> QED
  BY <1>5, <1>6 DEF Value

\* The first i bytes stand for less than the power i.
LEMMA ValueBound ==
  ASSUME NEW ctr \in Counters
  PROVE  \A i \in 0..RdDigits : Value(ctr)[i] < Power[i]
<1> DEFINE T == {m \in Nat : m <= RdDigits => Value(ctr)[m] < Power[m]}
<1>1. RdDigit \in Nat /\ RdDigit >= 2 /\ RdDigits \in Nat
      BY RdAssumption
<1>2. 0 \in T
      BY ValueIs, PowerIs
<1>3. ASSUME NEW m \in T PROVE m + 1 \in T
  <2> SUFFICES ASSUME m + 1 <= RdDigits PROVE Value(ctr)[m + 1] < Power[m + 1]
    OBVIOUS
  <2>1. /\ m \in 0..RdDigits /\ m + 1 \in 1..RdDigits /\ (m + 1) - 1 = m
        /\ Value(ctr)[m] < Power[m]
        BY <1>1
  <2>2. PICK v \in Nat, p \in Nat, c \in 0..(RdDigit - 1) :
          v = Value(ctr)[m] /\ p = Power[m] /\ c = ctr[m + 1]
        BY <2>1, ValueIs, PowerIs DEF Counters
  <2>3. Value(ctr)[m + 1] = RdDigit * v + c /\ Power[m + 1] = RdDigit * p
        BY <2>1, <2>2, ValueIs, PowerIs
  <2>4. PICK d \in Nat : p = v + 1 + d
    <3>1. p - v - 1 \in Nat /\ p = v + 1 + (p - v - 1)
          BY <2>1, <2>2
    <3> QED
      BY <3>1
  <2>5. RdDigit * p = RdDigit * v + RdDigit + RdDigit * d /\ RdDigit * d >= 0 /\ RdDigit * v \in Nat
        BY <1>1, <2>4
  <2> QED
    BY <1>1, <2>2, <2>3, <2>5
<1>4. \A m \in Nat : m \in T
  <2> HIDE DEF T
  <2>1. T \in SUBSET Nat
        BY DEF T
  <2> QED
    BY <1>2, <1>3, <2>1, ByInduction
<1> QED
  BY <1>1, <1>4

\* The next counter is one.
LEMMA IncrementType ==
  ASSUME NEW ctr \in Counters
  PROVE  Increment(ctr) \in Counters
<1>1. RdDigit \in Nat /\ RdDigit >= 2
      BY RdAssumption
<1>2. \A i \in 1..RdDigits : ctr[i] \in 0..(RdDigit - 1)
      BY DEF Counters
<1>3. \A x \in 0..(RdDigit - 1) : (x + 1) % RdDigit \in 0..(RdDigit - 1)
      BY <1>1
<1> QED
  BY <1>2, <1>3 DEF Increment, Counters
\* Only where all bytes from i + 1 on are the largest a carry arrives at i.
Carried(ctr, i) == \A j \in (i + 1)..RdDigits : ctr[j] = RdDigit - 1

\* What Increment makes of the value: one more, or 0 when it was the largest.
LEMMA IncrementValue ==
  ASSUME NEW ctr \in Counters
  PROVE  LET v == Value(ctr)[RdDigits]
             w == Value(Increment(ctr))[RdDigits]
         IN  w = v + 1 \/ (v + 1 = Power[RdDigits] /\ w = 0)
<1> DEFINE inc == Increment(ctr)
           v == Value(ctr)
           w == Value(inc)
<1>1. RdDigit \in Nat /\ RdDigit >= 2 /\ RdDigits \in Nat
      BY RdAssumption
<1>2. /\ inc \in Counters
      /\ \A i \in 1..RdDigits : ctr[i] \in 0..(RdDigit - 1)
      /\ \A i \in 1..RdDigits : inc[i] = IF Carried(ctr, i) THEN (ctr[i] + 1) % RdDigit ELSE ctr[i]
      BY IncrementType DEF Increment, Counters, Carried
<1>3. /\ v \in [0..RdDigits -> Nat] /\ v[0] = 0
      /\ \A i \in 1..RdDigits : v[i] = RdDigit * v[i - 1] + ctr[i]
      BY ValueIs
<1>4. /\ w \in [0..RdDigits -> Nat] /\ w[0] = 0
      /\ \A i \in 1..RdDigits : w[i] = RdDigit * w[i - 1] + inc[i]
      BY <1>2, ValueIs
<1> HIDE DEF v, w, inc
<1>5. CASE Carried(ctr, 0)
  <2> DEFINE T == {m \in Nat : m <= RdDigits => w[m] = 0 /\ v[m] + 1 = Power[m]}
  <2>1. 0 \in T
        BY <1>3, <1>4, PowerIs
  <2>2. ASSUME NEW m \in T PROVE m + 1 \in T
    <3> SUFFICES ASSUME m + 1 <= RdDigits PROVE w[m + 1] = 0 /\ v[m + 1] + 1 = Power[m + 1]
      OBVIOUS
    <3>1. /\ m \in 0..RdDigits /\ m + 1 \in 1..RdDigits /\ (m + 1) - 1 = m
          /\ w[m] = 0 /\ v[m] + 1 = Power[m]
          BY <1>1
    <3>2. Carried(ctr, m + 1) /\ ctr[m + 1] = RdDigit - 1
          BY <1>1, <1>5, <3>1 DEF Carried
    <3>3. (RdDigit - 1 + 1) % RdDigit = 0
          BY <1>1
    <3>4. inc[m + 1] = 0
          BY <1>2, <3>1, <3>2, <3>3
    <3>5. w[m + 1] = RdDigit * 0 + 0 /\ v[m + 1] = RdDigit * v[m] + (RdDigit - 1)
          BY <1>3, <1>4, <3>1, <3>2, <3>4
    <3>6. Power[m + 1] = RdDigit * (v[m] + 1) /\ v[m] \in Nat
          BY <1>3, <3>1, PowerIs
    <3>7. RdDigit * (v[m] + 1) = RdDigit * v[m] + RdDigit /\ RdDigit * v[m] \in Nat
          BY <1>1, <3>6
    <3> QED
      BY <1>1, <3>5, <3>6, <3>7
  <2>3. \A m \in Nat : m \in T
    <3> HIDE DEF T
    <3>1. T \in SUBSET Nat
          BY DEF T
    <3> QED
      BY <2>1, <2>2, <3>1, ByInduction
  <2>4. w[RdDigits] = 0 /\ v[RdDigits] + 1 = Power[RdDigits]
        BY <1>1, <2>3
  <2> QED
    BY <2>4 DEF v, w, inc
<1>6. CASE ~Carried(ctr, 0)
  <2> DEFINE T == {m \in Nat : m <= RdDigits => w[m] = v[m] + IF Carried(ctr, m) THEN 1 ELSE 0}
  <2>1. 0 \in T
        BY <1>3, <1>4, <1>6
  <2>2. ASSUME NEW m \in T PROVE m + 1 \in T
    <3> SUFFICES ASSUME m + 1 <= RdDigits
                 PROVE  w[m + 1] = v[m + 1] + IF Carried(ctr, m + 1) THEN 1 ELSE 0
      OBVIOUS
    <3>1. /\ m \in 0..RdDigits /\ m + 1 \in 1..RdDigits /\ (m + 1) - 1 = m
          /\ w[m] = v[m] + IF Carried(ctr, m) THEN 1 ELSE 0
          /\ v[m] \in Nat
          BY <1>1, <1>3
    <3>2. /\ w[m + 1] = RdDigit * w[m] + inc[m + 1]
          /\ v[m + 1] = RdDigit * v[m] + ctr[m + 1]
          /\ ctr[m + 1] \in 0..(RdDigit - 1)
          /\ inc[m + 1] = IF Carried(ctr, m + 1) THEN (ctr[m + 1] + 1) % RdDigit ELSE ctr[m + 1]
          BY <1>2, <1>3, <1>4, <3>1
    <3>3. Carried(ctr, m) <=> Carried(ctr, m + 1) /\ ctr[m + 1] = RdDigit - 1
      <4>1. \A j \in (m + 1)..RdDigits : j = m + 1 \/ j \in ((m + 1) + 1)..RdDigits
            BY <3>1
      <4>2. /\ m + 1 \in (m + 1)..RdDigits
            /\ \A j \in ((m + 1) + 1)..RdDigits : j \in (m + 1)..RdDigits
            BY <1>1, <3>1
      <4> QED
        BY <4>1, <4>2 DEF Carried
    <3>4. RdDigit * v[m] \in Nat /\ RdDigit * (v[m] + 1) = RdDigit * v[m] + RdDigit
          BY <1>1, <3>1
    <3>5. CASE ~Carried(ctr, m + 1)
          BY <3>1, <3>2, <3>3, <3>4, <3>5
    <3>6. CASE Carried(ctr, m + 1) /\ ctr[m + 1] = RdDigit - 1
      <4>1. (RdDigit - 1 + 1) % RdDigit = 0
            BY <1>1
      <4>2. w[m + 1] = RdDigit * (v[m] + 1) + 0
            BY <3>1, <3>2, <3>3, <3>6, <4>1
      <4> QED
        BY <1>1, <3>2, <3>4, <3>6, <4>2
    <3>7. CASE Carried(ctr, m + 1) /\ ctr[m + 1] # RdDigit - 1
      <4>1. ctr[m + 1] + 1 \in 0..(RdDigit - 1)
            BY <1>1, <3>2, <3>7
      <4>2. (ctr[m + 1] + 1) % RdDigit = ctr[m + 1] + 1
            BY <1>1, <4>1
      <4>3. w[m + 1] = RdDigit * v[m] + (ctr[m + 1] + 1)
            BY <3>1, <3>2, <3>3, <3>7, <4>2
      <4> QED
        BY <3>2, <3>4, <3>7, <4>3
    <3> QED
      BY <3>5, <3>6, <3>7
  <2>3. \A m \in Nat : m \in T
    <3> HIDE DEF T
    <3>1. T \in SUBSET Nat
          BY DEF T
    <3> QED
      BY <2>1, <2>2, <3>1, ByInduction
  <2>4. Carried(ctr, RdDigits)
        BY <1>1 DEF Carried
  <2>5. w[RdDigits] = v[RdDigits] + 1
        BY <1>1, <2>3, <2>4
  <2> QED
    BY <2>5 DEF v, w, inc
<1> QED
  BY <1>5, <1>6

\* Counter d lies k steps behind counter c.
StepsBehind(d, c, k) ==
  \/ Value(d)[RdDigits] + k = Value(c)[RdDigits]
  \/ Value(d)[RdDigits] + k = Value(c)[RdDigits] + Power[RdDigits]

\* Value and bound of a whole counter.
LEMMA WholeValue ==
  ASSUME NEW ctr \in Counters
  PROVE  /\ Value(ctr)[RdDigits] \in Nat /\ Power[RdDigits] \in Nat
         /\ Value(ctr)[RdDigits] < Power[RdDigits]
<1>1. RdDigits \in 0..RdDigits
      BY RdAssumption
<1> QED
  BY <1>1, ValueIs, PowerIs, ValueBound

\* Up to as many steps as there are values the counter goes on round, one by one.
LEMMA CountingRound ==
  ASSUME NEW ctr \in Counters, NEW n \in Nat, n <= Power[RdDigits]
  PROVE  \A i \in 0..n : Counting(ctr, n)[i] \in Counters /\ StepsBehind(ctr, Counting(ctr, n)[i], i)
<1> DEFINE at == Counting(ctr, n)
           T == {m \in Nat : m <= n => at[m] \in Counters /\ StepsBehind(ctr, at[m], m)}
<1>1. at = [i \in 0..n |-> IF i = 0 THEN ctr ELSE Increment(at[i - 1])]
      BY CountingIs
<1> HIDE DEF at
<1>2. at[0] = ctr /\ \A i \in 1..n : at[i] = Increment(at[i - 1])
      BY <1>1
<1>3. 0 \in T
      BY <1>2, WholeValue DEF StepsBehind
<1>4. ASSUME NEW m \in T PROVE m + 1 \in T
  <2> SUFFICES ASSUME m + 1 <= n PROVE at[m + 1] \in Counters /\ StepsBehind(ctr, at[m + 1], m + 1)
    OBVIOUS
  <2>1. /\ m \in Nat /\ m + 1 \in 1..n /\ (m + 1) - 1 = m
        /\ at[m] \in Counters /\ StepsBehind(ctr, at[m], m)
        OBVIOUS
  <2>2. at[m + 1] = Increment(at[m]) /\ at[m + 1] \in Counters
        BY <1>2, <2>1, IncrementType
  <2>3. PICK v \in Nat, w \in Nat, x \in Nat, p \in Nat :
          /\ v = Value(ctr)[RdDigits] /\ w = Value(at[m])[RdDigits]
          /\ x = Value(at[m + 1])[RdDigits] /\ p = Power[RdDigits]
          /\ v < p /\ w < p /\ x < p
        BY <2>1, <2>2, WholeValue
  <2>4. x = w + 1 \/ (w + 1 = p /\ x = 0)
        BY <2>1, <2>2, <2>3, IncrementValue
  <2>5. v + m = w \/ v + m = w + p
        BY <2>1, <2>3 DEF StepsBehind
  <2>6. v + (m + 1) = x \/ v + (m + 1) = x + p
        BY <2>1, <2>3, <2>4, <2>5
  <2> QED
    BY <2>2, <2>3, <2>6 DEF StepsBehind
<1>5. \A m \in Nat : m \in T
  <2> HIDE DEF T
  <2>1. T \in SUBSET Nat
        BY DEF T
  <2> QED
    BY <1>3, <1>4, <2>1, ByInduction
<1> QED
  BY <1>5 DEF at

\* What was encrypted under the key are counters at most k steps back.
UsedBehind(g, k) ==
  /\ g.ctr \in Counters
  /\ \A u \in g.used : u \in Counters /\ \E d \in 0..(k - 1) : StepsBehind(u, g.ctr, d)

\* As long as there are fewer blocks than values, none is encrypted twice.
LEMMA CryptOnce ==
  ASSUME NEW g, NEW k \in Nat, NEW n \in Nat, UsedBehind(g, k), ~g.twice, k + n <= Power[RdDigits]
  PROVE  /\ UsedBehind(Crypt(g, n), k + n)
         /\ ~Crypt(g, n).twice
<1> DEFINE at == Counting(g.ctr, n)
           new == {at[i] : i \in 1..n}
           p == Power[RdDigits]
           v == Value(g.ctr)[RdDigits]
<1>1. g.ctr \in Counters /\ n <= p /\ v \in Nat /\ p \in Nat /\ v < p
  <2>1. g.ctr \in Counters
        BY DEF UsedBehind
  <2>2. v \in Nat /\ p \in Nat /\ v < p
        BY <2>1, WholeValue
  <2> QED
    BY <2>1, <2>2
<1>2. ASSUME NEW i \in 0..n
      PROVE  /\ at[i] \in Counters /\ Value(at[i])[RdDigits] \in Nat /\ Value(at[i])[RdDigits] < p
             /\ v + i = Value(at[i])[RdDigits] \/ v + i = Value(at[i])[RdDigits] + p
      BY <1>1, CountingRound, WholeValue DEF StepsBehind
<1>3. Crypt(g, n) = [ctr |-> at[n], used |-> g.used \cup new,
                     twice |-> g.twice \/ Cardinality(new) < n \/ new \cap g.used # {}]
      BY DEF Crypt
<1> HIDE DEF at, p, v
<1>4. ASSUME NEW i \in 1..n, NEW j \in 1..n, at[i] = at[j]
      PROVE  i = j
  <2>1. i \in 0..n /\ j \in 0..n
        OBVIOUS
  <2>2. PICK x \in Nat : x = Value(at[i])[RdDigits]
        BY <1>2, <2>1
  <2>3. (v + i = x \/ v + i = x + p) /\ (v + j = x \/ v + j = x + p) /\ x < p
        BY <1>2, <1>4, <2>1, <2>2
  <2> QED
    BY <1>1, <2>3
<1>5. Cardinality(new) = n
  <2> DEFINE f == [i \in 1..n |-> at[i]]
  <2>1. f \in Bijection(1..n, new)
    <3>1. f \in [1..n -> new] /\ \A y \in new : \E i \in 1..n : f[i] = y
          OBVIOUS
    <3>2. \A i, j \in 1..n : f[i] = f[j] => i = j
          BY <1>4
    <3> QED
      BY <3>1, <3>2 DEF Bijection, Injection, Surjection, IsInjective
  <2>2. ExistsBijection(1..n, new)
    <3> HIDE DEF f, new
    <3> QED
      BY <2>1 DEF ExistsBijection
  <2> HIDE DEF new
  <2> QED
    BY <2>2, FS_CountingElements
<1>6. ASSUME NEW u \in g.used, NEW i \in 1..n
      PROVE  u # at[i]
  <2>1. PICK d \in 0..(k - 1) : u \in Counters /\ StepsBehind(u, g.ctr, d)
        BY DEF UsedBehind
  <2>2. PICK x \in Nat : x = Value(u)[RdDigits] /\ x < p /\ (x + d = v \/ x + d = v + p)
        BY <2>1, WholeValue DEF StepsBehind, v, p
  <2>3. PICK y \in Nat : y = Value(at[i])[RdDigits] /\ (v + i = y \/ v + i = y + p) /\ y < p
        BY <1>2
  <2>4. x # y
        BY <1>1, <2>2, <2>3 DEF p
  <2> QED
    BY <2>2, <2>3, <2>4
<1>7. ~Crypt(g, n).twice
  <2>1. ~(Cardinality(new) < n)
        BY <1>5
  <2>2. new \cap g.used = {}
        BY <1>6
  <2> HIDE DEF new
  <2>3. Crypt(g, n).twice = (g.twice \/ Cardinality(new) < n \/ new \cap g.used # {})
        BY <1>3
  <2> QED
    BY <2>1, <2>2, <2>3, Zenon
<1>8. /\ Crypt(g, n).ctr = at[n] /\ at[n] \in Counters
      /\ Value(at[n])[RdDigits] \in Nat
      /\ v + n = Value(at[n])[RdDigits] \/ v + n = Value(at[n])[RdDigits] + p
  <2>1. n \in 0..n
        OBVIOUS
  <2> QED
    BY <1>2, <1>3, <2>1
<1>9. ASSUME NEW u \in Crypt(g, n).used
      PROVE  u \in Counters /\ \E d \in 0..(k + n - 1) : StepsBehind(u, Crypt(g, n).ctr, d)
  <2>1. u \in g.used \/ \E i \in 1..n : u = at[i]
        BY <1>3
  <2>2. CASE u \in g.used
    <3>1. PICK d \in 0..(k - 1) : u \in Counters /\ StepsBehind(u, g.ctr, d)
          BY <2>2 DEF UsedBehind
    <3>2. PICK x \in Nat, y \in Nat :
            /\ x = Value(u)[RdDigits] /\ x < p /\ (x + d = v \/ x + d = v + p)
            /\ y = Value(at[n])[RdDigits] /\ (v + n = y \/ v + n = y + p) /\ y < p
      <4>1. n \in 0..n
            OBVIOUS
      <4> QED
        BY <1>2, <3>1, <4>1, WholeValue DEF StepsBehind, v, p
    <3>3. x + (d + n) = y \/ x + (d + n) = y + p
          BY <1>1, <3>2 DEF p
    <3>4. d + n \in 0..(k + n - 1)
          OBVIOUS
    <3> QED
      BY <1>8, <3>1, <3>2, <3>3, <3>4 DEF StepsBehind, p
  <2>3. ASSUME NEW i \in 1..n, u = at[i]
        PROVE  u \in Counters /\ \E d \in 0..(k + n - 1) : StepsBehind(u, Crypt(g, n).ctr, d)
    <3>1. PICK x \in Nat, y \in Nat :
            /\ x = Value(u)[RdDigits] /\ x < p /\ (v + i = x \/ v + i = x + p)
            /\ y = Value(at[n])[RdDigits] /\ (v + n = y \/ v + n = y + p) /\ y < p
      <4>1. n \in 0..n /\ i \in 0..n
            OBVIOUS
      <4> QED
        BY <1>2, <2>3, <4>1
    <3>2. x + (n - i) = y \/ x + (n - i) = y + p
          BY <1>1, <3>1
    <3>3. n - i \in 0..(k + n - 1)
          OBVIOUS
    <3>4. u \in Counters
      <4>1. i \in 0..n
            OBVIOUS
      <4> QED
        BY <1>2, <2>3, <4>1
    <3> QED
      BY <1>8, <3>1, <3>2, <3>3, <3>4 DEF StepsBehind, p
  <2> QED
    BY <2>1, <2>2, <2>3
<1> QED
  BY <1>7, <1>8, <1>9 DEF UsedBehind

\* A generator that has encrypted nothing twice, and nothing under its present key.
Fresh(g) == UsedBehind(g, 0) /\ ~g.twice

\* The counter has enough values for the longest request and the update behind it.
CounterSuffices == (RdMaxRequest + 15) \div 16 + 3 <= Power[RdDigits]

\* An update uses three blocks, and the next key has used none.
LEMMA UpdateOnce ==
  ASSUME NEW g, NEW k \in Nat, UsedBehind(g, k), ~g.twice, k + 3 <= Power[RdDigits],
         NEW ctr \in Counters
  PROVE  Fresh(UpdateInternal(g, ctr))
<1>1. ~Crypt(g, 3).twice
      BY CryptOnce
<1>2. Crypt(g, 3) = [ctr |-> Crypt(g, 3).ctr, used |-> Crypt(g, 3).used, twice |-> Crypt(g, 3).twice]
      BY DEF Crypt
<1>3. /\ UpdateInternal(g, ctr).ctr = ctr /\ UpdateInternal(g, ctr).used = {}
      /\ UpdateInternal(g, ctr).twice = Crypt(g, 3).twice
      BY <1>2 DEF UpdateInternal
<1> QED
  BY <1>1, <1>3 DEF Fresh, UsedBehind

\* A request stays within the values of its key.
LEMMA GenerateOnce ==
  ASSUME CounterSuffices, NEW g, Fresh(g), NEW out \in 0..RdMaxRequest, NEW add \in Nat,
         NEW ctr \in Counters
  PROVE  Fresh(Generate(g, out, add, ctr))
<1> DEFINE n == (out + 15) \div 16
           mixed == IF add > 0 THEN UpdateInternal(g, ctr) ELSE g
<1>1. n \in Nat /\ n + 3 <= Power[RdDigits] /\ 0 + 3 <= Power[RdDigits] /\ 0 + n <= Power[RdDigits]
  <2>1. PICK p \in Nat : p = Power[RdDigits]
        BY PowerIs, RdAssumption
  <2>2. n \in Nat /\ n <= (RdMaxRequest + 15) \div 16
        BY RdAssumption
  <2>3. (RdMaxRequest + 15) \div 16 \in Nat
        BY RdAssumption
  <2> QED
    BY <2>1, <2>2, <2>3 DEF CounterSuffices
<1>2. Fresh(mixed)
      BY <1>1, UpdateOnce DEF Fresh
<1> HIDE DEF n, mixed
<1>3. UsedBehind(Crypt(mixed, n), 0 + n) /\ ~Crypt(mixed, n).twice
      BY <1>1, <1>2, CryptOnce DEF Fresh
<1>4. 0 + n = n
      BY <1>1
<1>5. Fresh(UpdateInternal(Crypt(mixed, n), ctr))
      BY <1>1, <1>3, <1>4, UpdateOnce
<1> QED
  BY <1>5 DEF Generate, n, mixed

\* A call that waits for a seed is the first one, or asks for no more than it may.
CallAsks == Waiting => rdCall = InitCall(rdCall.add) \/ rdCall.out \in 0..RdMaxRequest

\* No block is encrypted twice under one key, if the counter has values for the longest
\* request and an update (ctr_drbg_random_with_add, ctr_drbg_update_internal).
THEOREM NoBlockTwiceAlways ==
  ASSUME CounterSuffices
  PROVE  RdSpec => []RdNoBlockTwice
<1> DEFINE Inv == Fresh(rdGen) /\ CallAsks
<1>1. RdInit => Inv
  <2> SUFFICES ASSUME RdInit PROVE Inv
    OBVIOUS
  <2>1. [i \in 1..RdDigits |-> 0] \in Counters
        BY RdAssumption DEF Counters
  <2> QED
    BY <2>1 DEF RdInit, Fresh, UsedBehind, CallAsks, Waiting
<1>2. Inv /\ [RdNext]_rdVars => Inv'
  <2> SUFFICES ASSUME Inv, [RdNext]_rdVars PROVE Inv'
    OBVIOUS
  <2>0. 0 + 3 <= Power[RdDigits]
    <3>1. PICK p \in Nat : p = Power[RdDigits]
          BY PowerIs, RdAssumption
    <3>2. (RdMaxRequest + 15) \div 16 \in Nat
          BY RdAssumption
    <3> QED
      BY <3>1, <3>2 DEF CounterSuffices
  <2>1. rdCall' = rdCall \/ rdCall' = Idle => CallAsks'
        BY DEF CallAsks, Waiting
  <2>2. rdGen' = rdGen => Fresh(rdGen')
        OBVIOUS
  <2>3. ASSUME NEW call, BeginReseed(call), call = InitCall(call.add) \/ call.out \in 0..RdMaxRequest
        PROVE  CallAsks'
        BY <2>1, <2>3 DEF BeginReseed, Return, CallAsks, Waiting
  <2>4. ASSUME NEW custom \in RdInputs, CtrDrbgInit(custom) PROVE Inv'
    <3>1. InitCall(custom) = InitCall(InitCall(custom).add)
          BY DEF InitCall
    <3> QED
      BY <2>2, <2>3, <2>4, <3>1 DEF CtrDrbgInit, drbgVars
  <2>5. ASSUME NEW out \in RdRequests, NEW add \in RdInputs, RandomWithAdd(out, add)
        PROVE  Inv'
    <3>1. CASE out > RdMaxRequest \/ add > RdMaxInput
          BY <2>1, <2>2, <2>5, <3>1 DEF RandomWithAdd, Return, drbgVars
    <3>2. CASE ~(out > RdMaxRequest \/ add > RdMaxInput)
      <4>1. out \in 0..RdMaxRequest /\ add \in Nat
            BY <3>2, RdAssumption
      <4>2. CASE ReseedDue
        <5>1. BeginReseed([out |-> out, add |-> add]) /\ rdGen' = rdGen
              BY <2>5, <3>2, <4>2 DEF RandomWithAdd, drbgVars
        <5>2. [out |-> out, add |-> add].out \in 0..RdMaxRequest
              BY <4>1
        <5> QED
          BY <2>2, <2>3, <5>1, <5>2
      <4>3. CASE ~ReseedDue
        <5>1. PICK ctr \in Counters : rdGen' = Generate(rdGen, out, add, ctr)
              BY <2>5, <3>2, <4>3 DEF RandomWithAdd
        <5>2. Fresh(rdGen')
              BY <4>1, <5>1, GenerateOnce
        <5> QED
          BY <2>1, <2>5, <3>2, <4>3, <5>2 DEF RandomWithAdd, Return
      <4> QED
        BY <4>2, <4>3
    <3> QED
      BY <3>1, <3>2
  <2>6. ASSUME NEW add \in RdInputs, CtrDrbgUpdate(add) PROVE Inv'
    <3>1. rdGen' = rdGen \/ \E ctr \in Counters : rdGen' = UpdateInternal(rdGen, ctr)
          BY <2>6 DEF CtrDrbgUpdate
    <3>2. Fresh(rdGen')
          BY <2>0, <3>1, UpdateOnce DEF Fresh
    <3> QED
      BY <2>1, <2>6, <3>2 DEF CtrDrbgUpdate, Return
  <2>7. CASE SetPredictionResistance \/ Gather \/ GatherFails
        BY <2>1, <2>2, <2>7 DEF SetPredictionResistance, Gather, GatherFails, Return, drbgVars
  <2>8. CASE Seed
    <3>1. PICK ctr \in Counters :
            IF rdCall = InitCall(rdCall.add)
            THEN rdGen' = UpdateInternal(rdGen, ctr)
            ELSE rdGen' = Generate(UpdateInternal(rdGen, ctr), rdCall.out, 0, ctr)
          BY <2>8 DEF Seed
    <3>2. Fresh(UpdateInternal(rdGen, ctr))
          BY <2>0, UpdateOnce DEF Fresh
    <3>3. rdCall # InitCall(rdCall.add) => rdCall.out \in 0..RdMaxRequest
          BY <2>8 DEF Seed, CallAsks
    <3>4. Fresh(rdGen')
          BY <3>1, <3>2, <3>3, GenerateOnce
    <3> QED
      BY <2>1, <2>8, <3>4 DEF Seed, Return
  <2>9. CASE UNCHANGED rdVars
        BY <2>1, <2>2, <2>9 DEF rdVars, drbgVars
  <2> QED
    BY <2>4, <2>5, <2>6, <2>7, <2>8, <2>9 DEF RdNext
<1>3. Inv => RdNoBlockTwice
      BY DEF Fresh, RdNoBlockTwice
<1> QED
  BY <1>1, <1>2, <1>3, PTL DEF RdSpec

\* What Library sees of the generator: it is in use from the beginning, or never.
RdPartSpec == (RdInit \/ RdAtRest) /\ [][~RdAtRest /\ RdNext]_rdVars

\* In Library too, every seed is fresh and serves its interval, no block comes twice, and
\* neither a seed nor the input of a request overruns block_cipher_df's buffer; an input of
\* ctr_drbg_update that is longer than any seed may be does, whose length nobody checks
\* (ctr_drbg.c:221-231), and what the program does behind that is not part of RdPartSpec.
\* ctr_drbg.h and the AES counter of 16 bytes have the hypotheses.
THEOREM SeedsAreFreshAlways ==
  ASSUME RdInterval >= 1, RdMaxSeed % 16 = 0, RdMaxInput <= RdMaxSeed, CounterSuffices
  PROVE  RdPartSpec => []SeedsAreFresh
<1>1. RdAtRest /\ [~RdAtRest /\ RdNext]_rdVars => RdAtRest'
      BY DEF RdAtRest, rdVars, entropyVars, drbgVars
<1>2. [~RdAtRest /\ RdNext]_rdVars => [RdNext]_rdVars
      OBVIOUS
<1>3. RdAtRest => SeedsAreFresh
      BY DEF SeedsAreFresh
<1>4. RdFreshEntropy /\ RdNoBlockTwice /\ RdSeedNotWornOut /\ RdReadsInBuffer => SeedsAreFresh
      BY DEF SeedsAreFresh
<1>5. RdSpec => []RdFreshEntropy
      BY FreshEntropyAlways
<1>6. RdSpec => []RdNoBlockTwice
      BY NoBlockTwiceAlways
<1>7. RdSpec => []RdSeedNotWornOut
      BY SeedNotWornOutAlways
<1>8. RdSpec => []RdReadsInBuffer
      BY ReadsInBufferAlways
<1> QED
  BY <1>1, <1>2, <1>3, <1>4, <1>5, <1>6, <1>7, <1>8, PTL DEF RdSpec, RdPartSpec

-----------------------------------------------------------------------------
(* RecordProtection: the lengths of the suites *)

\* What the table of ssl_derive_keys gives for each mode.
LEMMA SuiteFacts ==
  ASSUME NEW k \in RpKinds
  PROVE  LET s == Lengths[k.suite]
         IN  /\ s.mode \in {"stream", "cbc", "gcm", "null"}
             /\ s.mode \in {"stream", "null"} =>
                  s.iv = 0 /\ s.mac \in {16, 20, 32} /\ s.min \in {0, s.mac} /\ s.fixed = 0
             /\ s.mode = "stream" => s.min = s.mac
             /\ s.mode = "gcm" => s.iv = 12 /\ s.mac = 0 /\ s.min = 1 /\ s.fixed = 4
             /\ s.mode = "cbc" =>
                  /\ s.fixed = 0
                  /\ \/ s.iv = 8 /\ s.mac = 20 /\ s.min \in {8, 24}
                     \/ s.iv = 16 /\ s.mac \in {20, 32} /\ s.min = 32
             /\ s.key \in {0, 8, 16, 24, 32}
<1> DEFINE names == {"RC4_128_MD5", "RC4_128_SHA", "DES3_CBC_SHA", "DES_CBC_SHA", "CBC_128_SHA",
                     "CBC_256_SHA", "CBC_128_SHA256", "CBC_256_SHA256", "GCM_128_SHA256",
                     "GCM_256_SHA384", "NULL_MD5", "NULL_SHA", "NULL_SHA256"}
<1>1. DOMAIN Lengths = names
      BY DEF Lengths
<1>2. k.suite \in names
      BY <1>1, RpSuiteAssumption
<1> QED
  BY <1>2 DEF Lengths, Suite

\* The same of the suite in use, whose modes are told apart by the length of an IV.
LEMMA TransformFacts ==
  ASSUME rpKind \in RpKinds
  PROVE  /\ Transform.mode \in {"stream", "cbc", "gcm", "null"}
         /\ Transform.mode \in {"stream", "null"} =>
              /\ Transform.iv = 0 /\ Transform.mac \in {16, 20, 32} /\ Transform.fixed = 0
              /\ Transform.min \in {0, Transform.mac}
         /\ Transform.mode = "stream" => Transform.min = Transform.mac
         /\ Transform.mode = "gcm" =>
              Transform.iv = 12 /\ Transform.mac = 0 /\ Transform.min = 1 /\ Transform.fixed = 4
         /\ Transform.mode = "cbc" =>
              \/ Transform.iv = 8 /\ Transform.mac = 20 /\ Transform.min \in {8, 24}
              \/ Transform.iv = 16 /\ Transform.mac \in {20, 32} /\ Transform.min = 32
         /\ ExplicitIv \in {0, 8, 16} /\ Unit \in {1, 8, 16}
         /\ Transform.mode \in {"stream", "null"} => ExplicitIv = 0 /\ Unit = 1
         /\ Transform.mode = "gcm" => ExplicitIv = 8 /\ Unit = 1
         /\ Transform.mode = "cbc" => ExplicitIv \in {0, Transform.iv} /\ Unit = Transform.iv
  BY SuiteFacts DEF Transform, ExplicitIv, Unit

\* Lengths on the wire: padding fills a block, and no record is too short for ssl_decrypt_buf.
LEMMA LengthFacts ==
  ASSUME rpKind \in RpKinds, NEW len \in Nat
  PROVE  /\ WireLength(len) \in Nat
         /\ WireLength(len) >= Transform.min
         /\ Transform.mode \in {"stream", "null"} => WireLength(len) = len + Transform.mac
         /\ Transform.mode = "gcm" => WireLength(len) = len + 24
         /\ Transform.mode = "cbc" =>
              /\ PadLen(len + Transform.mac) \in 0..(Transform.iv - 1)
              /\ WireLength(len)
                   = ExplicitIv + len + Transform.mac + PadLen(len + Transform.mac) + 1
              /\ WireLength(len) % Transform.iv = 0
              /\ WireLength(len) >= ExplicitIv + Transform.iv
<1>1. CASE Transform.mode # "cbc"
      BY <1>1, TransformFacts DEF WireLength, Padded
<1>2. CASE Transform.mode = "cbc"
  <2>1. PICK n \in Nat : n = len + Transform.mac
        BY <1>2, TransformFacts
  <2>2. PICK x \in Nat : x = ExplicitIv
        BY TransformFacts
  <2>3. n >= 20 /\ x \in {0, Transform.iv}
        BY <1>2, <2>1, <2>2, TransformFacts
  <2>4. CASE Transform.iv = 8
    <3>1. PadLen(n) \in 0..7 /\ (n + (PadLen(n) + 1)) % 8 = 0
          BY <2>3, <2>4 DEF PadLen
    <3>2. PICK p \in 0..7 : p = PadLen(n)
          BY <3>1
    <3>3. n + (p + 1) \in Nat /\ n + (p + 1) >= 24 /\ (n + (p + 1)) % 8 = 0
          BY <2>3, <3>1, <3>2
    <3>4. (x + (n + (p + 1))) % 8 = 0
          BY <2>3, <2>4, <3>3
    <3>5. WireLength(len) = x + (n + (p + 1))
          BY <1>2, <2>1, <2>2, <3>2 DEF WireLength, Padded
    <3>6. x + (n + (p + 1)) = ExplicitIv + len + Transform.mac + PadLen(len + Transform.mac) + 1
          BY <1>2, <2>1, <2>2, <3>2, TransformFacts
    <3>7. Transform.min \in {8, 24}
          BY <1>2, <2>4, TransformFacts
    <3>8. /\ WireLength(len) \in Nat /\ WireLength(len) >= Transform.min
          /\ WireLength(len) >= ExplicitIv + Transform.iv
          BY <2>2, <2>4, <3>3, <3>5, <3>7
    <3> QED
      BY <1>2, <2>1, <2>4, <3>2, <3>4, <3>5, <3>6, <3>8
  <2>5. CASE Transform.iv = 16
    <3>1. PadLen(n) \in 0..15 /\ (n + (PadLen(n) + 1)) % 16 = 0
          BY <2>3, <2>5 DEF PadLen
    <3>2. PICK p \in 0..15 : p = PadLen(n)
          BY <3>1
    <3>3. n + (p + 1) \in Nat /\ n + (p + 1) >= 32 /\ (n + (p + 1)) % 16 = 0
          BY <2>3, <3>1, <3>2
    <3>4. (x + (n + (p + 1))) % 16 = 0
          BY <2>3, <2>5, <3>3
    <3>5. WireLength(len) = x + (n + (p + 1))
          BY <1>2, <2>1, <2>2, <3>2 DEF WireLength, Padded
    <3>6. x + (n + (p + 1)) = ExplicitIv + len + Transform.mac + PadLen(len + Transform.mac) + 1
          BY <1>2, <2>1, <2>2, <3>2, TransformFacts
    <3>7. Transform.min \in {32}
          BY <1>2, <2>5, TransformFacts
    <3>8. /\ WireLength(len) \in Nat /\ WireLength(len) >= Transform.min
          /\ WireLength(len) >= ExplicitIv + Transform.iv
          BY <2>2, <2>5, <3>3, <3>5, <3>7
    <3> QED
      BY <1>2, <2>1, <2>5, <3>2, <3>4, <3>5, <3>6, <3>8
  <2> QED
    BY <1>2, <2>4, <2>5, TransformFacts
<1> QED
  BY <1>1, <1>2

-----------------------------------------------------------------------------
(* RecordProtection: types *)

\* A unit of ciphertext: damaged, or made at a place of a record that was encrypted.
Units == {Damaged} \cup ((1..Len(rpSent)) \X Nat)

\* A record as the network has it.
OnWay == [type : RpTypes \cup {"data"}, len : Nat, body : Seq(Units)]

\* A message that was encrypted, and where its keystream begins.
Message == [type : {"data"}, len : Nat, at : Nat]

\* Records whose bodies are as long as they say.
Formed(net) == /\ net \in Seq(OnWay)
               /\ \A i \in 1..Len(net) : Len(net[i].body) = net[i].len \div Unit

RpTypeInv ==
  /\ rpKind \in RpKinds
  /\ rpShared \subseteq {"key", "mac", "iv"}
  /\ rpSent \in Seq(Message)
  /\ Formed(rpNet)
  /\ rpInCtr \in Nat /\ rpInPos \in Nat /\ rpZero \in Nat /\ rpFaults \in Nat
  /\ rpGot \in Seq([type : RpTypes \cup {"data"}, len : Nat])
  /\ rpState \in {"closed", "open", "failed", "died"}

\* What the accepted records say, and which lengths may wrap.
Accepted ==
  /\ RpTypeInv
  /\ Len(rpGot) = rpInCtr
  /\ RpOnlyWhatWasSent
  /\ RpNoWrap

-----------------------------------------------------------------------------
(* RecordProtection: records that nobody has touched *)

\* Record r as ssl_encrypt_buf has made it.
Made(r) ==
  LET len == WireLength(rpSent[r].len)
  IN  [type |-> rpSent[r].type, len |-> len, body |-> [i \in 1..(len \div Unit) |-> <<r, i - 1>>]]

\* The place in the keystream behind r records.
StreamAt(r) == IF r = 0 THEN 0 ELSE rpSent[r].at + rpSent[r].len + Transform.mac

\* The block that CBC chains the first one behind r records to.
IvBehind(r) == IF r = 0 THEN KeyIv ELSE <<r, WireLength(rpSent[r].len) \div Transform.iv - 1>>

\* What is under way are the records behind those accepted, as they were made; keystream,
\* IV and the count of empty records stand behind the last one that was accepted.
InStep ==
  /\ rpInCtr + Len(rpNet) = Len(rpSent)
  /\ \A i \in 1..Len(rpNet) : rpNet[i] = Made(rpInCtr + i)
  /\ \A r \in 1..Len(rpSent) : rpSent[r].at = StreamAt(r - 1)
  /\ Transform.mode = "stream" => rpInPos = StreamAt(rpInCtr)
  /\ Transform.mode = "cbc" => rpInIv = IvBehind(rpInCtr)
  /\ rpZero <= rpInCtr
  /\ \A i \in (rpInCtr - rpZero + 1)..rpInCtr : rpSent[i].len = 0

Undamaged ==
  /\ RpTypeInv
  /\ rpFaults = 0 =>
       /\ rpState \in {"closed", "open"} => InStep
       /\ rpState = "closed" => rpSent = <<>>
       /\ rpState = "open" => rpShared = {"key", "mac", "iv"}
       /\ RpUndamagedAccepted

-----------------------------------------------------------------------------
(* RecordProtection: types are kept *)

\* A function on 1..n is a sequence of length n.
LEMMA SeqOfLength ==
  ASSUME NEW S, NEW n \in Nat, NEW f \in [1..n -> S]
  PROVE  f \in Seq(S) /\ Len(f) = n
<1>1. f \in Seq(S)
      BY SeqDef
<1>2. DOMAIN f = 1..Len(f) /\ Len(f) \in Nat
      BY <1>1, LenProperties
<1> QED
  BY <1>1, <1>2

\* The length of a sequence, whatever is in it.
LEMMA LengthOf ==
  ASSUME NEW n \in Nat, NEW f, f = [i \in 1..n |-> f[i]]
  PROVE  Len(f) = n
<1>1. f \in [1..n -> {f[i] : i \in 1..n}]
      OBVIOUS
<1> QED
  BY <1>1, SeqOfLength

\* What a well-formed network holds at each place.
LEMMA FormedAt ==
  ASSUME NEW net, Formed(net), NEW i \in 1..Len(net)
  PROVE  /\ net[i] \in OnWay /\ net[i].type \in RpTypes \cup {"data"} /\ net[i].len \in Nat
         /\ net[i].body \in Seq(Units) /\ Len(net[i].body) = net[i].len \div Unit
         /\ Len(net[i].body) \in Nat
<1>1. net[i] \in OnWay
      BY ElementOfSeq DEF Formed
<1> QED
  BY <1>1, LenProperties DEF OnWay, Formed

\* The network may put a record in place of another.
LEMMA PutRecord ==
  ASSUME NEW net, Formed(net), NEW i \in 1..Len(net),
         NEW r \in OnWay, Len(r.body) = r.len \div Unit
  PROVE  Formed([net EXCEPT ![i] = r])
<1> DEFINE put == [net EXCEPT ![i] = r]
<1>1. net \in Seq(OnWay)
      BY DEF Formed
<1>2. /\ put \in Seq(OnWay) /\ Len(put) = Len(net)
      /\ \A j \in 1..Len(net) : put[j] = IF j = i THEN r ELSE net[j]
      BY <1>1, ExceptSeq
<1> QED
  BY <1>2 DEF Formed

\* It may lose any of them, the first when it is received.
LEMMA DropRecord ==
  ASSUME NEW net, Formed(net), NEW i \in 1..Len(net)
  PROVE  Formed(SubSeq(net, 1, i - 1) \o SubSeq(net, i + 1, Len(net)))
<1> DEFINE a == SubSeq(net, 1, i - 1)
           b == SubSeq(net, i + 1, Len(net))
<1>1. net \in Seq(OnWay) /\ Len(net) \in Nat /\ i \in Nat
      BY LenProperties DEF Formed
<1>2. \A j \in 1..Len(net) : net[j] \in OnWay
      BY <1>1, ElementOfSeq
<1>3. /\ a \in Seq(OnWay) /\ Len(a) = i - 1
      /\ \A j \in 1..(i - 1) : a[j] = net[j]
  <2>1. 1 \in Int /\ i - 1 \in Int /\ \A j \in 1..(i - 1) : net[j] \in OnWay
        BY <1>1, <1>2
  <2>2. /\ a \in Seq(OnWay) /\ Len(a) = IF 1 <= i - 1 THEN i - 1 - 1 + 1 ELSE 0
        /\ \A j \in 1..(i - 1 - 1 + 1) : a[j] = net[1 + j - 1]
        BY ONLY <2>1, SubSeqProperties
  <2> QED
    BY <1>1, <2>2
<1>4. /\ b \in Seq(OnWay) /\ Len(b) = Len(net) - i
      /\ \A j \in 1..(Len(net) - i) : b[j] = net[i + j]
  <2>1. i + 1 \in Int /\ Len(net) \in Int /\ \A j \in (i + 1)..Len(net) : net[j] \in OnWay
        BY <1>1, <1>2
  <2>2. /\ b \in Seq(OnWay) /\ Len(b) = IF i + 1 <= Len(net) THEN Len(net) - (i + 1) + 1 ELSE 0
        /\ \A j \in 1..(Len(net) - (i + 1) + 1) : b[j] = net[i + 1 + j - 1]
        BY ONLY <2>1, SubSeqProperties
  <2> QED
    BY <1>1, <2>2
<1>5. /\ a \o b \in Seq(OnWay) /\ Len(a \o b) = Len(net) - 1
      /\ \A j \in 1..(Len(net) - 1) : (a \o b)[j] = IF j <= i - 1 THEN a[j] ELSE b[j - (i - 1)]
  <2>1. /\ a \o b \in Seq(OnWay) /\ Len(a \o b) = Len(a) + Len(b)
        /\ \A j \in 1..Len(a) + Len(b) : (a \o b)[j] = IF j <= Len(a) THEN a[j] ELSE b[j - Len(a)]
        BY ONLY <1>3, <1>4, ConcatProperties
  <2>2. \A m, n \in Int : m = i - 1 /\ n = Len(net) - i => m + n = Len(net) - 1
        BY <1>1
  <2>3. Len(a) + Len(b) = Len(net) - 1
    <3>1. Len(a) \in Int /\ Len(b) \in Int
          BY <1>3, <1>4, LenProperties
    <3> HIDE DEF a, b
    <3> QED
      BY ONLY <1>3, <1>4, <2>2, <3>1
  <2> QED
    BY ONLY <1>3, <2>1, <2>3
<1>6. ASSUME NEW j \in 1..(Len(net) - 1)
      PROVE  \E k \in 1..Len(net) : (a \o b)[j] = net[k]
  <2>1. CASE j <= i - 1
    <3>1. j \in 1..(i - 1) /\ j \in 1..Len(net)
          BY <1>1, <2>1
    <3> QED
      BY <1>3, <1>5, <2>1, <3>1
  <2>2. CASE ~ j <= i - 1
    <3>1. j - (i - 1) \in 1..(Len(net) - i) /\ i + (j - (i - 1)) \in 1..Len(net)
          BY <1>1, <2>2
    <3> QED
      BY <1>4, <1>5, <2>2, <3>1
  <2> QED
    BY <2>1, <2>2
<1> QED
  BY <1>5, <1>6 DEF Formed

\* And it may have one more.
LEMMA AddRecord ==
  ASSUME NEW net, Formed(net), NEW r \in OnWay, Len(r.body) = r.len \div Unit
  PROVE  Formed(Append(net, r))
<1>1. net \in Seq(OnWay) /\ Len(net) \in Nat
      BY LenProperties DEF Formed
<1>2. /\ Append(net, r) \in Seq(OnWay) /\ Len(Append(net, r)) = Len(net) + 1
      /\ \A j \in 1..Len(net) : Append(net, r)[j] = net[j]
      /\ Append(net, r)[Len(net) + 1] = r
      BY <1>1, AppendProperties
<1> QED
  BY <1>1, <1>2 DEF Formed

\* The network without its head, which was received.
LEMMA TailFormed ==
  ASSUME NEW net, Formed(net), net # <<>>
  PROVE  Formed(Tail(net)) /\ Len(Tail(net)) = Len(net) - 1 /\ Head(net) = net[1]
         /\ Len(net) \in Nat /\ Len(net) >= 1 /\ \A i \in 1..(Len(net) - 1) : Tail(net)[i] = net[i + 1]
<1>1. net \in Seq(OnWay) /\ Len(net) \in Nat
      BY LenProperties DEF Formed
<1>2. /\ Tail(net) \in Seq(OnWay) /\ Len(Tail(net)) = Len(net) - 1
      /\ \A i \in 1..Len(Tail(net)) : Tail(net)[i] = net[i + 1]
      BY <1>1, HeadTailProperties
<1>3. Len(net) >= 1
      BY <1>1, EmptySeq
<1> QED
  BY <1>1, <1>2, <1>3 DEF Formed

\* A network stays well-formed when it is left as it is.
LEMMA FormedKept ==
  ASSUME UNCHANGED <<rpKind, rpSent>>, NEW net, Formed(net), rpNet' = net
  PROVE  Formed(rpNet)'
<1>1. Units' = Units /\ Unit' = Unit
      BY DEF Units, Unit, Transform
<1> QED
  BY <1>1 DEF Formed, OnWay

\* A fault in the body of a record.
LEMMA BodyFault ==
  ASSUME Formed(rpNet), NEW i \in 1..Len(rpNet), NEW p \in 1..Len(rpNet[i].body), NEW u \in Units
  PROVE  Formed([rpNet EXCEPT ![i].body[p] = u])
<1> DEFINE b == [rpNet[i].body EXCEPT ![p] = u]
           r == [rpNet[i] EXCEPT !.body = b]
<1>1. rpNet[i] \in OnWay /\ rpNet[i].body \in Seq(Units)
      /\ Len(rpNet[i].body) = rpNet[i].len \div Unit
      BY FormedAt
<1>2. b \in Seq(Units) /\ Len(b) = Len(rpNet[i].body)
      BY <1>1, ExceptSeq
<1>3. r \in OnWay /\ r.body = b /\ r.len = rpNet[i].len
      BY <1>1, <1>2 DEF OnWay
<1>4. Formed([rpNet EXCEPT ![i] = r])
      BY <1>1, <1>2, <1>3, PutRecord
<1>5. [rpNet EXCEPT ![i].body[p] = u] = [rpNet EXCEPT ![i] = r]
      OBVIOUS
<1> QED
  BY <1>4, <1>5

\* Whatever the network does, it carries well-formed records.
LEMMA FaultsFormed ==
  ASSUME RpTypeInv, NEW i \in 1..Len(rpNet),
         Damage(i) \/ Cut(i) \/ Retype(i) \/ Drop(i) \/ Repeat(i) \/ Exchange(i) \/ Splice(i)
  PROVE  \E net : Formed(net) /\ Fault(net)
<1> DEFINE r == rpNet[i]
<1>0. Formed(rpNet) /\ rpKind \in RpKinds /\ i \in Nat
      BY DEF RpTypeInv
<1>1. /\ r \in OnWay /\ r.len \in Nat /\ r.body \in Seq(Units)
      /\ Len(r.body) = r.len \div Unit /\ Len(r.body) \in Nat
      BY <1>0, FormedAt
<1>2. CASE Damage(i)
  <2>1. PICK p \in 1..Len(r.body) : Fault([rpNet EXCEPT ![i].body[p] = Damaged])
        BY <1>1, <1>2 DEF Damage
  <2>2. Damaged \in Units
        BY DEF Units
  <2> QED
    BY <1>0, <2>1, <2>2, BodyFault
<1>3. CASE Cut(i)
  <2>1. PICK n \in 0..(r.len - 1) :
          Fault([rpNet EXCEPT ![i].len = n, ![i].body = SubSeq(@, 1, n \div Unit)])
        BY <1>3 DEF Cut
  <2> DEFINE b == SubSeq(r.body, 1, n \div Unit)
             c == [r EXCEPT !.len = n, !.body = b]
  <2>2. n \div Unit \in Nat /\ n \div Unit <= Len(r.body) /\ n \in Nat
        BY <1>0, <1>1, TransformFacts
  <2>3. b \in Seq(Units) /\ Len(b) = n \div Unit
    <3>1. 1 \in Int /\ n \div Unit \in Int /\ \A j \in 1..(n \div Unit) : r.body[j] \in Units
          BY <1>1, <2>2, ElementOfSeq
    <3>2. b \in Seq(Units) /\ Len(b) = IF 1 <= n \div Unit THEN n \div Unit - 1 + 1 ELSE 0
          BY ONLY <3>1, SubSeqProperties
    <3> QED
      BY <2>2, <3>2
  <2>4. c \in OnWay /\ c.body = b /\ c.len = n
        BY <1>1, <2>2, <2>3 DEF OnWay
  <2>5. Formed([rpNet EXCEPT ![i] = c])
        BY <1>0, <2>3, <2>4, PutRecord
  <2>6. [rpNet EXCEPT ![i].len = n, ![i].body = SubSeq(@, 1, n \div Unit)]
          = [rpNet EXCEPT ![i] = c]
    <3>1. DOMAIN rpNet = 1..Len(rpNet) /\ r \in OnWay
          BY <1>0, <1>1, LenProperties DEF Formed
    <3> QED
      BY <3>1 DEF OnWay
  <2> QED
    BY <2>1, <2>5, <2>6
<1>4. CASE Retype(i)
  <2>1. PICK t \in RpTypes : Fault([rpNet EXCEPT ![i].type = t])
        BY <1>4 DEF Retype
  <2> DEFINE c == [r EXCEPT !.type = t]
  <2>2. c \in OnWay /\ c.body = r.body /\ c.len = r.len
        BY <1>1 DEF OnWay
  <2>3. Formed([rpNet EXCEPT ![i] = c])
        BY <1>0, <1>1, <2>2, PutRecord
  <2> QED
    BY <2>1, <2>3
<1>5. CASE Drop(i)
      BY <1>0, <1>5, DropRecord DEF Drop
<1>6. CASE Repeat(i)
      BY <1>0, <1>1, <1>6, AddRecord DEF Repeat
<1>7. CASE Exchange(i)
  <2>1. i - 1 \in 1..Len(rpNet) /\ Fault([rpNet EXCEPT ![i] = rpNet[i - 1], ![i - 1] = rpNet[i]])
        BY <1>0, <1>7 DEF Exchange
  <2> DEFINE q == rpNet[i - 1]
             net == [rpNet EXCEPT ![i] = q]
  <2>2. q \in OnWay /\ Len(q.body) = q.len \div Unit
        BY <1>0, <2>1, FormedAt
  <2>3. Formed(net) /\ Len(net) = Len(rpNet)
        BY <1>0, <2>2, PutRecord, ExceptSeq DEF Formed
  <2>4. Formed([net EXCEPT ![i - 1] = r])
        BY <1>1, <2>1, <2>3, PutRecord
  <2> QED
    BY <2>1, <2>4
<1>8. CASE Splice(i)
  <2>1. /\ Len(r.body) >= 2
        /\ Fault([rpNet EXCEPT ![i].body[Len(r.body)] = r.body[Len(r.body) - 1]])
        BY <1>8 DEF Splice
  <2>2. Len(r.body) \in 1..Len(r.body) /\ Len(r.body) - 1 \in 1..Len(r.body)
        BY <1>1, <2>1
  <2>3. r.body[Len(r.body) - 1] \in Units
        BY <1>1, <2>2, ElementOfSeq
  <2> QED
    BY <1>0, <2>1, <2>2, <2>3, BodyFault
<1> QED
  BY <1>2, <1>3, <1>4, <1>5, <1>6, <1>7, <1>8

\* What ssl_encrypt_buf adds to a well-formed network.
LEMMA EncryptFormed ==
  ASSUME RpTypeInv, NEW len \in RpLengths, Encrypt("data", len)
  PROVE  /\ rpSent' \in Seq(Message) /\ Len(rpSent') = Len(rpSent) + 1
         /\ \A r \in 1..Len(rpSent) : rpSent'[r] = rpSent[r]
         /\ rpSent'[Len(rpSent) + 1].len = len
         /\ rpSent'[Len(rpSent) + 1].at
              = IF rpSent = <<>> THEN 0
                ELSE rpSent[Len(rpSent)].at + rpSent[Len(rpSent)].len + Transform.mac
         /\ Len(rpSent) \in Nat /\ Len(rpNet) \in Nat
         /\ Len(rpNet') = Len(rpNet) + 1
         /\ \A i \in 1..Len(rpNet) : rpNet'[i] = rpNet[i]
         /\ rpNet'[Len(rpNet) + 1]
              = [type |-> "data", len |-> WireLength(len),
                 body |-> [i \in 1..(WireLength(len) \div Unit) |-> <<Len(rpSent) + 1, i - 1>>]]
         /\ Formed(rpNet)'
<1> DEFINE n == Len(rpSent) + 1
           used == IF rpSent = <<>> THEN 0
                   ELSE rpSent[n - 1].at + rpSent[n - 1].len + Transform.mac
           m == [type |-> "data", len |-> len, at |-> used]
           count == WireLength(len) \div Unit
           b == [i \in 1..count |-> <<n, i - 1>>]
           w == [type |-> "data", len |-> WireLength(len), body |-> b]
<1>1. /\ rpSent \in Seq(Message) /\ rpKind \in RpKinds /\ Formed(rpNet)
      /\ rpNet \in Seq(OnWay) /\ len \in Nat
      BY RpAssumption DEF RpTypeInv, Formed
<1>2. rpSent' = Append(rpSent, m) /\ rpNet' = Append(rpNet, w) /\ rpKind' = rpKind
      BY DEF Encrypt
<1>3. Len(rpSent) \in Nat /\ Len(rpNet) \in Nat
      BY <1>1, LenProperties
<1>4. used \in Nat
  <2>1. CASE rpSent = <<>>
        BY <2>1
  <2>2. CASE rpSent # <<>>
    <3>1. n - 1 \in 1..Len(rpSent) /\ n - 1 = Len(rpSent)
          BY <1>1, <1>3, <2>2, EmptySeq
    <3>2. rpSent[n - 1] \in Message
          BY <1>1, <3>1, ElementOfSeq
    <3>3. rpSent[n - 1].at \in Nat /\ rpSent[n - 1].len \in Nat /\ Transform.mac \in Nat
          BY <1>1, <3>2, TransformFacts DEF Message
    <3> QED
      BY <2>2, <3>3
  <2> QED
    BY <2>1, <2>2
<1>5. m \in Message
      BY <1>1, <1>4 DEF Message
<1>6. /\ rpSent' \in Seq(Message) /\ Len(rpSent') = Len(rpSent) + 1
      /\ \A r \in 1..Len(rpSent) : rpSent'[r] = rpSent[r]
      /\ rpSent'[Len(rpSent) + 1] = m
      BY <1>1, <1>2, <1>5, AppendProperties
<1>7. Units' = {Damaged} \cup ((1..n) \X Nat) /\ Units \subseteq Units' /\ Unit' = Unit
      BY <1>2, <1>3, <1>6 DEF Units, Unit, Transform
<1>8. WireLength(len) \in Nat /\ count \in Nat
  <2>1. WireLength(len) \in Nat /\ Unit \in {1, 8, 16}
        BY <1>1, LengthFacts, TransformFacts
  <2> QED
    BY <2>1
<1>9. b \in Seq(Units') /\ Len(b) = count
  <2>1. b \in [1..count -> Units']
        BY <1>3, <1>7, <1>8
  <2> QED
    BY <1>8, <2>1, SeqOfLength
<1>10. w \in OnWay'
       BY <1>8, <1>9 DEF OnWay
<1>11. Seq(Units) \subseteq Seq(Units')
  <2> SUFFICES ASSUME NEW s \in Seq(Units) PROVE s \in Seq(Units')
    OBVIOUS
  <2>1. Len(s) \in Nat /\ s \in [1..Len(s) -> Units']
        BY <1>7, LenProperties
  <2> QED
    BY <2>1, SeqOfLength
<1>12. OnWay \subseteq OnWay'
       BY <1>11 DEF OnWay
<1>13. rpNet \in Seq(OnWay')
  <2>1. rpNet \in [1..Len(rpNet) -> OnWay']
        BY <1>1, <1>12, LenProperties
  <2> QED
    BY <1>3, <2>1, SeqOfLength
<1>14. /\ rpNet' \in Seq(OnWay') /\ Len(rpNet') = Len(rpNet) + 1
       /\ \A i \in 1..Len(rpNet) : rpNet'[i] = rpNet[i]
       /\ rpNet'[Len(rpNet) + 1] = w
       BY <1>2, <1>10, <1>13, AppendProperties
<1>15. Formed(rpNet)'
  <2> SUFFICES ASSUME NEW i \in 1..(Len(rpNet) + 1)
               PROVE  Len(rpNet'[i].body) = rpNet'[i].len \div Unit
    BY <1>3, <1>7, <1>14 DEF Formed
  <2>1. CASE i \in 1..Len(rpNet)
        BY <1>1, <1>14, <2>1 DEF Formed
  <2>2. CASE i = Len(rpNet) + 1
    <3>1. rpNet'[i] = w /\ w.body = b /\ w.len = WireLength(len)
          BY <1>14, <2>2
    <3> QED
      BY <1>9, <3>1
  <2> QED
    BY <1>3, <2>1, <2>2
<1> QED
  BY <1>3, <1>6, <1>14, <1>15

\* The record the counter expects, of length n: what a MAC or a tag stands for.
Verified(n) ==
  /\ rpInCtr + 1 \in 1..Len(rpSent)
  /\ rpSent[rpInCtr + 1].type = Head(rpNet).type
  /\ rpSent[rpInCtr + 1].len = n

\* How ssl_decrypt_buf ends.
Judges ==
  \/ \E n \in Nat : Verified(n) /\ Accept(n)
  \/ Fail("failed")
  \/ Transform.mode \in {"gcm", "null"} /\ Fail("died")

\* A MAC covers the counter: what it accepts is the next record, with its type and length.
LEMMA MacVerifies ==
  ASSUME RpTypeInv, NEW plain, NEW n, MacMatches(plain, n)
  PROVE  n \in Nat /\ Verified(n)
<1>1. PICK r \in 1..Len(rpSent) :
        r = rpInCtr + 1 /\ rpSent[r].type = Head(rpNet).type /\ rpSent[r].len = n
      BY DEF MacMatches
<1>2. rpSent[r] \in Message
      BY ElementOfSeq DEF RpTypeInv
<1> QED
  BY <1>1, <1>2 DEF Verified, Message

\* A record that CBC decrypts is as long as it says, and what reads as padding in it has
\* the length of some padding.
LEMMA CbcBytes ==
  ASSUME RpTypeInv, Receives, Transform.mode = "cbc", CbcSane(InLen)
  PROVE  /\ Len(Decrypted) = InLen - ExplicitIv
         /\ Len(Decrypted) \in Nat /\ Len(Decrypted) >= Transform.mac + 1
         /\ \A j \in 1..Len(Decrypted) :
              Decrypted[j][1] = "pad" => Decrypted[j][2] \in 0..(Transform.iv - 1)
<1>1. rpKind \in RpKinds /\ rpNet \in Seq(OnWay) /\ Formed(rpNet) /\ rpSent \in Seq(Message)
      BY DEF RpTypeInv, Formed
<1>2. InLen \in Nat /\ Body \in Seq(Units) /\ Len(Body) \in Nat
  <2>1. 1 \in 1..Len(rpNet) /\ Head(rpNet) = rpNet[1]
        BY <1>1, EmptySeq DEF Receives
  <2> QED
    BY <1>1, <2>1, FormedAt DEF InLen, Body
<1>3. InLen - ExplicitIv \in Nat /\ InLen - ExplicitIv >= Transform.mac + 1
  <2>1. ExplicitIv \in {0, 8, 16} /\ Transform.mac \in {20, 32}
        BY <1>1, TransformFacts
  <2>2. InLen >= ExplicitIv + Transform.mac + 1
        BY DEF CbcSane
  <2> QED
    BY <1>2, <2>1, <2>2
<1> DEFINE blocks == (ExplicitIv \div Transform.iv + 1)..Len(Body)
           good == {k \in blocks : BlockGood(k)}
           at(j) == ExplicitIv + j - 1
           block(j) == at(j) \div Transform.iv + 1
           byte(j) == IF block(j) \in good
                      THEN PlainByte(Body[block(j)][1],
                             Body[block(j)][2] * Transform.iv + (at(j) % Transform.iv))
                      ELSE StrayByte
<1>4. Decrypted = [j \in 1..(InLen - ExplicitIv) |-> byte(j)]
      BY DEF Decrypted, With
<1>5. Len(Decrypted) = InLen - ExplicitIv
      BY <1>3, <1>4, LengthOf
<1>6. ASSUME NEW j \in 1..(InLen - ExplicitIv), byte(j)[1] = "pad"
      PROVE  byte(j)[2] \in 0..(Transform.iv - 1)
  <2>1. CASE block(j) \in good
    <3> DEFINE k == block(j)
    <3>1. k \in 1..Len(Body) /\ Body[k] # Damaged
      <4>1. k \in blocks /\ BlockGood(k)
            BY <2>1
      <4>2. ExplicitIv \div Transform.iv + 1 \in Nat /\ ExplicitIv \div Transform.iv + 1 >= 1
            BY <1>1, TransformFacts
      <4> HIDE DEF k
      <4> QED
        BY <1>2, <4>1, <4>2 DEF BlockGood
    <3>2. Body[k] \in (1..Len(rpSent)) \X Nat
          BY <1>2, <3>1, ElementOfSeq DEF Units
    <3> DEFINE r == Body[k][1]
               q == Body[k][2] * Transform.iv + (at(j) % Transform.iv)
    <3>3. r \in 1..Len(rpSent)
          BY <3>2
    <3>4. rpSent[r].len \in Nat
      <4>1. rpSent[r] \in Message
            BY <1>1, <3>3, ElementOfSeq
      <4> QED
        BY <4>1 DEF Message
    <3>5. PadLen(rpSent[r].len + Transform.mac) \in 0..(Transform.iv - 1)
          BY <1>1, <3>4, LengthFacts
    <3>6. byte(j) = PlainByte(r, q)
          BY <2>1
    <3> HIDE DEF r, q, byte
    <3>7. PlainByte(r, q)[1] = "pad" => PlainByte(r, q)[2] = PadLen(rpSent[r].len + Transform.mac)
          BY DEF PlainByte, With
    <3> QED
      BY <1>6, <3>5, <3>6, <3>7
  <2>2. CASE block(j) \notin good
        BY <1>6, <2>2 DEF StrayByte
  <2> QED
    BY <2>1, <2>2
<1> HIDE DEF byte
<1> QED
  BY <1>3, <1>4, <1>5, <1>6

\* The steps of ssl_decrypt_buf, by how they end.
LEMMA DecryptJudges ==
  ASSUME RpTypeInv, DecryptShort \/ DecryptStream \/ DecryptGcm \/ DecryptCbc
  PROVE  Receives /\ Received /\ Judges /\ rpInPos' \in Nat
<1>1. rpKind \in RpKinds /\ rpNet \in Seq(OnWay) /\ rpInPos \in Nat /\ Formed(rpNet)
      BY DEF RpTypeInv, Formed
<1>2. ASSUME Receives
      PROVE  InLen \in Nat /\ Head(rpNet) \in OnWay /\ Body \in Seq(Units)
             /\ Len(Body) = InLen \div Unit /\ Len(Body) \in Nat
  <2>1. 1 \in 1..Len(rpNet) /\ Head(rpNet) = rpNet[1]
        BY <1>1, <1>2, EmptySeq DEF Receives
  <2> QED
    BY <1>1, <2>1, FormedAt DEF InLen, Body
<1>3. CASE DecryptShort
      BY <1>1, <1>3 DEF DecryptShort, Judges
<1>4. CASE DecryptStream
  <2> DEFINE n == InLen - Transform.mac
  <2>1. /\ Receives /\ Transform.iv = 0 /\ InLen >= Transform.min
        /\ IF n < 0 THEN Fail("died")
           ELSE IF MacMatches(Decrypted, n) THEN Accept(n) ELSE Fail("failed")
        /\ rpInPos' = rpInPos + InLen
        /\ Received
        BY <1>4 DEF DecryptStream
  <2>2. n < 0 => Transform.mode \in {"gcm", "null"}
        BY <1>1, <1>2, <2>1, TransformFacts
  <2> QED
    BY <1>1, <1>2, <2>1, <2>2, MacVerifies DEF Judges
<1>5. CASE DecryptGcm
  <2> DEFINE n == InLen - ExplicitIv - 16
             r == rpInCtr + 1
  <2>1. /\ Receives /\ Transform.iv = 12
        /\ IF n < 0 THEN Fail("died")
           ELSE IF /\ r <= Len(rpSent)
                   /\ rpSent[r].type = Head(rpNet).type /\ rpSent[r].len = n
                   /\ \A j \in 1..InLen : Body[j] = <<r, j - 1>>
                   /\ SameKey("key") /\ SameKey("iv")
                THEN Accept(n) ELSE Fail("failed")
        /\ Received /\ rpInPos' = rpInPos
        BY <1>5 DEF DecryptGcm
  <2>2. Transform.mode \in {"gcm", "null"}
        BY <1>1, <2>1, TransformFacts
  <2>3. n \in Int /\ r \in Nat /\ r >= 1
        BY <1>1, <1>2, <2>1, TransformFacts DEF RpTypeInv
  <2> HIDE DEF n
  <2>4. Len(rpSent) \in Nat
        BY LenProperties DEF RpTypeInv
  <2>5. CASE n < 0
        BY <1>1, <2>1, <2>2, <2>5 DEF Judges
  <2>6. CASE ~ n < 0 /\ r <= Len(rpSent) /\ rpSent[r].type = Head(rpNet).type /\ rpSent[r].len = n
    <3>1. n \in Nat /\ Verified(n)
          BY <2>3, <2>4, <2>6 DEF Verified
    <3> QED
      BY <1>1, <2>1, <2>6, <3>1 DEF Judges
  <2> QED
    BY <1>1, <2>1, <2>3, <2>5, <2>6 DEF Judges
<1>6. CASE DecryptCbc
  <2>1. Receives /\ Transform.mode = "cbc" /\ Received /\ rpInPos' = rpInPos
        BY <1>6 DEF DecryptCbc
  <2>2. CASE ~CbcSane(InLen)
        BY <1>1, <1>6, <2>1, <2>2 DEF DecryptCbc, Judges
  <2>3. CASE CbcSane(InLen)
    <3> DEFINE N(plain, v, correct) == Len(plain) - Transform.mac - PaddingTaken(plain, v, correct)
    <3>1. PICK agree \in BOOLEAN, v \in LastByte(Decrypted) :
            LET correct == PaddingCorrect(Decrypted, v, agree)
                n == N(Decrypted, v, correct)
            IN  IF n < 0 THEN Fail("died")
                ELSE IF correct /\ MacMatches(Decrypted, n) THEN Accept(n)
                ELSE Fail("failed")
          BY <1>6, <2>3 DEF DecryptCbc
    <3> DEFINE correct == PaddingCorrect(Decrypted, v, agree)
               n == N(Decrypted, v, correct)
    <3>2. ~ n < 0
      <4>1. Len(Decrypted) \in Nat /\ Len(Decrypted) >= Transform.mac + 1
            BY <2>1, <2>3, CbcBytes
      <4>2. v \in Int
        <5>1. Len(Decrypted) \in 1..Len(Decrypted)
              BY <1>1, <2>1, <4>1, TransformFacts
        <5>2. Decrypted[Len(Decrypted)][1] = "pad"
                => Decrypted[Len(Decrypted)][2] \in 0..(Transform.iv - 1)
              BY <2>1, <2>3, <5>1, CbcBytes
        <5>3. v \in RpStray \/ v \in 0..(Transform.iv - 1)
              BY <5>2 DEF LastByte
        <5> QED
          <6>1. Transform.iv \in {8, 16} /\ RpStray \subseteq 0..255
                BY <1>1, <2>1, RpAssumption, TransformFacts
          <6>2. CASE v \in RpStray
            <7>1. v \in 0..255
                  BY <6>1, <6>2
            <7> QED
              BY ONLY <7>1
          <6>3. CASE v \in 0..(Transform.iv - 1)
            <7>1. v \in 0..7 \/ v \in 0..15
                  BY ONLY <6>1, <6>3
            <7> QED
              BY ONLY <7>1
          <6> QED
            BY <5>3, <6>2, <6>3
      <4> QED
        BY <1>1, <2>1, <4>1, <4>2, TransformFacts DEF PaddingTaken, PaddingCorrect
    <3>3. Judges
          BY <3>1, <3>2, MacVerifies DEF Judges
    <3> QED
      BY <1>1, <2>1, <3>3
  <2> QED
    BY <2>2, <2>3
<1> QED
  BY <1>3, <1>4, <1>5, <1>6

-----------------------------------------------------------------------------
(* RecordProtection: only what was sent *)

\* A step that leaves the types as they are, and all that was accepted.
LEMMA AcceptedKept ==
  ASSUME Accepted, UNCHANGED <<rpKind, rpSent, rpInCtr, rpGot>>, Formed(rpNet)',
         rpShared' \subseteq {"key", "mac", "iv"},
         rpInPos' \in Nat, rpZero' \in Nat, rpFaults' \in Nat,
         rpState' \in {"closed", "open", "failed", "died"},
         rpState' = "died" => rpState = "died" \/ Transform.mode \in {"gcm", "null"}
  PROVE  Accepted'
<1>1. RpTypeInv'
      BY DEF Accepted, RpTypeInv, Message
<1>2. RpOnlyWhatWasSent'
      BY DEF Accepted, RpOnlyWhatWasSent
<1>3. RpNoWrap'
      BY DEF Accepted, RpNoWrap, Transform
<1> QED
  BY <1>1, <1>2, <1>3 DEF Accepted

\* What the tail of the network is, behind the record that is received.
LEMMA ReceivedFormed ==
  ASSUME RpTypeInv, Receives, Received
  PROVE  Formed(rpNet)' /\ Head(rpNet) \in OnWay
<1>1. Formed(rpNet) /\ rpNet # <<>>
      BY DEF RpTypeInv, Receives
<1>2. Formed(Tail(rpNet)) /\ Head(rpNet) = rpNet[1] /\ 1 \in 1..Len(rpNet)
      BY <1>1, TailFormed
<1>3. Head(rpNet) \in OnWay
      BY <1>1, <1>2, FormedAt
<1> QED
  BY <1>2, <1>3, FormedKept DEF Received

\* ssl_decrypt_buf hands out the record its counter stands at, or none.
LEMMA DecryptAccepts ==
  ASSUME Accepted, DecryptShort \/ DecryptStream \/ DecryptGcm \/ DecryptCbc
  PROVE  Accepted'
<1>1. RpTypeInv /\ rpInCtr \in Nat /\ rpZero \in Nat /\ rpFaults \in Nat
      BY DEF Accepted, RpTypeInv
<1>2. Receives /\ Received /\ Judges /\ rpInPos' \in Nat
      BY <1>1, DecryptJudges
<1>3. Formed(rpNet)' /\ Head(rpNet) \in OnWay
      BY <1>1, <1>2, ReceivedFormed
<1>4. /\ UNCHANGED <<rpKind, rpSent, rpShared, rpFaults>>
      /\ rpState = "open" /\ rpShared \subseteq {"key", "mac", "iv"}
      BY <1>1, <1>2 DEF Received, Receives, RpTypeInv
<1>5. CASE Fail("failed") \/ (Transform.mode \in {"gcm", "null"} /\ Fail("died"))
      BY <1>1, <1>2, <1>3, <1>4, <1>5, AcceptedKept DEF Fail
<1>6. ASSUME NEW n \in Nat, Verified(n), Accept(n)
      PROVE  Accepted'
  <2>1. CASE n = 0 /\ rpZero + 1 > 3
    <3>1. rpState' = "failed" /\ rpZero' = rpZero + 1 /\ UNCHANGED <<rpInCtr, rpGot>>
          BY <1>6, <2>1 DEF Accept
    <3> QED
      BY <1>1, <1>2, <1>3, <1>4, <3>1, AcceptedKept
  <2>2. CASE ~(n = 0 /\ rpZero + 1 > 3)
    <3> DEFINE m == [type |-> Head(rpNet).type, len |-> n]
    <3>1. /\ rpZero' = IF n = 0 THEN rpZero + 1 ELSE 0
          /\ rpInCtr' = rpInCtr + 1 /\ rpGot' = Append(rpGot, m) /\ rpState' = rpState
          BY <1>6, <2>2 DEF Accept
    <3>2. /\ rpGot \in Seq([type : RpTypes \cup {"data"}, len : Nat]) /\ Len(rpGot) = rpInCtr
          /\ m \in [type : RpTypes \cup {"data"}, len : Nat]
          BY <1>3 DEF Accepted, RpTypeInv, OnWay
    <3>3. /\ rpGot' \in Seq([type : RpTypes \cup {"data"}, len : Nat])
          /\ Len(rpGot') = rpInCtr' /\ rpGot'[rpInCtr + 1] = m
          /\ \A i \in 1..rpInCtr : rpGot'[i] = rpGot[i]
          BY <3>1, <3>2, AppendProperties
    <3>4. RpTypeInv'
          BY <1>1, <1>2, <1>3, <1>4, <3>1, <3>3 DEF RpTypeInv, Message
    <3>5. /\ rpInCtr + 1 \in 1..Len(rpSent)
          /\ m.type = rpSent[rpInCtr + 1].type /\ m.len = rpSent[rpInCtr + 1].len
          BY <1>6 DEF Verified
    <3>6. \A i \in 1..rpInCtr : /\ rpGot[i].type = rpSent[i].type
                                /\ rpGot[i].len = rpSent[i].len
          BY <3>2 DEF Accepted, RpOnlyWhatWasSent
    <3>7. RpOnlyWhatWasSent'
      <4> SUFFICES ASSUME NEW i \in 1..(rpInCtr + 1)
                   PROVE  rpGot'[i].type = rpSent[i].type /\ rpGot'[i].len = rpSent[i].len
        BY <1>4, <3>1, <3>3, <3>5 DEF RpOnlyWhatWasSent
      <4>1. i \in 1..rpInCtr \/ i = rpInCtr + 1
            BY <1>1
      <4> QED
        BY <3>3, <3>5, <3>6, <4>1
    <3>8. RpNoWrap'
          BY <1>4, <3>1 DEF RpNoWrap
    <3> QED
      BY <3>3, <3>4, <3>7, <3>8 DEF Accepted
  <2> QED
    BY <2>1, <2>2
<1> QED
  BY <1>2, <1>5, <1>6 DEF Judges

\* Before the first record nothing is accepted.
LEMMA AcceptedInit == RpInit => Accepted
<1> SUFFICES ASSUME RpInit PROVE Accepted
  OBVIOUS
<1>1. rpSent \in Seq(Message) /\ rpNet \in Seq(OnWay)
      /\ rpGot \in Seq([type : RpTypes \cup {"data"}, len : Nat])
      /\ Len(rpSent) = 0 /\ Len(rpNet) = 0 /\ Len(rpGot) = 0
      BY EmptySeq DEF RpInit
<1>2. RpTypeInv
      BY <1>1 DEF RpInit, RpTypeInv, Formed
<1> QED
  BY <1>1, <1>2 DEF RpInit, Accepted, RpOnlyWhatWasSent, RpNoWrap

\* Every step of the two ends and of the network leaves it so.
LEMMA AcceptedStep == Accepted /\ [RpNext]_rpVars => Accepted'
<1> SUFFICES ASSUME Accepted, [RpNext]_rpVars PROVE Accepted'
  OBVIOUS
<1>1. /\ RpTypeInv /\ Formed(rpNet) /\ rpShared \subseteq {"key", "mac", "iv"}
      /\ rpInPos \in Nat /\ rpZero \in Nat /\ rpFaults \in Nat
      /\ rpState \in {"closed", "open", "failed", "died"}
      BY DEF Accepted, RpTypeInv
<1>2. CASE UNCHANGED rpVars
  <2>1. Formed(rpNet)'
        BY <1>1, <1>2, FormedKept DEF rpVars
  <2> QED
    BY <1>1, <1>2, <2>1, AcceptedKept DEF rpVars
<1>3. CASE DeriveKeys
  <2>1. Formed(rpNet)'
        BY <1>1, <1>3, FormedKept DEF DeriveKeys
  <2>2. rpShared' \subseteq {"key", "mac", "iv"}
        BY <1>3 DEF DeriveKeys, KeysOf
  <2> QED
    BY <1>1, <1>3, <2>1, <2>2, AcceptedKept DEF DeriveKeys
<1>4. ASSUME NEW len \in RpLengths, Encrypt("data", len)
      PROVE  Accepted'
  <2>1. /\ rpSent' \in Seq(Message) /\ Len(rpSent') = Len(rpSent) + 1 /\ Len(rpSent) \in Nat
        /\ \A r \in 1..Len(rpSent) : rpSent'[r] = rpSent[r]
        /\ Formed(rpNet)'
        BY <1>1, <1>4, EncryptFormed
  <2>2. UNCHANGED <<rpKind, rpShared, rpInCtr, rpInPos, rpInIv, rpZero, rpGot, rpFaults, rpState>>
        BY <1>4 DEF Encrypt
  <2>3. RpTypeInv'
        BY <1>1, <2>1, <2>2 DEF RpTypeInv, Message
  <2>4. RpOnlyWhatWasSent'
    <3>1. Len(rpGot) \in Nat /\ Len(rpGot) <= Len(rpSent)
          BY LenProperties DEF Accepted, RpTypeInv, RpOnlyWhatWasSent
    <3> QED
      BY <2>1, <2>2, <3>1 DEF Accepted, RpOnlyWhatWasSent
  <2>5. RpNoWrap'
        BY <2>2 DEF Accepted, RpNoWrap, Transform
  <2> QED
    BY <2>2, <2>3, <2>4, <2>5 DEF Accepted
<1>5. CASE DecryptShort \/ DecryptStream \/ DecryptGcm \/ DecryptCbc
      BY <1>5, DecryptAccepts
<1>6. ASSUME NEW i \in 1..Len(rpNet),
             Damage(i) \/ Cut(i) \/ Retype(i) \/ Drop(i) \/ Repeat(i) \/ Exchange(i) \/ Splice(i)
      PROVE  Accepted'
  <2>1. PICK net : Formed(net) /\ Fault(net)
        BY <1>1, <1>6, FaultsFormed
  <2>2. /\ rpNet' = net /\ rpFaults' = rpFaults + 1
        /\ UNCHANGED <<rpKind, rpShared, rpSent, rpInCtr, rpInPos, rpInIv, rpZero, rpGot, rpState>>
        BY <2>1 DEF Fault
  <2>3. Formed(rpNet)'
        BY <2>1, <2>2, FormedKept
  <2> QED
    BY <1>1, <2>2, <2>3, AcceptedKept
<1> QED
  BY <1>2, <1>3, <1>4, <1>5, <1>6 DEF RpNext

\* Whatever the network damages, cuts, drops, repeats or exchanges, the receiver is handed
\* what was sent, in order and with nothing left out in between: the MAC or the tag of a
\* record covers its place (ssl_encrypt_buf against ssl_decrypt_buf).
THEOREM OnlyWhatWasSentAlways == RpSpec => []RpOnlyWhatWasSent
<1>1. Accepted => RpOnlyWhatWasSent
      BY DEF Accepted
<1> QED
  BY <1>1, AcceptedInit, AcceptedStep, PTL DEF RpSpec

\* No length of a message is ever negative but where a suite has no minimum that keeps a
\* record from being shorter than its MAC or its tag (ssl_decrypt_buf).
THEOREM NoWrapAlways == RpSpec => []RpNoWrap
<1>1. Accepted => RpNoWrap
      BY DEF Accepted
<1> QED
  BY <1>1, AcceptedInit, AcceptedStep, PTL DEF RpSpec

-----------------------------------------------------------------------------
(* RecordProtection: what nobody touched is accepted *)

\* A pass over whole hashes writes every byte: the last one is cut (tls1_prf, tls_prf_sha256).
LEMMA HashFills ==
  ASSUME NEW step \in {16, 20, 32, 48}, NEW dlen \in {48, 256}, NEW j \in 0..(dlen - 1)
  PROVE  j \in HashPass(step, dlen)
<1> DEFINE i == j \div step
           k == IF i * step + step > dlen THEN dlen % step ELSE step
<1>1. i \in 0..((dlen - 1) \div step) /\ j \in i * step .. i * step + k - 1
  <2>1. CASE step = 16
        BY <2>1
  <2>2. CASE step = 20
        BY <2>2
  <2>3. CASE step = 32
        BY <2>3
  <2>4. CASE step = 48
        BY <2>4
  <2> QED
    BY <2>1, <2>2, <2>3, <2>4
<1> DEFINE Part(x) == LET m == IF x * step + step > dlen THEN dlen % step ELSE step
                      IN  x * step .. x * step + m - 1
<1>2. HashPass(step, dlen) = UNION {Part(x) : x \in 0..((dlen - 1) \div step)}
      BY DEF HashPass
<1>3. PICK x \in 0..((dlen - 1) \div step) : x = i
      BY <1>1
<1>4. j \in Part(x)
      BY <1>1, <1>3
<1> HIDE DEF Part, i, k
<1> QED
  BY <1>2, <1>4

\* So the PRF of every version sets a whole master secret and a whole key block.
LEMMA PrfFillsAll ==
  ASSUME NEW k \in RpKinds, NEW dlen \in {48, 256}, NEW j \in 0..(dlen - 1)
  PROVE  j \in PrfFills(k, 13, dlen)
<1>1. k.ver \in 0..3
      BY RpAssumption
<1>2. CASE k.ver = 0
      BY <1>2 DEF PrfFills, Ssl3Pass
<1>3. CASE k.ver \in {1, 2}
  <2>1. j \in HashPass(16, dlen) /\ j \in HashPass(20, dlen)
        BY HashFills
  <2> QED
    BY <1>3, <2>1 DEF PrfFills
<1>4. CASE k.ver = 3
  <2>1. j \in HashPass(32, dlen) /\ j \in HashPass(48, dlen)
        BY HashFills
  <2> QED
    BY <1>4, <2>1 DEF PrfFills
<1> QED
  BY <1>1, <1>2, <1>3, <1>4

\* Both ends derive the same keys, each for the other's direction (ssl_derive_keys).
LEMMA KeysAreShared ==
  ASSUME rpKind \in RpKinds, DeriveKeys
  PROVE  rpShared' = {"key", "mac", "iv"}
<1>1. PICK sender \in {"client", "server"} :
        LET receiver == CHOOSE e \in {"client", "server"} : e # sender
            s == Lengths[rpKind.suite]
            enc == KeysOf(sender, rpKind, Slices(sender, s).enc)
            dec == KeysOf(receiver, rpKind, Slices(receiver, s).dec)
        IN  rpShared' = IF Derived(sender, rpKind, 48) = Derived(receiver, rpKind, 48)
                        THEN {part \in DOMAIN enc : enc[part] = dec[part]} ELSE {}
      BY DEF DeriveKeys
<1>2. PICK receiver : receiver = CHOOSE e \in {"client", "server"} : e # sender
      OBVIOUS
<1>3. receiver \in {"client", "server"} /\ receiver # sender
      BY <1>2
<1>4. ASSUME NEW dlen \in {48, 256}
      PROVE  Derived(sender, rpKind, dlen) = Derived(receiver, rpKind, dlen)
      BY PrfFillsAll DEF Derived
<1> DEFINE s == Lengths[rpKind.suite]
           cut == Slices(sender, s).enc
<1>5. Slices(receiver, s).dec = cut
      BY <1>3 DEF Slices
<1> HIDE DEF cut
<1>6. KeysOf(receiver, rpKind, cut) = KeysOf(sender, rpKind, cut)
      BY <1>4 DEF KeysOf
<1>7. DOMAIN KeysOf(sender, rpKind, cut) = {"key", "mac", "iv"}
      BY DEF KeysOf
<1>8. rpShared' = {part \in DOMAIN KeysOf(sender, rpKind, cut) :
                     KeysOf(sender, rpKind, cut)[part] = KeysOf(receiver, rpKind, cut)[part]}
      BY <1>1, <1>2, <1>4, <1>5 DEF cut
<1> QED
  BY <1>6, <1>7, <1>8

\* The record at the head of the network, when nobody has touched any: the next one.
LEMMA HeadIsNext ==
  ASSUME Undamaged, rpFaults = 0, Receives
  PROVE  LET r == rpInCtr + 1
         IN  /\ r \in 1..Len(rpSent) /\ rpSent[r] \in Message /\ rpSent[r].len \in Nat
             /\ Head(rpNet).type = rpSent[r].type
             /\ InLen = WireLength(rpSent[r].len)
             /\ Body = [i \in 1..(InLen \div Unit) |-> <<r, i - 1>>]
             /\ Len(Body) = InLen \div Unit /\ InLen \in Nat
<1> DEFINE r == rpInCtr + 1
<1>1. /\ rpKind \in RpKinds /\ Formed(rpNet) /\ rpNet # <<>> /\ rpInCtr \in Nat
      /\ rpSent \in Seq(Message) /\ InStep
      BY DEF Undamaged, RpTypeInv, Receives
<1>2. Head(rpNet) = rpNet[1] /\ 1 \in 1..Len(rpNet) /\ Len(rpNet) \in Nat
      BY <1>1, TailFormed
<1>3. Len(rpSent) \in Nat /\ rpInCtr + Len(rpNet) = Len(rpSent)
      BY <1>1, LenProperties DEF InStep
<1>4. r \in 1..Len(rpSent)
      BY <1>1, <1>2, <1>3
<1>5. rpSent[r] \in Message /\ rpSent[r].len \in Nat
  <2>1. rpSent[r] \in Message
        BY <1>1, <1>4, ElementOfSeq
  <2> QED
    BY <2>1 DEF Message
<1>6. rpNet[1] = Made(r)
      BY <1>2, <1>1 DEF InStep
<1>7. Len(rpNet[1].body) = rpNet[1].len \div Unit /\ rpNet[1].len \in Nat
      BY <1>1, <1>2, FormedAt
<1> HIDE DEF r
<1>8. /\ Head(rpNet).type = rpSent[r].type
      /\ InLen = WireLength(rpSent[r].len)
      /\ Body = [i \in 1..(InLen \div Unit) |-> <<r, i - 1>>]
  <2> DEFINE len == WireLength(rpSent[r].len)
             b == [i \in 1..(len \div Unit) |-> <<r, i - 1>>]
  <2>1. Made(r) = [type |-> rpSent[r].type, len |-> len, body |-> b]
        BY DEF Made
  <2> HIDE DEF b, len
  <2>2. Head(rpNet).type = rpSent[r].type /\ InLen = len /\ Body = b
        BY <1>2, <1>6, <2>1 DEF InLen, Body
  <2> QED
    BY <2>2 DEF len, b
<1> QED
  BY <1>2, <1>4, <1>5, <1>7, <1>8 DEF r, InLen, Body

\* Plaintext that is what the record was made of has its MAC.
LEMMA MadeMatches ==
  ASSUME Undamaged, rpFaults = 0, Receives, NEW plain,
         \A j \in 1..(rpSent[rpInCtr + 1].len + Transform.mac) :
           plain[j] = PlainByte(rpInCtr + 1, ExplicitIv + j - 1)
  PROVE  MacMatches(plain, rpSent[rpInCtr + 1].len)
<1>1. rpInCtr + 1 \in 1..Len(rpSent) /\ Head(rpNet).type = rpSent[rpInCtr + 1].type
      BY HeadIsNext
<1>2. SameKey("mac")
      BY DEF Undamaged, Receives, SameKey
<1> QED
  BY <1>1, <1>2 DEF MacMatches

\* A stream cipher decrypts it in step with the keystream.
LEMMA StreamAccepts ==
  ASSUME Undamaged, rpFaults = 0, Receives, DecryptStream
  PROVE  /\ Accept(rpSent[rpInCtr + 1].len)
         /\ Transform.mode = "stream" => rpInPos' = StreamAt(rpInCtr + 1)
<1> DEFINE r == rpInCtr + 1
           len == rpSent[r].len
<1>1. rpKind \in RpKinds /\ Transform.iv = 0 /\ InStep /\ rpInCtr \in Nat
      BY DEF DecryptStream, Undamaged, Receives, RpTypeInv
<1>2. Transform.mode \in {"stream", "null"} /\ Transform.mac \in Nat /\ ExplicitIv = 0 /\ Unit = 1
      BY <1>1, TransformFacts
<1>3. /\ r \in 1..Len(rpSent) /\ len \in Nat /\ InLen = WireLength(len)
      /\ Body = [i \in 1..(InLen \div Unit) |-> <<r, i - 1>>]
      BY HeadIsNext
<1>4. InLen = len + Transform.mac /\ InLen \div 1 = InLen /\ InLen \in Nat
  <2>1. InLen = len + Transform.mac /\ InLen \in Nat
        BY <1>1, <1>2, <1>3, LengthFacts
  <2>2. \A w \in Nat : w \div 1 = w
        OBVIOUS
  <2> QED
    BY ONLY <2>1, <2>2
<1>5. ASSUME NEW j \in 1..InLen
      PROVE  Decrypted[j] = PlainByte(r, j - 1)
  <2>1. Decrypted[j] = StreamByte(j)
        BY <1>2 DEF Decrypted
  <2>2. Body[j] = <<r, j - 1>>
        BY <1>2, <1>3, <1>4
  <2>3. Body[j] # Damaged
        BY <1>1, <2>2 DEF Damaged
  <2>4. Transform.mode = "stream" => SameKey("key") /\ rpSent[r].at + (j - 1) = rpInPos + j - 1
    <3>1. SameKey("key")
          BY DEF Undamaged, Receives, SameKey
    <3>2. rpSent[r].at = StreamAt(rpInCtr)
          BY <1>1, <1>3 DEF InStep
    <3>3. rpSent[r].at \in Nat
          BY HeadIsNext DEF Message
    <3> QED
      BY <1>1, <3>1, <3>2, <3>3 DEF InStep
  <2>5. Body[j][1] = r /\ Body[j][2] = j - 1
        BY <2>2
  <2> QED
    BY <2>1, <2>3, <2>4, <2>5 DEF StreamByte
<1>6. MacMatches(Decrypted, len)
      BY <1>2, <1>4, <1>5, MadeMatches
<1>7. InLen - Transform.mac = len /\ ~ len < 0
      BY <1>2, <1>3, <1>4
<1>8. Accept(len)
      BY <1>6, <1>7 DEF DecryptStream
<1>9. Transform.mode = "stream" => rpInPos' = StreamAt(r)
  <2> SUFFICES ASSUME Transform.mode = "stream" PROVE rpInPos' = StreamAt(r)
    OBVIOUS
  <2>1. rpInPos' = rpInPos + InLen /\ rpInPos = StreamAt(rpInCtr) /\ rpSent[r].at = StreamAt(rpInCtr)
        BY <1>1, <1>3 DEF DecryptStream, InStep
  <2>2. r # 0 /\ rpSent[r].at \in Nat
        BY <1>1, HeadIsNext DEF Message
  <2> QED
    BY <1>2, <1>3, <1>4, <2>1, <2>2 DEF StreamAt
<1> QED
  BY <1>8, <1>9

\* GCM opens it.
LEMMA GcmAccepts ==
  ASSUME Undamaged, rpFaults = 0, Receives, DecryptGcm
  PROVE  Accept(rpSent[rpInCtr + 1].len)
<1> DEFINE r == rpInCtr + 1
           len == rpSent[r].len
<1>1. rpKind \in RpKinds /\ Transform.iv = 12 /\ rpInCtr \in Nat /\ Len(rpSent) \in Nat
      BY LenProperties DEF DecryptGcm, Undamaged, RpTypeInv
<1>2. Transform.mode = "gcm" /\ ExplicitIv = 8 /\ Unit = 1
      BY <1>1, TransformFacts
<1>3. /\ r \in 1..Len(rpSent) /\ len \in Nat /\ InLen = WireLength(len)
      /\ Head(rpNet).type = rpSent[r].type
      /\ Body = [i \in 1..(InLen \div Unit) |-> <<r, i - 1>>]
      BY HeadIsNext
<1>4. InLen = len + 24 /\ InLen \div 1 = InLen /\ InLen \in Nat
  <2>1. InLen = len + 24 /\ InLen \in Nat
        BY <1>1, <1>2, <1>3, LengthFacts
  <2>2. \A w \in Nat : w \div 1 = w
        OBVIOUS
  <2> QED
    BY ONLY <2>1, <2>2
<1>5. InLen - ExplicitIv - 16 = len /\ ~ len < 0
      BY <1>2, <1>3, <1>4
<1>6. \A j \in 1..InLen : Body[j] = <<r, j - 1>>
      BY <1>2, <1>3, <1>4
<1>7. SameKey("key") /\ SameKey("iv")
      BY DEF Undamaged, Receives, SameKey
<1>8. r <= Len(rpSent)
      BY <1>1, <1>3
<1> QED
  BY <1>3, <1>5, <1>6, <1>7, <1>8 DEF DecryptGcm

\* The block a byte of whole blocks lies in.
LEMMA BlockOf ==
  ASSUME NEW iv \in {8, 16}, NEW len \in Nat, len % iv = 0, NEW at \in Nat, at < len
  PROVE  /\ at \div iv + 1 \in 1..(len \div iv) /\ at \div iv \in Nat
         /\ (at \div iv) * iv + (at % iv) = at
         /\ at >= iv => at \div iv > 0
<1>1. CASE iv = 8
      BY <1>1
<1>2. CASE iv = 16
      BY <1>2
<1> QED
  BY <1>1, <1>2

\* Every block decrypts, chained to the one before or to the last of the record before.
LEMMA BlocksGood ==
  ASSUME Undamaged, rpFaults = 0, Receives, Transform.mode = "cbc",
         NEW k \in 1..Len(Body), k > 1 \/ ExplicitIv = 0
  PROVE  BlockGood(k) /\ Body[k] = <<rpInCtr + 1, k - 1>>
<1> DEFINE r == rpInCtr + 1
<1>1. /\ rpKind \in RpKinds /\ rpInCtr \in Nat /\ rpInIv = IvBehind(rpInCtr) /\ r >= 1
      /\ rpShared = {"key", "mac", "iv"}
      BY DEF Undamaged, Receives, RpTypeInv, InStep
<1>2. \A i \in 1..Len(Body) : Body[i] = <<r, i - 1>>
      BY HeadIsNext
<1>3. Len(Body) \in Nat /\ k \in Nat /\ k >= 1
  <2>1. InLen \in Nat /\ Unit \in {8, 16} /\ Len(Body) = InLen \div Unit
        BY <1>1, HeadIsNext, TransformFacts
  <2> QED
    BY <2>1
<1>4. Body[k] = <<r, k - 1>> /\ Body[k][1] = r /\ Body[k][2] = k - 1
      BY <1>2
<1>5. Body[k] # Damaged
      BY <1>1, <1>4 DEF Damaged
<1>6. SameKey("key") /\ SameKey("iv")
      BY <1>1 DEF SameKey
<1>7. Body[k][2] > 0 \/ ExplicitIv = 0
      BY <1>3, <1>4
<1>8. (IF k = 1 THEN rpInIv ELSE Body[k - 1]) = ChainedTo(Body[k])
  <2>1. CASE k = 1
    <3>1. ~ Body[k][2] > 0
          BY <1>4, <2>1
    <3>2. CASE r = 1
          BY <1>1, <1>4, <2>1, <3>1, <3>2 DEF ChainedTo, IvBehind
    <3>3. CASE r # 1
      <4>1. r - 1 = rpInCtr /\ rpInCtr # 0
            BY <1>1, <3>3
      <4> QED
        BY <1>1, <1>4, <2>1, <3>1, <3>3, <4>1 DEF ChainedTo, IvBehind
    <3> QED
      BY <3>2, <3>3
  <2>2. CASE k # 1
    <3>1. k - 1 \in 1..Len(Body) /\ k - 1 > 0
          BY <1>3, <2>2
    <3>2. Body[k - 1] = <<r, k - 1 - 1>>
          BY <1>2, <3>1
    <3> QED
      BY <1>4, <2>2, <3>1, <3>2 DEF ChainedTo
  <2> QED
    BY <2>1, <2>2
<1> QED
  BY <1>4, <1>5, <1>6, <1>7, <1>8 DEF BlockGood

\* CBC decrypts a whole record to what it was made of.
LEMMA CbcDecrypts ==
  ASSUME Undamaged, rpFaults = 0, Receives, Transform.mode = "cbc"
  PROVE  /\ CbcSane(InLen)
         /\ Len(Decrypted) = InLen - ExplicitIv
         /\ \A j \in 1..(InLen - ExplicitIv) :
              Decrypted[j] = PlainByte(rpInCtr + 1, ExplicitIv + j - 1)
<1> DEFINE r == rpInCtr + 1
           len == rpSent[r].len
<1>1. rpKind \in RpKinds /\ RpTypeInv
      BY DEF Undamaged, RpTypeInv
<1>2. /\ Transform.iv \in {8, 16} /\ Transform.mac \in {20, 32} /\ Unit = Transform.iv
      /\ ExplicitIv \in {0, Transform.iv} /\ ExplicitIv \in {0, 8, 16}
      BY <1>1, TransformFacts
<1>3. /\ len \in Nat /\ InLen = WireLength(len) /\ InLen \in Nat
      /\ Len(Body) = InLen \div Transform.iv
      BY <1>2, HeadIsNext
<1>4. PICK p \in 0..(Transform.iv - 1) : p = PadLen(len + Transform.mac)
      BY <1>1, <1>3, LengthFacts
<1>5. /\ InLen = ExplicitIv + len + Transform.mac + p + 1
      /\ InLen % Transform.iv = 0 /\ InLen >= ExplicitIv + Transform.iv
      BY <1>1, <1>3, <1>4, LengthFacts
<1>6. p \in Nat
      BY <1>2, <1>4
<1>7. CbcSane(InLen)
  <2>1. \A x, n, m \in Nat : x + n + m + p + 1 >= x + m + 1
        BY <1>6
  <2>2. InLen >= ExplicitIv + Transform.mac + 1
    <3>1. ExplicitIv \in Nat /\ len \in Nat /\ Transform.mac \in Nat
          BY <1>2, <1>3
    <3> HIDE DEF len
    <3> QED
      BY ONLY <1>5, <2>1, <3>1
  <2> QED
    BY <1>5, <2>2 DEF CbcSane
<1>8. Len(Decrypted) = InLen - ExplicitIv
      BY <1>1, <1>7, CbcBytes
<1>9. ASSUME NEW j \in 1..(InLen - ExplicitIv)
      PROVE  Decrypted[j] = PlainByte(r, ExplicitIv + j - 1)
  <2>1. PICK at \in Nat : at = ExplicitIv + j - 1
        BY <1>2, <1>3
  <2>2. at < InLen /\ at >= ExplicitIv
        BY <1>2, <1>3, <2>1
  <2>3. PICK k \in 1..Len(Body) : k = at \div Transform.iv + 1
        BY <1>2, <1>3, <1>5, <2>2, BlockOf
  <2>4. k - 1 = at \div Transform.iv /\ (k - 1) * Transform.iv + (at % Transform.iv) = at
    <3>1. /\ at \div Transform.iv \in Nat
          /\ (at \div Transform.iv) * Transform.iv + (at % Transform.iv) = at
          BY <1>2, <1>3, <1>5, <2>2, BlockOf
    <3>2. k - 1 = at \div Transform.iv
          BY <2>3, <3>1
    <3> QED
      BY ONLY <3>1, <3>2
  <2>5. k > 1 \/ ExplicitIv = 0
    <3>1. at >= Transform.iv => at \div Transform.iv > 0 /\ at \div Transform.iv \in Nat
          BY <1>2, <1>3, <1>5, <2>2, BlockOf
    <3> QED
      BY <1>2, <2>2, <2>3, <3>1
  <2>6. BlockGood(k) /\ Body[k] = <<r, k - 1>>
        BY <2>5, BlocksGood
  <2>7. k \in (ExplicitIv \div Transform.iv + 1)..Len(Body)
    <3>1. ExplicitIv \div Transform.iv \in {0, 1} /\ (ExplicitIv = 0 => ExplicitIv \div Transform.iv = 0)
          BY <1>2
    <3> QED
      BY <2>3, <2>5, <3>1
  <2> DEFINE blocks == (ExplicitIv \div Transform.iv + 1)..Len(Body)
             good == {b \in blocks : BlockGood(b)}
             place(i) == ExplicitIv + i - 1
             block(i) == place(i) \div Transform.iv + 1
             byte(i) == IF block(i) \in good
                        THEN PlainByte(Body[block(i)][1],
                               Body[block(i)][2] * Transform.iv + (place(i) % Transform.iv))
                        ELSE StrayByte
  <2>8. Decrypted = [i \in 1..(InLen - ExplicitIv) |-> byte(i)]
        BY DEF Decrypted, With
  <2>9. block(j) = k /\ k \in good /\ place(j) = at
        BY <2>1, <2>3, <2>6, <2>7
  <2>10. byte(j) = PlainByte(r, (k - 1) * Transform.iv + (at % Transform.iv))
    <3>1. Body[k][1] = r /\ Body[k][2] = k - 1
          BY <2>6
    <3> HIDE DEF block, place, good
    <3> QED
      BY <2>9, <3>1
  <2> HIDE DEF byte
  <2> QED
    BY <2>1, <2>4, <2>8, <2>10
<1> QED
  BY <1>7, <1>8, <1>9

\* Its padding is taken off, and the next IV is its last block.
LEMMA CbcAccepts ==
  ASSUME Undamaged, rpFaults = 0, Receives, DecryptCbc
  PROVE  Accept(rpSent[rpInCtr + 1].len) /\ rpInIv' = IvBehind(rpInCtr + 1)
<1> DEFINE r == rpInCtr + 1
           len == rpSent[r].len
           L == InLen - ExplicitIv
<1>1. rpKind \in RpKinds /\ RpTypeInv /\ rpInCtr \in Nat /\ Transform.mode = "cbc"
      BY DEF Undamaged, RpTypeInv, DecryptCbc
<1>2. /\ Transform.iv \in {8, 16} /\ Transform.mac \in {20, 32} /\ Unit = Transform.iv
      /\ ExplicitIv \in {0, 8, 16}
      BY <1>1, TransformFacts
<1>3. /\ len \in Nat /\ InLen = WireLength(len) /\ InLen \in Nat
      /\ Len(Body) = InLen \div Transform.iv
      /\ Body = [i \in 1..(InLen \div Transform.iv) |-> <<r, i - 1>>]
      BY <1>2, HeadIsNext
<1>4. PICK p \in Nat : p = PadLen(len + Transform.mac) /\ p + 1 <= Transform.iv
  <2>1. PadLen(len + Transform.mac) \in 0..(Transform.iv - 1)
        BY <1>1, <1>3, LengthFacts
  <2> QED
    BY <1>2, <2>1
<1>5. PICK n, m, x \in Nat : n = len /\ m = Transform.mac /\ x = ExplicitIv
      BY <1>2, <1>3
<1>6. L = n + m + p + 1 /\ L \in Nat /\ InLen >= Transform.iv
  <2>1. InLen = x + n + m + p + 1 /\ InLen >= x + Transform.iv
        BY <1>1, <1>3, <1>4, <1>5, LengthFacts
  <2>2. \A iv \in {8, 16} : \A w \in Nat : w >= x + iv => w >= iv
        BY <1>5
  <2>3. InLen >= Transform.iv
        BY ONLY <1>2, <1>3, <2>1, <2>2
  <2>4. x + n + m + p + 1 - x = n + m + p + 1 /\ n + m + p + 1 \in Nat
        OBVIOUS
  <2>5. L = n + m + p + 1
        BY <1>5, <2>1, <2>4
  <2> QED
    BY <2>3, <2>4, <2>5
<1>7. /\ CbcSane(InLen) /\ Len(Decrypted) = L
      /\ \A j \in 1..L : Decrypted[j] = PlainByte(r, ExplicitIv + j - 1)
      BY <1>1, CbcDecrypts
<1> HIDE DEF L, len
<1>8. ASSUME NEW j \in (L - p)..L
      PROVE  j \in 1..L /\ Decrypted[j] = <<"pad", p, 0>>
  <2>1. j \in 1..L /\ ~ j - 1 < n /\ ~ j - 1 < n + m /\ x + j - 1 - x = j - 1
        BY <1>4, <1>5, <1>6
  <2>2. Decrypted[j] = PlainByte(r, ExplicitIv + j - 1)
        BY <1>7, <2>1
  <2>3. PlainByte(r, x + j - 1)
          = IF x + j - 1 - x < n THEN <<"data", r, x + j - 1 - x>>
            ELSE IF x + j - 1 - x < n + m THEN <<"mac", r, x + j - 1 - x - n>>
            ELSE <<"pad", p, 0>>
        BY <1>4, <1>5 DEF PlainByte, With, len
  <2>4. PlainByte(r, ExplicitIv + j - 1) = <<"pad", p, 0>>
        BY <1>5, <2>1, <2>3
  <2> QED
    BY <2>1, <2>2, <2>4
<1>9. LastByte(Decrypted) = {p}
  <2>1. L \in (L - p)..L
        BY <1>4, <1>6
  <2>2. Decrypted[L] = <<"pad", p, 0>>
        BY <1>8, <2>1
  <2> QED
    BY <1>7, <2>2 DEF LastByte
<1>10. \A agree \in BOOLEAN : PaddingCorrect(Decrypted, p, agree)
  <2>1. L >= Transform.mac + p + 1
        BY <1>4, <1>5, <1>6
  <2> QED
    BY <1>4, <1>7, <1>8, <2>1 DEF PaddingCorrect
<1>11. MacMatches(Decrypted, len)
  <2>1. \A j \in 1..(len + Transform.mac) : j \in 1..L
        BY <1>4, <1>5, <1>6
  <2> QED
    BY <1>7, <2>1, MadeMatches DEF len
<1>12. L - Transform.mac - (p + 1) = len /\ ~ len < 0
       BY <1>4, <1>5, <1>6
<1>13. PICK agree \in BOOLEAN, v \in LastByte(Decrypted) :
         LET correct == PaddingCorrect(Decrypted, v, agree)
             rest == Len(Decrypted) - Transform.mac - PaddingTaken(Decrypted, v, correct)
         IN  IF rest < 0 THEN Fail("died")
             ELSE IF correct /\ MacMatches(Decrypted, rest) THEN Accept(rest)
             ELSE Fail("failed")
       BY <1>7 DEF DecryptCbc
<1>14. v = p /\ PaddingCorrect(Decrypted, v, agree)
       BY <1>9, <1>10
<1>15. PaddingTaken(Decrypted, v, PaddingCorrect(Decrypted, v, agree)) = p + 1
       BY <1>14 DEF PaddingTaken
<1>16. Accept(len)
       BY <1>7, <1>11, <1>12, <1>13, <1>14, <1>15
<1>17. rpInIv' = IvBehind(r)
  <2>1. rpInIv' = Body[Len(Body)]
        BY <1>7 DEF DecryptCbc
  <2>2. InLen \div Transform.iv \in 1..(InLen \div Transform.iv)
        BY <1>2, <1>3, <1>6
  <2>3. Body[Len(Body)] = <<r, WireLength(len) \div Transform.iv - 1>>
        BY <1>3, <2>2
  <2>4. r # 0
        BY <1>1
  <2> QED
    BY <2>1, <2>3, <2>4 DEF IvBehind, len
<1> QED
  BY <1>16, <1>17 DEF len

\* Lengths depend on the suite alone.
LEMMA LengthsKept ==
  ASSUME rpKind' = rpKind
  PROVE  /\ Transform' = Transform /\ Unit' = Unit /\ ExplicitIv' = ExplicitIv
         /\ \A len : WireLength(len)' = WireLength(len)
  BY DEF Transform, Unit, ExplicitIv, WireLength, Padded, PadLen

\* A step that has nothing to do with records under way.
LEMMA InStepKept ==
  ASSUME InStep, UNCHANGED <<rpKind, rpSent, rpNet, rpInCtr, rpInPos, rpInIv, rpZero>>
  PROVE  InStep'
  BY LengthsKept DEF InStep, Made, StreamAt, IvBehind

\* What is known of a record that was sent stays when another is.
LEMMA MadeKept ==
  ASSUME rpKind' = rpKind, NEW r, rpSent'[r] = rpSent[r]
  PROVE  Made(r)' = Made(r) /\ StreamAt(r)' = StreamAt(r) /\ IvBehind(r)' = IvBehind(r)
  BY LengthsKept DEF Made, StreamAt, IvBehind

\* ssl_encrypt_buf puts the next record behind those under way.
LEMMA EncryptInStep ==
  ASSUME Undamaged, rpFaults = 0, NEW len \in RpLengths, Encrypt("data", len)
  PROVE  InStep'
<1> DEFINE n == Len(rpSent) + 1
<1>1. /\ RpTypeInv /\ InStep /\ rpInCtr \in Nat /\ rpZero \in Nat
      /\ rpSent \in Seq(Message)
      BY DEF Undamaged, RpTypeInv, Encrypt
<1>2. /\ rpSent' \in Seq(Message) /\ Len(rpSent') = n
      /\ \A r \in 1..Len(rpSent) : rpSent'[r] = rpSent[r]
      /\ rpSent'[n].len = len
      /\ rpSent'[n].at = IF rpSent = <<>> THEN 0
                         ELSE rpSent[Len(rpSent)].at + rpSent[Len(rpSent)].len + Transform.mac
      /\ Len(rpSent) \in Nat /\ Len(rpNet) \in Nat
      /\ Len(rpNet') = Len(rpNet) + 1
      /\ \A i \in 1..Len(rpNet) : rpNet'[i] = rpNet[i]
      /\ rpNet'[Len(rpNet) + 1]
           = [type |-> "data", len |-> WireLength(len),
              body |-> [i \in 1..(WireLength(len) \div Unit) |-> <<n, i - 1>>]]
      BY <1>1, EncryptFormed
<1>3. UNCHANGED <<rpKind, rpInCtr, rpInPos, rpInIv, rpZero>>
      BY DEF Encrypt
<1>4. rpInCtr + Len(rpNet) = Len(rpSent)
      BY <1>1 DEF InStep
<1>5. \A r \in 1..Len(rpSent) : Made(r)' = Made(r) /\ StreamAt(r)' = StreamAt(r)
                                /\ IvBehind(r)' = IvBehind(r)
      BY <1>2, <1>3, MadeKept
<1>6. StreamAt(0)' = StreamAt(0) /\ IvBehind(0)' = IvBehind(0)
      BY DEF StreamAt, IvBehind
<1>7. ASSUME NEW i \in 1..(Len(rpNet) + 1)
      PROVE  rpNet'[i] = Made(rpInCtr + i)'
  <2>1. PICK r : r = rpInCtr + i
        OBVIOUS
  <2>2. CASE i \in 1..Len(rpNet)
    <3>1. r \in 1..Len(rpSent)
          BY <1>1, <1>2, <1>4, <2>1, <2>2
    <3>2. rpNet[i] = Made(r)
          BY <1>1, <2>1, <2>2 DEF InStep
    <3>3. rpNet'[i] = Made(r)'
          BY <1>2, <1>5, <2>2, <3>1, <3>2
    <3> QED
      BY <1>3, <2>1, <3>3
  <2>3. CASE i = Len(rpNet) + 1
    <3>1. r = n /\ n \in 1..Len(rpSent')
          BY <1>1, <1>2, <1>4, <2>1, <2>3
    <3>2. rpSent'[n].type = "data"
      <4>1. rpSent'[n] \in Message
            BY <1>2, <3>1, ElementOfSeq
      <4> QED
        BY <4>1 DEF Message
    <3>3. WireLength(len)' = WireLength(len) /\ Unit' = Unit
          BY <1>3, LengthsKept
    <3>4. Made(r)' = [type |-> "data", len |-> WireLength(len),
                      body |-> [j \in 1..(WireLength(len) \div Unit) |-> <<n, j - 1>>]]
          BY <1>2, <3>1, <3>2, <3>3 DEF Made
    <3>5. rpNet'[i] = Made(r)'
          BY <1>2, <2>3, <3>4
    <3> QED
      BY <1>3, <2>1, <3>5
  <2> QED
    BY <1>2, <2>2, <2>3
<1>8. ASSUME NEW r \in 1..n
      PROVE  rpSent'[r].at = StreamAt(r - 1)'
  <2>1. PICK q : q = r - 1
        OBVIOUS
  <2>2. q \in 0..Len(rpSent)
        BY <1>2, <2>1
  <2>3. StreamAt(q)' = StreamAt(q)
        BY <1>5, <1>6, <2>2
  <2>4. CASE r \in 1..Len(rpSent)
        BY <1>1, <1>2, <2>1, <2>3, <2>4 DEF InStep
  <2>5. CASE r = n
    <3>1. q = Len(rpSent) /\ (q = 0 <=> rpSent = <<>>)
          BY <1>1, <1>2, <2>1, <2>5, EmptySeq
    <3>2. rpSent'[r].at = StreamAt(q)
          BY <1>2, <2>5, <3>1 DEF StreamAt
    <3> QED
      BY <2>1, <2>3, <3>2
  <2> QED
    BY <1>2, <2>4, <2>5
<1>9. StreamAt(rpInCtr)' = StreamAt(rpInCtr) /\ IvBehind(rpInCtr)' = IvBehind(rpInCtr)
  <2>1. PICK q : q = rpInCtr
        OBVIOUS
  <2>2. q \in 0..Len(rpSent)
        BY <1>1, <1>2, <1>4, <2>1
  <2>3. StreamAt(q)' = StreamAt(q) /\ IvBehind(q)' = IvBehind(q)
        BY <1>5, <1>6, <2>2
  <2> QED
    BY <1>3, <2>1, <2>3
<1>10. \A i \in (rpInCtr - rpZero + 1)..rpInCtr : rpSent'[i].len = 0
  <2> SUFFICES ASSUME NEW i \in (rpInCtr - rpZero + 1)..rpInCtr PROVE rpSent'[i].len = 0
    OBVIOUS
  <2>1. rpZero <= rpInCtr /\ rpSent[i].len = 0
        BY <1>1 DEF InStep
  <2>2. i \in 1..Len(rpSent)
        BY <1>1, <1>2, <1>4, <2>1
  <2> QED
    BY <1>2, <2>1, <2>2
<1>11. Transform' = Transform
       BY <1>3, LengthsKept
<1>12. rpInCtr + (Len(rpNet) + 1) = n
       BY <1>1, <1>2, <1>4
<1> QED
  BY <1>1, <1>2, <1>3, <1>7, <1>8, <1>9, <1>10, <1>11, <1>12 DEF InStep

\* ssl_decrypt_buf accepts the next record whatever the suite, and moves on by it.
LEMMA NextAccepted ==
  ASSUME Undamaged, rpFaults = 0, DecryptShort \/ DecryptStream \/ DecryptGcm \/ DecryptCbc
  PROVE  /\ Receives /\ Received /\ Accept(rpSent[rpInCtr + 1].len)
         /\ Transform.mode = "stream" => rpInPos' = StreamAt(rpInCtr + 1)
         /\ Transform.mode = "cbc" => rpInIv' = IvBehind(rpInCtr + 1)
<1>1. Receives /\ Received
      BY DEF DecryptShort, DecryptStream, DecryptGcm, DecryptCbc
<1>2. rpKind \in RpKinds
      BY DEF Undamaged, RpTypeInv
<1>3. CASE DecryptShort
  <2>1. InLen >= Transform.min /\ InLen \in Nat /\ Transform.min \in Nat
    <3>1. rpSent[rpInCtr + 1].len \in Nat /\ InLen = WireLength(rpSent[rpInCtr + 1].len)
          BY <1>1, HeadIsNext
    <3>2. InLen >= Transform.min /\ InLen \in Nat
          BY <1>2, <3>1, LengthFacts
    <3>3. Transform.min \in Nat
          BY <1>2, TransformFacts
    <3> QED
      BY <3>2, <3>3
  <2>2. \A a, b \in Nat : a >= b => ~ a < b
        OBVIOUS
  <2> QED
    BY <1>3, <2>1, <2>2 DEF DecryptShort
<1>4. CASE DecryptStream
  <2>1. Transform.mode # "cbc"
        BY <1>2, <1>4, TransformFacts DEF DecryptStream
  <2> QED
    BY <1>1, <1>4, <2>1, StreamAccepts
<1>5. CASE DecryptGcm
  <2>1. Transform.mode = "gcm"
        BY <1>2, <1>5, TransformFacts DEF DecryptGcm
  <2> QED
    BY <1>1, <1>5, <2>1, GcmAccepts
<1>6. CASE DecryptCbc
  <2>1. Transform.mode = "cbc"
        BY <1>6 DEF DecryptCbc
  <2> QED
    BY <1>1, <1>6, <2>1, CbcAccepts
<1> QED
  BY <1>3, <1>4, <1>5, <1>6

\* ssl_decrypt_buf stays in step, or this was the fourth empty record in a row.
LEMMA DecryptInStep ==
  ASSUME Undamaged, rpFaults = 0, DecryptShort \/ DecryptStream \/ DecryptGcm \/ DecryptCbc
  PROVE  \/ rpState' = "open" /\ rpShared' = rpShared /\ InStep'
         \/ rpState' = "failed" /\ RpUndamagedAccepted'
<1> DEFINE r == rpInCtr + 1
           len == rpSent[r].len
<1>1. /\ Receives /\ Received /\ Accept(len)
      /\ Transform.mode = "stream" => rpInPos' = StreamAt(r)
      /\ Transform.mode = "cbc" => rpInIv' = IvBehind(r)
      BY NextAccepted
<1>2. /\ rpState = "open" /\ rpNet # <<>> /\ rpNet' = Tail(rpNet)
      /\ UNCHANGED <<rpKind, rpShared, rpSent, rpFaults>>
      BY <1>1 DEF Receives, Received
<1>3. /\ InStep /\ Formed(rpNet) /\ rpInCtr \in Nat /\ rpZero \in Nat /\ rpSent \in Seq(Message)
      BY <1>2 DEF Undamaged, RpTypeInv
<1>4. /\ Len(rpNet') = Len(rpNet) - 1 /\ Len(rpNet) \in Nat /\ Len(rpNet) >= 1
      /\ \A i \in 1..(Len(rpNet) - 1) : rpNet'[i] = rpNet[i + 1]
      BY <1>2, <1>3, TailFormed
<1>5. r \in 1..Len(rpSent) /\ len \in Nat /\ Len(rpSent) \in Nat
      BY <1>1, <1>3, HeadIsNext, LenProperties
<1>6. rpZero <= rpInCtr /\ \A i \in (rpInCtr - rpZero + 1)..rpInCtr : rpSent[i].len = 0
      BY <1>3 DEF InStep
<1>7. CASE len = 0 /\ rpZero + 1 > 3
  <2>1. rpState' = "failed" /\ rpZero' = rpZero + 1 /\ rpInCtr' = rpInCtr
        BY <1>1, <1>7 DEF Accept
  <2>2. ASSUME NEW i \in (rpInCtr - 2)..(rpInCtr + 1)
        PROVE  rpSent[i].len = 0
    <3>1. i = r \/ i \in (rpInCtr - rpZero + 1)..rpInCtr
          BY <1>3, <1>7
    <3> QED
      BY <1>6, <1>7, <3>1
  <2> QED
    BY <1>2, <1>7, <2>1, <2>2 DEF RpUndamagedAccepted
<1>8. CASE ~(len = 0 /\ rpZero + 1 > 3)
  <2>1. /\ rpZero' = IF len = 0 THEN rpZero + 1 ELSE 0
        /\ rpInCtr' = r /\ rpState' = rpState
        BY <1>1, <1>8 DEF Accept
  <2>2. rpInCtr' + Len(rpNet') = Len(rpSent')
    <3>1. rpInCtr + Len(rpNet) = Len(rpSent)
          BY <1>3 DEF InStep
    <3> QED
      BY <1>2, <1>3, <1>4, <2>1, <3>1
  <2>3. \A q : Made(q)' = Made(q) /\ StreamAt(q)' = StreamAt(q) /\ IvBehind(q)' = IvBehind(q)
        BY <1>2, MadeKept
  <2>4. ASSUME NEW i \in 1..Len(rpNet')
        PROVE  rpNet'[i] = Made(rpInCtr + 1 + i)
    <3>1. i \in 1..(Len(rpNet) - 1) /\ i + 1 \in 1..Len(rpNet) /\ rpInCtr + (i + 1) = rpInCtr + 1 + i
          BY <1>3, <1>4
    <3> QED
      BY <1>3, <1>4, <3>1 DEF InStep
  <2>5. \A i \in 1..Len(rpNet') : rpNet'[i] = Made(rpInCtr + i)'
    <3> SUFFICES ASSUME NEW i \in 1..Len(rpNet') PROVE rpNet'[i] = Made(rpInCtr + i)'
      OBVIOUS
    <3>1. PICK q : q = rpInCtr + 1 + i
          OBVIOUS
    <3>2. rpNet'[i] = Made(q)'
          BY <2>3, <2>4, <3>1
    <3> QED
      BY <2>1, <3>1, <3>2
  <2>6. \A q \in 1..Len(rpSent') : rpSent'[q].at = StreamAt(q - 1)'
    <3> SUFFICES ASSUME NEW q \in 1..Len(rpSent) PROVE rpSent'[q].at = StreamAt(q - 1)'
      BY <1>2
    <3>1. PICK s : s = q - 1
          OBVIOUS
    <3>2. StreamAt(s)' = StreamAt(s) /\ rpSent[q].at = StreamAt(s)
          BY <1>3, <2>3, <3>1 DEF InStep
    <3> QED
      BY <1>2, <3>1, <3>2
  <2>7. /\ Transform'.mode = "stream" => rpInPos' = StreamAt(rpInCtr)'
        /\ Transform'.mode = "cbc" => rpInIv' = IvBehind(rpInCtr)'
    <3>1. PICK q : q = r
          OBVIOUS
    <3>2. StreamAt(q)' = StreamAt(q) /\ IvBehind(q)' = IvBehind(q) /\ Transform' = Transform
          BY <1>2, <2>3, LengthsKept
    <3>3. StreamAt(rpInCtr)' = StreamAt(q)' /\ IvBehind(rpInCtr)' = IvBehind(q)'
          BY <2>1, <3>1
    <3> QED
      BY <1>1, <3>1, <3>2, <3>3
  <2>8. rpZero' <= rpInCtr' /\ \A i \in (rpInCtr' - rpZero' + 1)..rpInCtr' : rpSent[i].len = 0
    <3>1. CASE len = 0
      <4>1. rpZero' = rpZero + 1 /\ rpInCtr' = rpInCtr + 1
            BY <2>1, <3>1
      <4>2. ASSUME NEW i \in (rpInCtr' - rpZero' + 1)..rpInCtr'
            PROVE  rpSent[i].len = 0
        <5>1. i = r \/ i \in (rpInCtr - rpZero + 1)..rpInCtr
              BY <1>3, <4>1
        <5> QED
          BY <1>6, <3>1, <5>1
      <4> QED
        BY <1>3, <1>6, <4>1, <4>2
    <3>2. CASE len # 0
          BY <1>3, <2>1, <3>2
    <3> QED
      BY <3>1, <3>2
  <2>9. InStep'
        BY <1>2, <2>2, <2>5, <2>6, <2>7, <2>8 DEF InStep
  <2> QED
    BY <1>2, <2>1, <2>9
<1> QED
  BY <1>7, <1>8

\* Before the keys are derived nothing is under way.
LEMMA UndamagedInit == RpInit => Undamaged
<1> SUFFICES ASSUME RpInit PROVE Undamaged
  OBVIOUS
<1>1. RpTypeInv
      BY AcceptedInit DEF Accepted
<1>2. Len(rpSent) = 0 /\ Len(rpNet) = 0 /\ rpSent = <<>>
      BY EmptySeq DEF RpInit
<1>3. InStep
      BY <1>2 DEF RpInit, InStep, StreamAt, IvBehind
<1> QED
  BY <1>1, <1>2, <1>3 DEF RpInit, Undamaged, RpUndamagedAccepted

\* Every step keeps the ends in step, or counts as a fault.
LEMMA UndamagedStep ==
  ASSUME Accepted, Undamaged, [RpNext]_rpVars
  PROVE  Undamaged'
<1>1. RpTypeInv'
      BY AcceptedStep DEF Accepted
<1>2. RpTypeInv /\ rpKind \in RpKinds /\ rpFaults \in Nat
      BY DEF Accepted, RpTypeInv
<1>3. CASE UNCHANGED rpVars
  <2>1. InStep => InStep'
        BY <1>3, InStepKept DEF rpVars
  <2> QED
    BY <1>1, <1>3, <2>1 DEF Undamaged, RpUndamagedAccepted, rpVars
<1>4. CASE DeriveKeys
  <2>1. /\ UNCHANGED <<rpKind, rpSent, rpNet, rpInCtr, rpInPos, rpInIv, rpZero, rpFaults>>
        /\ rpState = "closed" /\ rpState' = "open" /\ rpShared' = {"key", "mac", "iv"}
        BY <1>2, <1>4, KeysAreShared DEF DeriveKeys
  <2>2. InStep => InStep'
        BY <2>1, InStepKept
  <2> QED
    BY <1>1, <2>1, <2>2 DEF Undamaged, RpUndamagedAccepted
<1>5. ASSUME NEW len \in RpLengths, Encrypt("data", len)
      PROVE  Undamaged'
  <2>1. /\ rpState = "open" /\ UNCHANGED <<rpShared, rpFaults, rpState>>
        BY <1>5 DEF Encrypt
  <2>2. rpFaults = 0 => InStep'
        BY <1>5, EncryptInStep
  <2> QED
    BY <1>1, <2>1, <2>2 DEF Undamaged, RpUndamagedAccepted
<1>6. CASE DecryptShort \/ DecryptStream \/ DecryptGcm \/ DecryptCbc
  <2>1. rpFaults' = rpFaults /\ rpState = "open"
        BY <1>6 DEF DecryptShort, DecryptStream, DecryptGcm, DecryptCbc, Received, Receives
  <2>2. rpFaults = 0 => \/ rpState' = "open" /\ rpShared' = rpShared /\ InStep'
                        \/ rpState' = "failed" /\ RpUndamagedAccepted'
        BY <1>6, DecryptInStep
  <2> QED
    BY <1>1, <2>1, <2>2 DEF Undamaged, RpUndamagedAccepted
<1>7. ASSUME NEW i \in 1..Len(rpNet),
             Damage(i) \/ Cut(i) \/ Retype(i) \/ Drop(i) \/ Repeat(i) \/ Exchange(i) \/ Splice(i)
      PROVE  Undamaged'
  <2>1. PICK net : Fault(net)
        BY <1>2, <1>7, FaultsFormed
  <2>2. rpFaults' # 0
        BY <1>2, <2>1 DEF Fault
  <2> QED
    BY <1>1, <2>2 DEF Undamaged
<1> QED
  BY <1>3, <1>4, <1>5, <1>6, <1>7 DEF RpNext

\* Without a fault both ends derive the same keys and every record is accepted, whatever
\* its suite, version and length, unless it is the fourth empty one in a row
\* (ssl_derive_keys, ssl_encrypt_buf, ssl_decrypt_buf).
THEOREM UndamagedAcceptedAlways == RpSpec => []RpUndamagedAccepted
<1>1. RpInit => Accepted /\ Undamaged
      BY AcceptedInit, UndamagedInit
<1>2. Accepted /\ Undamaged /\ [RpNext]_rpVars => (Accepted /\ Undamaged)'
      BY AcceptedStep, UndamagedStep
<1>3. Accepted /\ Undamaged => RpUndamagedAccepted
      BY DEF Undamaged, RpUndamagedAccepted
<1> QED
  BY <1>1, <1>2, <1>3, PTL DEF RpSpec

\* What Library sees of the records: they are in use from the beginning, or never.
RpPartSpec == (RpInit \/ RpAtRest) /\ [][~RpAtRest /\ RpNext]_rpVars

\* In Library too, ssl_decrypt_buf accepts only what was made for it, all of what nobody
\* touched, and lets no length wrap but those of GCM and NULL suites.
THEOREM RecordsProtectedAlways == RpPartSpec => []RecordsProtected
<1> DEFINE Inv == RpAtRest \/ (Accepted /\ Undamaged)
<1>1. RpInit \/ RpAtRest => Inv
      BY AcceptedInit, UndamagedInit
<1>2. Inv /\ [~RpAtRest /\ RpNext]_rpVars => Inv'
  <2>1. CASE UNCHANGED rpVars /\ RpAtRest
        BY <2>1 DEF RpAtRest, rpVars
  <2>2. CASE Accepted /\ Undamaged
        BY <2>2, AcceptedStep, UndamagedStep
  <2> QED
    BY <2>1, <2>2
<1>3. Inv => RecordsProtected
      BY DEF Accepted, Undamaged, RpUndamagedAccepted, RecordsProtected
<1> QED
  BY <1>1, <1>2, <1>3, PTL DEF RpPartSpec

=============================================================================
