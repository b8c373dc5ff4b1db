------------------------------- MODULE Random -------------------------------
(***************************************************************************)
(* Random numbers: the entropy accumulator (entropy.c), the sources it      *)
(* polls (entropy_poll.c) and the generator it seeds (ctr_drbg.c).  A call  *)
(* that needs a seed is begun, polls the sources round by round, each of    *)
(* which may give little, nothing or an error, and is finished or refused.  *)
(*                                                                         *)
(* Every update makes a new key and puts the counter anywhere; under one    *)
(* key a block of output is the counter it was encrypted from.  The counter *)
(* is kept digit by digit, as the code carries it.  Block, seed and hash    *)
(* lengths are the code's; what polarssl lets be configured is a constant.  *)
(***************************************************************************)
EXTENDS Integers, Sequences, FiniteSets

CONSTANTS
  RdSources,     \* sequence of [threshold, gives]: the lengths a poll may give, -1 an error
  RdMaxLoop,     \* ENTROPY_MAX_LOOP
  RdMaxInput,    \* CTR_DRBG_MAX_INPUT
  RdMaxRequest,  \* CTR_DRBG_MAX_REQUEST
  RdMaxSeed,     \* CTR_DRBG_MAX_SEED_INPUT
  RdEntropyLen,  \* CTR_DRBG_ENTROPY_LEN
  RdInterval,    \* CTR_DRBG_RESEED_INTERVAL
  RdRequests,    \* lengths of output asked for
  RdInputs,      \* lengths of additional input
  RdDigit,       \* values of one byte of the counter
  RdDigits,      \* bytes of the counter
  RdMaxCalls     \* bound: calls of the generator

ASSUME RdAssumption ==
  /\ RdMaxLoop \in Nat /\ RdInterval \in Nat
  /\ RdDigit \in Nat \ {0, 1} /\ RdDigits \in Nat \ {0}
  /\ RdMaxInput \in Nat /\ RdMaxRequest \in Nat /\ RdMaxSeed \in Nat /\ RdEntropyLen \in Nat
  /\ RdInputs \subseteq Nat /\ RdRequests \subseteq Nat
  /\ \A i \in 1..Len(RdSources) : RdSources[i].threshold \in Nat

VARIABLES
  rdSize,    \* source[i].size: what each source has given since the last seed
  rdPool,    \* the bytes of each source in the accumulator that no seed was made of
  rdDrawn,   \* rdPool when the last seed was drawn
  rdLoop,    \* count of entropy_func
  rdCall,    \* the call that waits for a seed, [out, add], or Idle
  rdGen,     \* [ctr, used, twice]: counter, the counters encrypted under the key,
             \* and whether any was encrypted twice
  rdCount,   \* reseed_counter
  rdSince,   \* requests answered since the last seed
  rdResist,  \* prediction_resistance
  rdOver,    \* what block_cipher_df was given that its buffer does not hold, [by, len]
  rdCalls,   \* calls so far
  rdRet      \* what the last call returned: "ok", "error" or "none" during one

entropyVars == <<rdSize, rdPool, rdDrawn>>
drbgVars == <<rdGen, rdCount, rdSince, rdResist>>
rdVars == <<entropyVars, drbgVars, rdOver, rdLoop, rdCall, rdCalls, rdRet>>

SourceIds == 1..Len(RdSources)
Counters == [1..RdDigits -> 0..(RdDigit - 1)]
Idle == [out |-> -1, add |-> 0]
InitCall(add) == [out |-> -2, add |-> add]

-----------------------------------------------------------------------------
(* The generator's blocks *)

\* Defect: the carry is forgotten.
IncrementNoCarry(ctr) == [ctr EXCEPT ![RdDigits] = (@ + 1) % RdDigit]

\* The loop over counter[i - 1] from the last byte up to one that does not wrap.
Increment(ctr) ==
  LET wraps(i) == \A j \in (i + 1)..RdDigits : ctr[j] = RdDigit - 1
  IN  [i \in 1..RdDigits |-> IF wraps(i) THEN (ctr[i] + 1) % RdDigit ELSE ctr[i]]

\* The counter as it is incremented n times.
Counting(ctr, n) ==
  LET at[i \in 0..n] == IF i = 0 THEN ctr ELSE Increment(at[i - 1]) IN at

\* n blocks are encrypted, the counter incremented before each.
Crypt(g, n) ==
  LET ctr == Counting(g.ctr, n)
      new == {ctr[i] : i \in 1..n}
  IN  [ctr |-> ctr[n], used |-> g.used \cup new,
       twice |-> g.twice \/ Cardinality(new) < n \/ new \cap g.used # {}]

\* ctr_drbg_update_internal: three blocks are key and counter from now on.
UpdateInternal(g, ctr) == [Crypt(g, 3) EXCEPT !.ctr = ctr, !.used = {}]

\* ctr_drbg_random_with_add behind its checks: additional input, output, update.
Generate(g, out, add, ctr) ==
  LET mixed == IF add > 0 THEN UpdateInternal(g, ctr) ELSE g
  IN  UpdateInternal(Crypt(mixed, (out + 15) \div 16), ctr)

\* block_cipher_df reads its input in whole blocks behind an IV and two lengths, in
\* a buffer that is only so long.
DfFits(len) ==
  LET read == ((16 + 8 + len + 1 + 15) \div 16) * 16 IN read <= RdMaxSeed + 16 + 16

\* block_cipher_df takes an input of a caller.  It checks no length.
BlockCipherDf(by, len) ==
  rdOver' = rdOver \cup IF DfFits(len) THEN {} ELSE {[by |-> by, len |-> len]}

-----------------------------------------------------------------------------
(* Calls *)

Return(ret) == rdRet' = ret /\ rdCall' = Idle /\ rdLoop' = 0

ReseedDue == rdCount > RdInterval \/ rdResist

\* ctr_drbg_reseed up to the call of entropy_func, which makes at most one hash.
BeginReseed(call) ==
  IF RdEntropyLen + call.add > RdMaxSeed \/ RdEntropyLen > 64
  THEN Return("error")
  ELSE rdCall' = call /\ rdLoop' = 0 /\ rdRet' = "none"

\* What a program does whose stack was overwritten is undefined: nothing is modelled
\* behind it.
Calling == rdCall = Idle /\ rdOver = {} /\ rdCalls < RdMaxCalls /\ rdCalls' = rdCalls + 1

CtrDrbgInit(custom) ==
  /\ Calling /\ rdCalls = 0
  /\ BeginReseed(InitCall(custom))
  /\ UNCHANGED <<entropyVars, drbgVars, rdOver>>

\* The request is refused, waits for a seed or is answered at once.
RandomWithAdd(out, add) ==
  /\ Calling /\ rdCalls > 0
  /\ IF out > RdMaxRequest \/ add > RdMaxInput
     THEN Return("error") /\ UNCHANGED <<drbgVars, rdOver>>
     ELSE IF ReseedDue
     THEN BeginReseed([out |-> out, add |-> add]) /\ UNCHANGED <<drbgVars, rdOver>>
     ELSE /\ IF add > 0 THEN BlockCipherDf("random", add) ELSE UNCHANGED rdOver
          /\ \E ctr \in Counters : rdGen' = Generate(rdGen, out, add, ctr)
          /\ rdCount' = rdCount + 1 /\ rdSince' = rdSince + 1
          /\ Return("ok")
          /\ UNCHANGED rdResist
  /\ UNCHANGED entropyVars

\* The input is taken whatever its length.
CtrDrbgUpdate(add) ==
  /\ Calling /\ rdCalls > 0
  /\ IF add > 0
     THEN BlockCipherDf("update", add) /\ \E ctr \in Counters : rdGen' = UpdateInternal(rdGen, ctr)
     ELSE UNCHANGED <<rdOver, rdGen>>
  /\ Return("ok")
  /\ UNCHANGED <<entropyVars, rdCount, rdSince, rdResist>>

SetPredictionResistance ==
  /\ Calling
  /\ rdResist' = ~rdResist
  /\ UNCHANGED <<entropyVars, rdGen, rdCount, rdSince, rdOver, rdCall, rdLoop, rdRet>>

-----------------------------------------------------------------------------
(* entropy_func *)

Waiting == rdCall # Idle

Reached == \A i \in SourceIds : rdSize[i] >= RdSources[i].threshold

\* entropy_gather: the sources are polled in order up to one that fails.
Gather ==
  /\ Waiting /\ rdLoop <= RdMaxLoop /\ (rdLoop = 0 \/ ~Reached)
  /\ \E gave \in [SourceIds -> UNION {RdSources[i].gives : i \in SourceIds}] :
       /\ \A i \in SourceIds : gave[i] \in RdSources[i].gives
       /\ LET failed == {i \in SourceIds : gave[i] = -1}
              got(i) == IF \E f \in failed : f <= i THEN 0 ELSE gave[i]
          IN  /\ rdSize' = [i \in SourceIds |-> rdSize[i] + got(i)]
              /\ rdPool' = [i \in SourceIds |-> rdPool[i] + got(i)]
              /\ IF failed # {} THEN Return("error")
                 ELSE rdLoop' = rdLoop + 1 /\ UNCHANGED <<rdCall, rdRet>>
  /\ UNCHANGED <<rdDrawn, drbgVars, rdOver, rdCalls>>

\* The sources have given too little for too long.
GatherFails ==
  /\ Waiting /\ rdLoop > RdMaxLoop /\ ~Reached
  /\ Return("error")
  /\ UNCHANGED <<entropyVars, drbgVars, rdOver, rdCalls>>

\* The sizes after a seed was drawn.
SizesCleared == [i \in SourceIds |-> 0]

\* The accumulator is hashed and starts anew, and ctr_drbg_reseed goes on: the seed
\* and the additional input are reduced and mixed in, and the call that needed it
\* is answered without mixing its additional input in again.
Seed ==
  /\ Waiting /\ rdLoop > 0 /\ Reached
  /\ rdDrawn' = rdPool
  /\ rdPool' = [i \in SourceIds |-> 0]
  /\ rdSize' = SizesCleared
  /\ BlockCipherDf("reseed", RdEntropyLen + rdCall.add)
  /\ \E ctr \in Counters :
       LET seeded == UpdateInternal(rdGen, ctr)
       IN  IF rdCall = InitCall(rdCall.add)
           THEN rdGen' = seeded /\ rdCount' = 1 /\ rdSince' = 0
           ELSE rdGen' = Generate(seeded, rdCall.out, 0, ctr) /\ rdCount' = 2 /\ rdSince' = 1
  /\ Return("ok")
  /\ UNCHANGED <<rdResist, rdCalls>>

-----------------------------------------------------------------------------
RdInit ==
  /\ rdSize = [i \in SourceIds |-> 0] /\ rdPool = rdSize
  /\ rdDrawn = [i \in SourceIds |-> RdSources[i].threshold]
  /\ rdLoop = 0 /\ rdCall = Idle
  /\ rdGen = [ctr |-> [i \in 1..RdDigits |-> 0], used |-> {}, twice |-> FALSE]
  /\ rdCount = 0 /\ rdSince = 0 /\ rdResist = FALSE /\ rdOver = {}
  /\ rdCalls = 0 /\ rdRet = "ok"

RdNext ==
  \/ \E add \in RdInputs : CtrDrbgInit(add) \/ CtrDrbgUpdate(add)
  \/ \E out \in RdRequests, add \in RdInputs : RandomWithAdd(out, add)
  \/ SetPredictionResistance \/ Gather \/ GatherFails \/ Seed

-----------------------------------------------------------------------------
(* Properties *)

\* A seed is drawn only when every source has given its share since the last one,
\* however many rounds, failures and calls lie in between (entropy_gather, entropy_func).
RdFreshEntropy == \A i \in SourceIds : rdDrawn[i] >= RdSources[i].threshold

\* No block of the generator is encrypted twice under one key, whether for output,
\* additional input or update (ctr_drbg_random_with_add, ctr_drbg_update_internal).
RdNoBlockTwice == ~rdGen.twice

\* No more requests than the interval are answered from one seed, also when calls
\* for a new one have failed (ctr_drbg_random_with_add, ctr_drbg_reseed).  rdCount is
\* rdSince as long as there was no seed at all.
RdSeedNotWornOut == rdCount > rdSince => rdSince <= RdInterval

\* Seeds and the additional input of a request are never too long for block_cipher_df's
\* buffer: what goes past it is an input of ctr_drbg_update, which checks no length, that
\* is longer than any seed may be (block_cipher_df, ctr_drbg_update).
RdReadsInBuffer == \A o \in rdOver : o.by = "update" /\ o.len > RdMaxSeed

\* No number is drawn: another part of the library is in use.
RdAtRest ==
  LET atRest == "at rest"
  IN  /\ rdRet = atRest /\ rdSize = atRest /\ rdPool = atRest /\ rdDrawn = atRest
      /\ rdLoop = atRest /\ rdCall = atRest /\ rdGen = atRest /\ rdCount = atRest
      /\ rdSince = atRest /\ rdResist = atRest /\ rdOver = atRest /\ rdCalls = atRest

\* A seed holds fresh entropy of every source, no block is encrypted twice, no seed
\* serves too many requests, and neither a seed nor the additional input of a request
\* overruns block_cipher_df's buffer.  An overlong input of ctr_drbg_update does: up to
\* there all of this holds, and nothing is said of what comes behind it
\* (entropy.c:146-200, ctr_drbg.c:88-360).
SeedsAreFresh ==
  RdAtRest \/ (RdFreshEntropy /\ RdNoBlockTwice /\ RdSeedNotWornOut /\ RdReadsInBuffer)
=============================================================================
