-------------------------------- MODULE Rsa --------------------------------
(***************************************************************************)
(* RSA keys and the two operations on them, as rsa.c has them, over small     *)
(* numbers.  Arithmetic is exact here: bignum.c has a module of its own.      *)
(*                                                                         *)
(* rsa_gen_key draws pairs of primes until one fits; a draw is one step,      *)
(* and what a refused draw leaves in the context and in G stays there.        *)
(***************************************************************************)
EXTENDS Integers, FiniteSets

CONSTANTS
  RsPrimes,      \* what mpi_gen_prime may return, by its number of bits
  RsBits,        \* key sizes asked for
  RsExponents,   \* public exponents asked for
  RsMinBits,     \* the smallest key (128 in the code)
  RsMaxBits,     \* the largest (POLARSSL_MPI_MAX_BITS)
  RsMaxExponentBits \* the largest public exponent (64)

VARIABLES
  rsCtx,         \* the key: N, E, D, P, Q, DP, DQ, QP
  rsG,           \* rsa_gen_key's G
  rsState        \* "empty", "drawing" (with nbits), "ready" or "failed"

rsVars == <<rsCtx, rsG, rsState>>

NoKey == [N |-> 0, E |-> 0, D |-> 0, P |-> 0, Q |-> 0, DP |-> 0, DQ |-> 0, QP |-> 0]

-----------------------------------------------------------------------------
(* Arithmetic *)

Divides(d, n) == n % d = 0
\* gcd of two numbers of which one is not 0 (mpi_gcd is module Bignum's).
Gcd(a, b) ==
  LET gcd[p \in Nat \X Nat] == IF p[2] = 0 THEN p[1] ELSE gcd[<<p[2], p[1] % p[2]>>]
  IN  gcd[<<a, b>>]

\* mpi_inv_mod; callers make sure that there is an inverse.
ModInverse(a, n) == CHOOSE x \in 0..(n - 1) : (a * x) % n = 1 % n

Invertible(a, n) == n > 1 /\ Gcd(a, n) = 1

\* mpi_exp_mod
ExpMod(x, e, n) ==
  LET power[i \in 0..e] == IF i = 0 THEN 1 % n ELSE (power[i - 1] * x) % n
  IN  power[e]

\* mpi_msb: the number of bits.
Msb(n) == CHOOSE k \in 0..31 : n < 2^k /\ (k = 0 \/ n >= 2^(k - 1))

-----------------------------------------------------------------------------
(* Keys *)

CheckPubkey(N, E) ==
  /\ N % 2 = 1 /\ E % 2 = 1
  /\ Msb(N) >= RsMinBits /\ Msb(N) <= RsMaxBits
  /\ Msb(E) >= 2 /\ Msb(E) <= RsMaxExponentBits

CheckPrivkey(key) ==
  LET P1 == key.P - 1
      Q1 == key.Q - 1
      H == P1 * Q1
      G2 == Gcd(P1, Q1)
  IN  /\ CheckPubkey(key.N, key.E)
      /\ key.P > 1 /\ key.Q > 1 /\ key.D > 0
      /\ Invertible(key.Q, key.P)
      /\ key.P * key.Q = key.N
      /\ key.DP = key.D % P1 /\ key.DQ = key.D % Q1
      /\ key.QP = ModInverse(key.Q, key.P)
      /\ Gcd(key.E, H) = 1
      /\ Divides(G2, H)
      /\ (key.D * key.E) % (H \div G2) = 1 % (H \div G2)

RsaGenKey(nbits, exponent) ==
  /\ rsState = <<"empty">>
  /\ nbits >= RsMinBits /\ exponent >= 3
  /\ rsCtx' = [rsCtx EXCEPT !.E = exponent]
  /\ rsG' = 0
  /\ rsState' = <<"drawing", nbits>>

\* What is in the context once D is computed.
WithExponents(ctx) ==
  LET H == (ctx.P - 1) * (ctx.Q - 1)
      D == ModInverse(ctx.E, H)
  IN  [ctx EXCEPT !.D = D, !.DP = D % (ctx.P - 1), !.DQ = D % (ctx.Q - 1),
                  !.QP = ModInverse(ctx.Q, ctx.P)]

\* Defect: the number of bits of the product is not looked at.
DrawAny(p, q) ==
  /\ rsState[1] = "drawing"
  /\ LET ctx == [rsCtx EXCEPT !.P = IF p < q THEN q ELSE p, !.Q = IF p < q THEN p ELSE q]
         G == Gcd(ctx.E, (p - 1) * (q - 1))
     IN  IF p = q THEN rsCtx' = ctx /\ UNCHANGED <<rsG, rsState>>
         ELSE LET whole == [ctx EXCEPT !.N = p * q]
              IN  /\ rsG' = G
                  /\ rsCtx' = IF G = 1 THEN WithExponents(whole) ELSE whole
                  /\ rsState' = IF G = 1 THEN <<"ready", rsState[2]>> ELSE rsState

\* One turn of the loop: the continues go to its condition, which looks at G as the
\* last turn that got that far left it.
Draw(p, q) ==
  /\ rsState[1] = "drawing"
  /\ LET nbits == rsState[2]
         ctx == [rsCtx EXCEPT !.P = IF p < q THEN q ELSE p, !.Q = IF p < q THEN p ELSE q]
         whole == IF p = q THEN ctx ELSE [ctx EXCEPT !.N = p * q]
         fits == p # q /\ Msb(p * q) = nbits
         G == IF fits THEN Gcd(ctx.E, (p - 1) * (q - 1)) ELSE rsG
     IN  /\ rsG' = G
         /\ rsCtx' = IF G = 1 THEN WithExponents(whole) ELSE whole
         /\ rsState' = IF G = 1 THEN <<"ready", nbits>> ELSE rsState

\* A random source that fails leaves no key.
DrawFails ==
  /\ rsState[1] = "drawing"
  /\ rsCtx' = NoKey /\ rsState' = <<"failed">> /\ rsG' = 0

-----------------------------------------------------------------------------
(* The operations; -1 for a number that is not below N *)

RsaPublic(key, x) == IF x >= key.N THEN -1 ELSE ExpMod(x, key.E, key.N)

\* By the Chinese remainder theorem; the difference may be below 0, mpi_mod_mpi's
\* result is not.
RsaPrivate(key, x) ==
  IF x >= key.N THEN -1
  ELSE LET T1 == ExpMod(x, key.DP, key.P)
           T2 == ExpMod(x, key.DQ, key.Q)
       IN  T2 + (((T1 - T2) * key.QP) % key.P) * key.Q

RsInit == rsCtx = NoKey /\ rsG = 0 /\ rsState = <<"empty">>

RsNext ==
  \/ \E nbits \in RsBits, exponent \in RsExponents : RsaGenKey(nbits, exponent)
  \/ /\ rsState[1] = "drawing"
     /\ \E p, q \in RsPrimes[(rsState[2] + 1) \div 2] : Draw(p, q)
  \/ DrawFails

-----------------------------------------------------------------------------
(* Properties *)

\* The key rsa_gen_key ends with, after whatever draws, is one rsa_check_privkey
\* accepts, and its N has as many bits as were asked for.
RsKeysGood ==
  rsState[1] = "ready" => CheckPrivkey(rsCtx) /\ Msb(rsCtx.N) = rsState[2]

\* Private and public operation undo each other on every number below N and refuse the
\* others.
RsInverse ==
  rsState[1] = "ready" =>
    /\ \A x \in 0..(rsCtx.N - 1) :
         /\ RsaPrivate(rsCtx, RsaPublic(rsCtx, x)) = x
         /\ RsaPublic(rsCtx, RsaPrivate(rsCtx, x)) = x
    /\ RsaPublic(rsCtx, rsCtx.N) = -1 /\ RsaPrivate(rsCtx, rsCtx.N) = -1

=============================================================================
