------------------------------ MODULE Recovery ------------------------------
(***************************************************************************)
(* Shamir's scheme over bytes (packages/wasm-crypto/assembly/index.ts):    *)
(* splitSecret makes shards of a secret, recoverSecret combines some of    *)
(* them.  The code shares the bytes of a secret one by one; a secret is    *)
(* one byte here.  This is the assembly by itself: the wrapper around it   *)
(* (packages/wasm-crypto/src/index.ts) instantiates the committed build    *)
(* without the import env.seed that it has, which rejects.                 *)
(***************************************************************************)
EXTENDS Integers, Sequences, SequencesExt, FiniteSets, Bitwise

CONSTANTS
  Secrets,      \* bytes to be shared, of 0 .. 255
  Coefficients, \* bytes Math.random() may give, of 1 .. 255
  Threshold,    \* of 1 .. Total
  Total,        \* of 1 .. 255
  None

VARIABLES
  shards,    \* shards[x]: the byte of the shard with coordinate x
  secret,    \* history: what the shards were made of
  recovered  \* what came out of the last recovery from these shards

vars == <<shards, secret, recovered>>

-----------------------------------------------------------------------------
(* GF(2^8): tables of the powers of 2, modulo PRIMITIVE.  A later power    *)
(* overwrites the logarithm an earlier one gave the same byte; a byte that *)
(* is no power keeps 0.                                                    *)
PRIMITIVE == 283

Double(x) == IF 2 * x >= 256 THEN (2 * x) ^^ PRIMITIVE ELSE 2 * x

Powers == FoldLeftDomain(LAMBDA powers, i : Append(powers, Double(powers[i])),
                         <<1>>, [i \in 1 .. 254 |-> 0])

expTable == [i \in 0 .. 255 |-> IF i = 255 THEN Powers[1] ELSE Powers[i + 1]]

Exponents(x) == {i \in 0 .. 254 : Powers[i + 1] = x}

logTable == [x \in 0 .. 255 |-> Max({0} \union Exponents(x))]

gfAdd(a, b) == a ^^ b

gfMul(a, b) == IF a = 0 \/ b = 0 THEN 0 ELSE expTable[(logTable[a] + logTable[b]) % 255]

(* By 0 it throws, which different coordinates never come to.              *)
gfDiv(a, b) == IF a = 0 THEN 0 ELSE expTable[(logTable[a] + 255 - logTable[b]) % 255]

(* Horner's rule, from the last coefficient to the first.                  *)
polyEval(coeff, x) == FoldRight(LAMBDA c, result : gfAdd(gfMul(result, x), c), coeff, 0)

(* Lagrange's interpolation at 0, in the order of the shards given.        *)
Interpolate(xs) ==
  LET Others(x) == SelectSeq(xs, LAMBDA y : y # x)
      num(x) == FoldLeft(LAMBDA r, y : gfMul(r, y), 1, Others(x))
      den(x) == FoldLeft(LAMBDA r, y : gfMul(r, gfAdd(x, y)), 1, Others(x))
  IN  FoldLeft(LAMBDA byte, x : gfAdd(byte, gfMul(shards[x], gfDiv(num(x), den(x)))), 0, xs)

-----------------------------------------------------------------------------
Init == shards = <<>> /\ secret = None /\ recovered = None

splitSecret(s) ==
  /\ \E random \in [1 .. Threshold - 1 -> Coefficients] :
       shards' = [x \in 1 .. Total |-> polyEval(<<s>> \o random, x)]
  /\ secret' = s
  /\ recovered' = None

(* Of a threshold of shards or more, in any order.                         *)
recoverSecret ==
  /\ secret # None
  /\ \E n \in Threshold .. Total :
       \E xs \in {xs \in [1 .. n -> DOMAIN shards] : IsInjective(xs)} :
         recovered' = Interpolate(xs)
  /\ UNCHANGED <<shards, secret>>

Next == (\E s \in Secrets : splitSecret(s)) \/ recoverSecret

Spec == Init /\ [][Next]_vars

-----------------------------------------------------------------------------
(* A threshold of shards brings back the secret they were made of          *)
(* (splitSecret, recoverSecret).  The powers of 2 are only 51 of the 255   *)
(* bytes of the field, so most products, and most secrets, come out wrong. *)
RecoversTheSecret == recovered # None => recovered = secret
=============================================================================
