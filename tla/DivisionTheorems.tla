-------------------------- MODULE DivisionTheorems --------------------------
(* Quotients and remainders, for the addresses of PageTables and for the   *)
(* offsets, modulo 2^64, of the handler's table.                           *)
EXTENDS Integers, TLAPS

LEMMA DivMod ==
  ASSUME NEW M \in Nat, M > 0, NEW a \in Int
  PROVE  /\ a \div M \in Int /\ a % M \in 0..(M - 1)
         /\ a = M * (a \div M) + (a % M)
OBVIOUS

LEMMA OnlyZeroIsSmall ==
  ASSUME NEW M \in Nat, M > 0, NEW k \in Int, M * k < M, M * k > -M
  PROVE  k = 0
<1>1. k <= 0 \/ k >= 1
  OBVIOUS
<1>2. k >= 1 => M * k >= M
  OBVIOUS
<1>3. k <= -1 => M * k <= -M
  OBVIOUS
<1> QED
  BY <1>1, <1>2, <1>3

(* There is one quotient and one remainder.                                *)
LEMMA DivModUnique ==
  ASSUME NEW M \in Nat, M > 0, NEW q1 \in Int, NEW q2 \in Int,
         NEW r1 \in 0..(M - 1), NEW r2 \in 0..(M - 1),
         M * q1 + r1 = M * q2 + r2
  PROVE  q1 = q2 /\ r1 = r2
<1>1. M * (q1 - q2) = r2 - r1
  OBVIOUS
<1>2. q1 - q2 \in Int /\ r2 - r1 < M /\ r2 - r1 > -M
  OBVIOUS
<1>3. q1 - q2 = 0
  BY <1>1, <1>2, OnlyZeroIsSmall
<1> QED
  BY <1>3

LEMMA SmallMod ==
  ASSUME NEW M \in Nat, NEW a \in 0..(M - 1)
  PROVE  a % M = a
<1>1. M > 0 /\ a \in Int /\ 0 \in Int
  OBVIOUS
<1>2. PICK q \in Int, b \in 0..(M - 1) : q = a \div M /\ b = a % M
  BY <1>1, DivMod
<1>3. a = M * q + b
  BY <1>1, <1>2, DivMod
<1>4. M * q + b = M * 0 + a
  BY <1>3
<1> QED
  BY <1>1, <1>2, <1>4, DivModUnique

(* A counter kept modulo M can be added to.                                *)
LEMMA ModAdd ==
  ASSUME NEW M \in Nat, M > 0, NEW p \in Int, NEW r \in Int
  PROVE  ((p % M) + r) % M = (p + r) % M
<1>1. PICK q1 \in Int : p = M * q1 + (p % M)
  BY DivMod
<1>2. p % M \in Int
  BY DivMod
<1>3. PICK s \in Int : s = (p % M) + r
  BY <1>2
<1>4. PICK q2 \in Int : s = M * q2 + (s % M)
  BY DivMod
<1>5. PICK q3 \in Int : p + r = M * q3 + ((p + r) % M)
  BY DivMod
<1>6. s % M \in 0..(M - 1) /\ (p + r) % M \in 0..(M - 1)
  BY DivMod
<1>7. p + r = M * (q1 + q2) + (s % M)
  <2>1. p + r = M * q1 + s
    BY <1>1, <1>2, <1>3
  <2>2. M * (q1 + q2) = M * q1 + M * q2
    OBVIOUS
  <2> QED
    BY <1>4, <1>6, <2>1, <2>2
<1>8. s % M = (p + r) % M
  <2>1. PICK q \in Int, a \in 0..(M - 1), b \in 0..(M - 1) :
          q = q1 + q2 /\ a = s % M /\ b = (p + r) % M
    BY <1>6
  <2>2. M * q + a = M * q3 + b
    BY <1>5, <1>7, <2>1
  <2> QED
    BY <2>1, <2>2, DivModUnique
<1> QED
  BY <1>3, <1>8
=============================================================================
