--------------------------- MODULE MarshallingProofs --------------------------
(***************************************************************************)
(* The wire format, for every width of bytes and ints, all names and all   *)
(* messages: what one program writes the other reads, and no single flip   *)
(* of a bit makes one message into another.                                *)
(***************************************************************************)
EXTENDS Marshalling, FiniteSetTheorems, SequenceTheorems, TLAPS

(* Functions defined by recursion over the naturals *)

\* Lemma: every set of naturals that is not empty has a least element.
LEMMA LeastNatural ==
    ASSUME NEW T, T \subseteq Nat, T # {}
    PROVE  \E n \in T : \A m \in T : n <= m
<1> DEFINE Starts == {0 .. n : n \in T}
           R      == StrictSubsetOrdering(Nat)
           S      == FiniteSubsetsOf(Nat)
<1>1. Starts \subseteq S
  <2>1. \A n \in T : 0 .. n \subseteq Nat /\ IsFiniteSet(0 .. n)
    BY FS_Interval
  <2>2. QED  BY <2>1 DEF FiniteSubsetsOf
<1>2. Starts # {}
  OBVIOUS
<1>3. IsWellFoundedOn(R, S)
  BY FS_StrictSubsetOrderingWellFounded
<1> HIDE DEF R, S
<1>4. \E X \in Starts : \A Y \in Starts : ~ (<<Y, X>> \in R)
  BY <1>1, <1>2, <1>3, WFMin
<1>5. PICK n \in T : \A m \in T : ~ (<<0 .. m, 0 .. n>> \in R)
  BY <1>4 DEF Starts
<1>6. ASSUME NEW m \in T, m < n PROVE FALSE
  <2>1. 0 .. m \subseteq 0 .. n /\ n \in 0 .. n /\ n \notin 0 .. m
    BY <1>6
  <2>2. <<0 .. m, 0 .. n>> \in R
    BY <2>1 DEF R, StrictSubsetOrdering
  <2>3. QED  BY <1>5, <2>2
<1>7. QED  BY <1>5, <1>6

\* Lemma: induction over the naturals, for a set of them.
LEMMA Induction ==
    ASSUME NEW P, 0 \in P, \A n \in Nat : n \in P => n + 1 \in P
    PROVE  Nat \subseteq P
<1> DEFINE T == {n \in Nat : n \notin P}
<1>1. SUFFICES ASSUME T # {} PROVE FALSE
  OBVIOUS
<1>2. PICK n \in T : \A m \in T : n <= m
  BY <1>1, LeastNatural
<1>3. n \in Nat /\ n # 0
  BY <1>2
<1>4. n - 1 \in Nat /\ n - 1 \notin T
  BY <1>2, <1>3
<1>5. QED  BY <1>2, <1>3, <1>4

\* h follows the recursion that begins with a and goes on with g, up to n.
Follows(h, n, a, g) ==
    /\ h = [i \in 0 .. n |-> h[i]]
    /\ h[0] = a
    /\ \A i \in 0 .. n - 1 : h[i + 1] = g[<<i, h[i]>>]

\* Lemma: two functions that follow a recursion agree.
LEMMA FollowsUnique ==
    ASSUME NEW a, NEW g, NEW n \in Nat, NEW m \in Nat, NEW h, NEW k,
           Follows(h, n, a, g), Follows(k, m, a, g)
    PROVE  \A i \in 0 .. n : i <= m => h[i] = k[i]
<1> DEFINE P == {i \in Nat : i <= n /\ i <= m => h[i] = k[i]}
<1>1. 0 \in P
  BY DEF Follows
<1>2. ASSUME NEW i \in Nat, i \in P PROVE i + 1 \in P
  <2>1. SUFFICES ASSUME i + 1 <= n, i + 1 <= m PROVE h[i + 1] = k[i + 1]
    OBVIOUS
  <2>2. i \in 0 .. n - 1 /\ i \in 0 .. m - 1 /\ h[i] = k[i]
    BY <1>2, <2>1
  <2>3. h[i + 1] = g[<<i, h[i]>>] /\ k[i + 1] = g[<<i, k[i]>>]
    BY ONLY <2>2, Follows(h, n, a, g), Follows(k, m, a, g) DEF Follows
  <2>4. QED  BY <2>2, <2>3
<1> HIDE DEF P
<1>3. Nat \subseteq P
  BY <1>1, <1>2, Induction
<1>4. QED  BY <1>3 DEF P

\* Lemma: some function follows it up to any n.
LEMMA FollowsExists ==
    ASSUME NEW a, NEW g
    PROVE  \A n \in Nat : \E h : Follows(h, n, a, g)
<1> DEFINE P == {n \in Nat : \E h : Follows(h, n, a, g)}
<1>1. 0 \in P
  <2>1. Follows([i \in 0 .. 0 |-> a], 0, a, g)
    BY DEF Follows
  <2>2. QED  BY <2>1
<1>2. ASSUME NEW n \in Nat, n \in P PROVE n + 1 \in P
  <2>1. PICK h : Follows(h, n, a, g)
    BY <1>2
  <2> DEFINE k == [i \in 0 .. n + 1 |-> IF i <= n THEN h[i] ELSE g[<<n, h[n]>>]]
  <2>2. Follows(k, n + 1, a, g)
    <3>1. k = [i \in 0 .. n + 1 |-> k[i]] /\ k[0] = a
      BY <2>1 DEF Follows
    <3>2. ASSUME NEW i \in 0 .. n PROVE k[i + 1] = g[<<i, k[i]>>]
      <4>1. k[i] = h[i]
        OBVIOUS
      <4>2. CASE i = n
        <5>1. k[n + 1] = g[<<n, h[n]>>]
          OBVIOUS
        <5>2. QED  BY ONLY <4>1, <4>2, <5>1
      <4>3. CASE i # n
        <5>1. i \in 0 .. n - 1 /\ k[i + 1] = h[i + 1]
          BY <4>3
        <5>2. h[i + 1] = g[<<i, h[i]>>]
          BY <2>1, <5>1 DEF Follows
        <5>3. QED  BY <4>1, <5>1, <5>2
      <4>4. QED  BY <4>2, <4>3
    <3>3. 0 .. (n + 1) - 1 = 0 .. n
      OBVIOUS
    <3> HIDE DEF k
    <3>4. QED  BY <3>1, <3>2, <3>3 DEF Follows
  <2>3. QED  BY <2>2
<1> HIDE DEF P
<1>3. Nat \subseteq P
  BY <1>1, <1>2, Induction
<1>4. QED  BY <1>3 DEF P

\* f is what the recursion defines.
Recurs(f, a, g) ==
    /\ f = [n \in Nat |-> f[n]]
    /\ f[0] = a
    /\ \A n \in Nat : f[n + 1] = g[<<n, f[n]>>]

\* Lemma: a recursion over the naturals defines a function.
LEMMA Recursion ==
    ASSUME NEW a, NEW g
    PROVE  \E f : Recurs(f, a, g)
<1> DEFINE H(n) == CHOOSE h : Follows(h, n, a, g)
           f    == [n \in Nat |-> H(n)[n]]
<1>1. \A n \in Nat : Follows(H(n), n, a, g)
  BY FollowsExists
<1> HIDE DEF H
<1>2. f[0] = a
  BY <1>1 DEF Follows
<1>3. ASSUME NEW n \in Nat PROVE f[n + 1] = g[<<n, f[n]>>]
  <2>1. Follows(H(n), n, a, g) /\ Follows(H(n + 1), n + 1, a, g)
    BY <1>1
  <2>2. H(n)[n] = H(n + 1)[n]
    BY <2>1, FollowsUnique
  <2>3. H(n + 1)[n + 1] = g[<<n, H(n + 1)[n]>>]
    BY <2>1 DEF Follows
  <2>4. QED  BY <2>2, <2>3
<1> HIDE DEF f
<1>4. Recurs(f, a, g)
  BY <1>2, <1>3 DEF Recurs, f
<1>5. QED  BY <1>4

-----------------------------------------------------------------------------
(* Numbers and their bits *)

\* Lemma: the powers of two, as their recursion says.
LEMMA Powers ==
    /\ Pow2 = [n \in Nat |-> Pow2[n]] /\ Pow2[0] = 1
    /\ \A n \in Nat : Pow2[n] \in Nat \ {0} /\ Pow2[n + 1] = 2 * Pow2[n]
<1> DEFINE g == [p \in Nat \X Int |-> 2 * p[2]]
<1>1. \A n \in Nat, x \in Int : g[<<n, x>>] = 2 * x
  OBVIOUS
<1> HIDE DEF g
<1>2. PICK f : Recurs(f, 1, g)
  BY Recursion
<1>3. f = [n \in Nat |-> f[n]] /\ f[0] = 1 /\ \A n \in Nat : f[n + 1] = g[<<n, f[n]>>]
  BY <1>2 DEF Recurs
<1>4. \A n \in Nat : f[n] \in Nat \ {0}
  <2> DEFINE P == {n \in Nat : f[n] \in Nat \ {0}}
  <2>1. 0 \in P
    BY <1>3
  <2>2. ASSUME NEW n \in Nat, n \in P PROVE n + 1 \in P
    <3>1. f[n] \in Int /\ f[n] \in Nat \ {0}
      BY <2>2
    <3>2. f[n + 1] = 2 * f[n]
      BY ONLY <1>1, <1>3, <3>1
    <3>3. QED  BY <3>1, <3>2
  <2> HIDE DEF P
  <2>3. Nat \subseteq P
    BY <2>1, <2>2, Induction
  <2>4. QED  BY <2>3 DEF P
<1>5. ASSUME NEW n \in Nat PROVE f[n + 1] = 2 * f[n]
  <2>1. f[n] \in Int
    BY <1>4
  <2>2. QED  BY ONLY <1>1, <1>3, <2>1
<1>6. f = [n \in Nat |-> IF n = 0 THEN 1 ELSE 2 * f[n - 1]]
  <2>1. \A n \in Nat : f[n] = IF n = 0 THEN 1 ELSE 2 * f[n - 1]
    <3>1. TAKE n \in Nat
    <3>2. CASE n = 0
      BY <1>3, <3>2
    <3>3. CASE n # 0
      <4>1. n - 1 \in Nat /\ (n - 1) + 1 = n
        BY <3>3
      <4>2. f[(n - 1) + 1] = 2 * f[n - 1]
        BY ONLY <1>5, <4>1
      <4>3. QED  BY <3>3, <4>1, <4>2
    <3>4. QED  BY <3>2, <3>3
  <2>2. QED  BY <1>3, <2>1
<1>7. Pow2 = [n \in Nat |-> IF n = 0 THEN 1 ELSE 2 * Pow2[n - 1]]
  BY <1>6 DEF Pow2
<1>8. \A n \in Nat : Pow2[n] = IF n = 0 THEN 1 ELSE 2 * Pow2[n - 1]
  BY <1>7
<1>9. Pow2[0] = 1 /\ \A n \in Nat : Pow2[n + 1] = 2 * Pow2[n]
  <2>1. \A n \in Nat : n + 1 \in Nat /\ n + 1 # 0 /\ (n + 1) - 1 = n
    OBVIOUS
  <2>2. QED  BY ONLY <1>8, <2>1
<1>10. \A n \in Nat : Pow2[n] \in Nat \ {0}
  <2> DEFINE P == {n \in Nat : Pow2[n] \in Nat \ {0}}
  <2>1. 0 \in P
    BY <1>9
  <2>2. ASSUME NEW n \in Nat, n \in P PROVE n + 1 \in P
    BY <1>9, <2>2
  <2> HIDE DEF P
  <2>3. Nat \subseteq P
    BY <2>1, <2>2, Induction
  <2>4. QED  BY <2>3 DEF P
<1>11. QED
  BY ONLY <1>7, <1>9, <1>10

\* Lemma: quotient and remainder.
LEMMA Division ==
    ASSUME NEW n \in Int, NEW d \in Nat \ {0}
    PROVE  n \div d \in Int /\ n % d \in 0 .. d - 1 /\ n = d * (n \div d) + (n % d)
OBVIOUS

\* Lemma: there is one quotient and one remainder.
LEMMA DivisionUnique ==
    ASSUME NEW d \in Nat \ {0}, NEW q \in Int, NEW r \in 0 .. d - 1
    PROVE  (d * q + r) \div d = q /\ (d * q + r) % d = r
OBVIOUS

\* Lemma: one more bit of a remainder.
LEMMA NextBit ==
    ASSUME NEW n \in Int, NEW d \in Nat \ {0}
    PROVE  n % (2 * d) = (n % d) + (IF (n \div d) % 2 = 1 THEN d ELSE 0)
<1> DEFINE q == n \div d
           r == n % d
           h == q \div 2
           b == q % 2
<1>1. q \in Int /\ r \in 0 .. d - 1 /\ n = d * q + r
  BY Division
<1>2. h \in Int /\ b \in {0, 1} /\ q = 2 * h + b
  BY <1>1
<1> HIDE DEF q, r, h, b
<1>3. d * q = (2 * d) * h + d * b
  BY <1>2
<1>4. d * b = IF b = 1 THEN d ELSE 0
  BY <1>2
<1>5. d * b + r \in 0 .. (2 * d) - 1 /\ 2 * d \in Nat \ {0}
  BY <1>1, <1>2, <1>4
<1>6. n = (2 * d) * h + (d * b + r)
  BY <1>1, <1>2, <1>3, <1>5
<1>7. n % (2 * d) = d * b + r
  BY ONLY <1>2, <1>5, <1>6, DivisionUnique
<1>8. QED  BY <1>1, <1>4, <1>7 DEF b, r, q

\* What the lowest bits of an int's bytes make, for every number of them.
Adds(v, bytes) ==
    /\ v[0] = 0
    /\ \A n \in Nat : v[n + 1] = v[n] + (IF BitIn(bytes, n) THEN Pow2[n] ELSE 0)

\* Lemma: the reader adds up the bits of an int.
LEMMA UnsignedAdds ==
    ASSUME NEW bytes
    PROVE  \E v : Unsigned(bytes) = v[Width] /\ Adds(v, bytes)
<1> DEFINE g == [p \in Nat \X Int |-> p[2] + (IF BitIn(bytes, p[1]) THEN Pow2[p[1]] ELSE 0)]
<1>1. \A n \in Nat, x \in Int : g[<<n, x>>] = x + (IF BitIn(bytes, n) THEN Pow2[n] ELSE 0)
  OBVIOUS
<1> HIDE DEF g
<1>2. PICK f : Recurs(f, 0, g)
  BY Recursion
<1>3. f = [n \in Nat |-> f[n]] /\ f[0] = 0 /\ \A n \in Nat : f[n + 1] = g[<<n, f[n]>>]
  BY <1>2 DEF Recurs
<1>4. \A n \in Nat : f[n] \in Int
  <2> DEFINE P == {n \in Nat : f[n] \in Int}
  <2>1. 0 \in P
    BY <1>3
  <2>2. ASSUME NEW n \in Nat, n \in P PROVE n + 1 \in P
    <3>1. f[n] \in Int /\ Pow2[n] \in Int
      BY <2>2, Powers
    <3>2. f[n + 1] = f[n] + (IF BitIn(bytes, n) THEN Pow2[n] ELSE 0)
      BY ONLY <1>1, <1>3, <3>1
    <3>3. QED  BY <3>1, <3>2
  <2> HIDE DEF P
  <2>3. Nat \subseteq P
    BY <2>1, <2>2, Induction
  <2>4. QED  BY <2>3 DEF P
<1>5. \A n \in Nat : f[n + 1] = f[n] + (IF BitIn(bytes, n) THEN Pow2[n] ELSE 0)
  BY ONLY <1>1, <1>3, <1>4
<1>6. \A n \in Nat : f[n] = IF n = 0 THEN 0
                            ELSE f[n - 1] + (IF BitIn(bytes, n - 1) THEN Pow2[n - 1] ELSE 0)
  <2>1. TAKE n \in Nat
  <2>2. CASE n = 0
    BY <1>3, <2>2
  <2>3. CASE n # 0
    <3>1. n - 1 \in Nat /\ (n - 1) + 1 = n
      BY <2>3
    <3>2. f[(n - 1) + 1] = f[n - 1] + (IF BitIn(bytes, n - 1) THEN Pow2[n - 1] ELSE 0)
      BY ONLY <1>5, <3>1
    <3>3. QED  BY <2>3, <3>1, <3>2
  <2>4. QED  BY <2>2, <2>3
<1> DEFINE v[p \in Nat] == IF p = 0 THEN 0
                           ELSE v[p - 1] + (IF BitIn(bytes, p - 1) THEN Pow2[p - 1] ELSE 0)
<1>7. f = [p \in Nat |-> IF p = 0 THEN 0
                         ELSE f[p - 1] + (IF BitIn(bytes, p - 1) THEN Pow2[p - 1] ELSE 0)]
  BY ONLY <1>3, <1>6
<1>8. v = [p \in Nat |-> IF p = 0 THEN 0
                         ELSE v[p - 1] + (IF BitIn(bytes, p - 1) THEN Pow2[p - 1] ELSE 0)]
  BY <1>7
<1>9. Unsigned(bytes) = v[Width]
  BY DEF Unsigned
<1> HIDE DEF v
<1>10. \A n \in Nat : v[n] = IF n = 0 THEN 0
                             ELSE v[n - 1] + (IF BitIn(bytes, n - 1) THEN Pow2[n - 1] ELSE 0)
  BY <1>8
<1>11. v[0] = 0 /\ \A n \in Nat : v[n + 1] = v[n] + (IF BitIn(bytes, n) THEN Pow2[n] ELSE 0)
  <2>1. \A n \in Nat : n + 1 \in Nat /\ n + 1 # 0 /\ (n + 1) - 1 = n
    OBVIOUS
  <2>2. QED  BY ONLY <1>10, <2>1
<1>12. QED  BY <1>9, <1>11 DEF Adds

\* Lemma: an int has bits.
LEMMA Sizes ==
    /\ IntSize \in Nat \ {0} /\ Bits \in Nat \ {0}
    /\ Width \in Nat \ {0} /\ Width - 1 \in Nat
    /\ Pow2[Width] = 2 * Pow2[Width - 1] /\ Pow2[Width - 1] \in Nat \ {0}
<1>1. IntSize \in Nat \ {0} /\ Bits \in Nat \ {0}
  BY SizesAssumption
<1>2. Width \in Nat \ {0}
  BY <1>1 DEF Width
<1>3. Width - 1 \in Nat /\ (Width - 1) + 1 = Width
  BY <1>2
<1>4. QED  BY <1>1, <1>2, <1>3, Powers

\* Lemma: what is read from the bytes of an int is a number of that many bits.
LEMMA SignedUnsigned ==
    ASSUME NEW bytes
    PROVE  Signed(Unsigned(bytes)) \in Ints
<1>1. PICK v : Unsigned(bytes) = v[Width] /\ Adds(v, bytes)
  BY UnsignedAdds
<1>2. \A n \in Nat : v[n] \in 0 .. Pow2[n] - 1
  <2> DEFINE P == {n \in Nat : v[n] \in 0 .. Pow2[n] - 1}
  <2>1. 0 \in P
    BY <1>1, Powers DEF Adds
  <2>2. ASSUME NEW n \in Nat, n \in P PROVE n + 1 \in P
    <3>1. v[n] \in 0 .. Pow2[n] - 1 /\ Pow2[n] \in Nat /\ Pow2[n + 1] = 2 * Pow2[n]
      BY <2>2, Powers
    <3>2. v[n + 1] = v[n] + (IF BitIn(bytes, n) THEN Pow2[n] ELSE 0)
      BY <1>1 DEF Adds
    <3>3. QED  BY <3>1, <3>2
  <2> HIDE DEF P
  <2>3. Nat \subseteq P
    BY <2>1, <2>2, Induction
  <2>4. QED  BY <2>3 DEF P
<1>3. Unsigned(bytes) \in 0 .. Pow2[Width] - 1
  BY <1>1, <1>2, Sizes
<1>4. QED  BY <1>3, Sizes DEF Signed, Ints

\* Lemma: the bytes of an int hold its bits.
LEMMA BitsWritten ==
    ASSUME NEW n \in Int, NEW p \in 0 .. Width - 1
    PROVE  BitIn(IntBytes(n), p) <=> IsSet(n, p)
<1> DEFINE q == p \div Bits
           r == p % Bits
<1>1. p \in Int /\ p >= 0 /\ p < IntSize * Bits
  BY Sizes DEF Width
<1>2. q \in Int /\ r \in 0 .. Bits - 1 /\ p = Bits * q + r
  BY <1>1, Sizes, Division
<1> HIDE DEF q, r
<1>3. q >= 0
  BY <1>1, <1>2, Sizes
<1>4. q < IntSize
  BY <1>1, <1>2, Sizes
<1>5. IntSize - q \in 1 .. IntSize /\ IntSize - (IntSize - q) = q /\ r \in BitPositions
  BY <1>2, <1>3, <1>4, Sizes DEF BitPositions
<1>6. IntBytes(n)[IntSize - q] = {k \in BitPositions : IsSet(n, q * Bits + k)}
  BY <1>5 DEF IntBytes
<1>7. q * Bits + r = p
  BY <1>2, Sizes
<1>8. BitIn(IntBytes(n), p) <=> r \in IntBytes(n)[IntSize - q]
  BY DEF BitIn, q, r
<1>9. QED  BY ONLY <1>5, <1>6, <1>7, <1>8

\* An int that one program writes is the int that the other reads (writeInt
\* and readInt of both ByteBuffers and ByteReader), whatever the sizes.
THEOREM IntArrives ==
    ASSUME NEW n \in Ints
    PROVE  Signed(Unsigned(IntBytes(n))) = n
<1> DEFINE bytes == IntBytes(n)
<1>1. PICK v : Unsigned(bytes) = v[Width] /\ Adds(v, bytes)
  BY UnsignedAdds
<1>2. n \in Int
  BY Sizes DEF Ints
<1>3. \A p \in Nat : p <= Width => v[p] = n % Pow2[p]
  <2> DEFINE P == {p \in Nat : p <= Width => v[p] = n % Pow2[p]}
  <2>1. 0 \in P
    BY <1>1, <1>2, Powers DEF Adds
  <2>2. ASSUME NEW p \in Nat, p \in P PROVE p + 1 \in P
    <3>1. SUFFICES ASSUME p + 1 <= Width PROVE v[p + 1] = n % Pow2[p + 1]
      OBVIOUS
    <3>2. v[p] = n % Pow2[p] /\ p \in 0 .. Width - 1
      BY <2>2, <3>1, Sizes
    <3>3. v[p + 1] = v[p] + (IF BitIn(bytes, p) THEN Pow2[p] ELSE 0)
      BY <1>1 DEF Adds
    <3>4. BitIn(bytes, p) <=> (n \div Pow2[p]) % 2 = 1
      BY <1>2, <3>2, BitsWritten DEF IsSet
    <3>5. Pow2[p] \in Nat \ {0} /\ Pow2[p + 1] = 2 * Pow2[p]
      BY Powers
    <3>6. QED  BY ONLY <1>2, <3>2, <3>3, <3>4, <3>5, NextBit
  <2> HIDE DEF P
  <2>3. Nat \subseteq P
    BY <2>1, <2>2, Induction
  <2>4. QED  BY <2>3 DEF P
<1>4. Unsigned(bytes) = n % Pow2[Width]
  BY <1>1, <1>3, Sizes
<1> HIDE DEF bytes
<1> DEFINE h == Pow2[Width - 1]
<1>5. h \in Nat \ {0} /\ Pow2[Width] = 2 * h /\ n \in -h .. h - 1
  BY Sizes DEF Ints
<1> HIDE DEF h
<1>6. CASE n >= 0
  <2>1. n = (2 * h) * 0 + n /\ n \in 0 .. (2 * h) - 1 /\ 2 * h \in Nat \ {0}
    BY <1>5, <1>6
  <2>2. n % (2 * h) = n
    BY ONLY <2>1, DivisionUnique
  <2>3. Signed(n) = n
    BY <1>5, <1>6 DEF Signed, h
  <2>4. QED  BY <1>4, <1>5, <2>2, <2>3 DEF bytes
<1>7. CASE n < 0
  <2>1. n = (2 * h) * (-1) + (n + 2 * h) /\ n + 2 * h \in 0 .. (2 * h) - 1 /\ 2 * h \in Nat \ {0}
    BY <1>5, <1>7
  <2>2. n % (2 * h) = n + 2 * h
    BY ONLY <2>1, DivisionUnique
  <2>3. Signed(n + 2 * h) = n
    BY <1>5, <1>7 DEF Signed, h
  <2>4. QED  BY <1>4, <1>5, <2>2, <2>3 DEF bytes
<1>8. QED  BY <1>2, <1>6, <1>7

-----------------------------------------------------------------------------
(* Reading what was written *)

\* The bytes are in the buffer, from position at on.
Holds(buffer, at, bytes) ==
    /\ at + Len(bytes) - 1 <= Len(buffer)
    /\ \A i \in 1 .. Len(bytes) : buffer[at + i - 1] = bytes[i]

\* Lemma: the bytes of an int and of a text.
LEMMA Written ==
    /\ \A n : IntBytes(n) \in Seq(Byte) /\ Len(IntBytes(n)) = IntSize
    /\ \A s \in Seq(Byte) : /\ StringBytes(s) \in Seq(Byte)
                            /\ Len(StringBytes(s)) = IntSize + Len(s)
    /\ Text \subseteq Seq(Byte)
    /\ Zero \in Byte /\ One \in Byte /\ Zero # One
<1>1. IntSize \in Nat /\ 0 \in BitPositions
  BY Sizes DEF BitPositions
<1>2. ASSUME NEW n PROVE IntBytes(n) \in Seq(Byte) /\ Len(IntBytes(n)) = IntSize
  <2>1. IntBytes(n) \in [1 .. IntSize -> Byte]
    BY DEF IntBytes, Byte
  <2>2. QED  BY <1>1, <2>1
<1>3. ASSUME NEW s \in Seq(Byte)
      PROVE  StringBytes(s) \in Seq(Byte) /\ Len(StringBytes(s)) = IntSize + Len(s)
  BY <1>2, <1>3 DEF StringBytes
<1>4. Text \subseteq Seq(Byte)
  <2>1. SUFFICES ASSUME NEW s \in Text PROVE s \in Seq(Byte)
    OBVIOUS
  <2>2. s \in Seq(Byte \ {Zero, One})
    BY DEF Text
  <2>3. QED  BY <2>2
<1>5. QED  BY <1>1, <1>2, <1>3, <1>4 DEF Zero, One, Byte

\* Lemma: a buffer that holds two texts in a row holds both.
LEMMA HoldsBoth ==
    ASSUME NEW buffer \in Seq(Byte), NEW at \in Nat \ {0}, NEW x \in Seq(Byte), NEW y \in Seq(Byte)
    PROVE  Holds(buffer, at, x \o y) <=> Holds(buffer, at, x) /\ Holds(buffer, at + Len(x), y)
<1>1. Len(x) \in Nat /\ Len(y) \in Nat /\ Len(buffer) \in Nat
  OBVIOUS
<1>2. Len(x \o y) = Len(x) + Len(y)
  OBVIOUS
<1>3. \A i \in 1 .. Len(x) : i \in 1 .. Len(x \o y) /\ (x \o y)[i] = x[i]
  BY <1>1
<1>4. \A i \in 1 .. Len(y) : Len(x) + i \in 1 .. Len(x \o y) /\ (x \o y)[Len(x) + i] = y[i]
  BY <1>1
<1>5. ASSUME Holds(buffer, at, x \o y)
      PROVE  Holds(buffer, at, x) /\ Holds(buffer, at + Len(x), y)
  <2>1. at + (Len(x) + Len(y)) - 1 <= Len(buffer)
    BY <1>2, <1>5 DEF Holds
  <2>2. \A i \in 1 .. Len(x) : buffer[at + i - 1] = x[i]
    BY <1>3, <1>5 DEF Holds
  <2>3. ASSUME NEW i \in 1 .. Len(y) PROVE buffer[(at + Len(x)) + i - 1] = y[i]
    <3>1. buffer[at + (Len(x) + i) - 1] = y[i]
      BY <1>4, <1>5 DEF Holds
    <3>2. at + (Len(x) + i) - 1 = (at + Len(x)) + i - 1
      BY <1>1
    <3>3. QED  BY <3>1, <3>2
  <2>4. QED  BY <1>1, <2>1, <2>2, <2>3 DEF Holds
<1>6. ASSUME Holds(buffer, at, x), Holds(buffer, at + Len(x), y)
      PROVE  Holds(buffer, at, x \o y)
  <2>1. at + Len(x \o y) - 1 <= Len(buffer)
    BY <1>1, <1>2, <1>6 DEF Holds
  <2>2. ASSUME NEW i \in 1 .. Len(x \o y) PROVE buffer[at + i - 1] = (x \o y)[i]
    <3>1. CASE i <= Len(x)
      <4>1. i \in 1 .. Len(x)
        BY <1>1, <3>1
      <4>2. QED  BY <1>3, <1>6, <4>1 DEF Holds
    <3>2. CASE ~ (i <= Len(x))
      <4>1. i - Len(x) \in 1 .. Len(y) /\ Len(x) + (i - Len(x)) = i
        BY <1>1, <1>2, <3>2
      <4>2. buffer[(at + Len(x)) + (i - Len(x)) - 1] = y[i - Len(x)]
        BY <1>6, <4>1 DEF Holds
      <4>3. (at + Len(x)) + (i - Len(x)) - 1 = at + i - 1
        BY <1>1, <1>2
      <4>4. QED  BY <1>4, <4>1, <4>2, <4>3
    <3>3. QED  BY <3>1, <3>2
  <2>3. QED  BY <2>1, <2>2 DEF Holds
<1>7. QED  BY <1>5, <1>6

\* Lemma: what a buffer holds is what is cut out of it.
LEMMA HeldIsCut ==
    ASSUME NEW buffer \in Seq(Byte), NEW at \in Nat \ {0}, NEW x \in Seq(Byte), Holds(buffer, at, x)
    PROVE  SubSeq(buffer, at, at + Len(x) - 1) = x
<1>1. Len(x) \in Nat /\ Len(buffer) \in Nat /\ at + Len(x) - 1 <= Len(buffer)
  BY DEF Holds
<1>2. /\ SubSeq(buffer, at, at + Len(x) - 1) \in Seq(Byte)
      /\ Len(SubSeq(buffer, at, at + Len(x) - 1)) = Len(x)
  BY <1>1
<1>3. ASSUME NEW i \in 1 .. Len(x) PROVE SubSeq(buffer, at, at + Len(x) - 1)[i] = x[i]
  <2>1. SubSeq(buffer, at, at + Len(x) - 1)[i] = buffer[at + i - 1]
    BY <1>1
  <2>2. QED  BY <2>1 DEF Holds
<1>4. QED  BY <1>2, <1>3

\* Lemma: a read that succeeded has the value and the position it was given.
LEMMA ReadHas ==
    ASSUME NEW v, NEW at
    PROVE  Read(v, at).out = "ok" /\ Read(v, at).value = v /\ Read(v, at).next = at
BY DEF Read

\* Lemma: the first of two reads decides if there is a second.
LEMMA ThenNext ==
    ASSUME NEW r, NEW s
    PROVE  /\ r.out = "ok" => Then(r, s) = s
           /\ r.out # "ok" => Then(r, s) = r
BY DEF Then

\* Lemma: an int is read from where it is held.
LEMMA IntRead ==
    ASSUME NEW buffer \in Seq(Byte), NEW at \in Nat \ {0}, NEW n \in Ints, Holds(buffer, at, IntBytes(n))
    PROVE  ReadInt(buffer, at) = Read(n, at + IntSize)
<1>1. IntBytes(n) \in Seq(Byte) /\ Len(IntBytes(n)) = IntSize
  BY Written
<1>2. SubSeq(buffer, at, at + IntSize - 1) = IntBytes(n) /\ at + IntSize - 1 <= Len(buffer)
  BY <1>1, HeldIsCut DEF Holds
<1>3. QED  BY <1>2, IntArrives DEF ReadInt

\* Lemma: so is a text, if the reader has room for it.
LEMMA StringRead ==
    ASSUME NEW buffer \in Seq(Byte), NEW at \in Nat \ {0}, NEW max \in Int,
           NEW s \in Seq(Byte), Len(s) \in Ints, Len(s) <= max, Holds(buffer, at, StringBytes(s))
    PROVE  ReadString(buffer, at, max) = Read(s, at + IntSize + Len(s))
<1>1. /\ IntBytes(Len(s)) \in Seq(Byte) /\ Len(IntBytes(Len(s))) = IntSize
      /\ IntSize \in Nat /\ Len(s) \in Nat /\ Len(buffer) \in Nat
  <2>1. IntBytes(Len(s)) \in Seq(Byte) /\ Len(IntBytes(Len(s))) = IntSize
    BY Written
  <2>2. QED  BY <2>1, Sizes
<1>2. Holds(buffer, at, IntBytes(Len(s))) /\ Holds(buffer, at + IntSize, s)
  BY <1>1, HoldsBoth DEF StringBytes
<1>3. ReadInt(buffer, at) = Read(Len(s), at + IntSize)
  BY <1>2, IntRead
<1>4. at + IntSize \in Nat \ {0}
  BY <1>1
<1>5. /\ SubSeq(buffer, at + IntSize, at + IntSize + Len(s) - 1) = s
      /\ at + IntSize + Len(s) - 1 <= Len(buffer)
  BY <1>1, <1>2, <1>4, HeldIsCut DEF Holds
<1>6. ~ (Len(s) > max) /\ ~ (Len(s) < 0) /\ ~ (at + IntSize + Len(s) - 1 > Len(buffer))
  BY <1>1, <1>5
<1> DEFINE n == ReadInt(buffer, at)
           body == IF n.value > max THEN Fatal
                   ELSE IF n.value < 0 \/ n.next + n.value - 1 > Len(buffer) THEN Exception
                   ELSE Read(SubSeq(buffer, n.next, n.next + n.value - 1), n.next + n.value)
<1>7. n.out = "ok" /\ n.value = Len(s) /\ n.next = at + IntSize
  BY <1>3, ReadHas
<1>8. ReadString(buffer, at, max) = Then(n, body)
  BY DEF ReadString
<1> HIDE DEF n
<1>9. body = Read(s, at + IntSize + Len(s))
  BY ONLY <1>5, <1>6, <1>7
<1> HIDE DEF body
<1>10. QED  BY ONLY <1>7, <1>8, <1>9, ThenNext

\* Texts that have a length, for both programs.
Short(s) == s \in Seq(Byte) /\ Len(s) \in Ints /\ Len(s) <= MaxArray

\* Lemma: the names of the class, its fields and their types are such texts.
LEMMA ShortNames ==
    /\ Short(ClassName)
    /\ \A i \in 1 .. 3 : Short(FieldNames[i]) /\ Short(FieldTypes[i])
    /\ MaxArray \in Ints /\ MaxArray \in Nat /\ 3 \in Ints /\ READ \in Ints /\ ECHO \in Ints
<1>1. /\ MaxArray \in Ints /\ MaxArray \in Nat /\ 3 \in Ints /\ READ \in Ints /\ ECHO \in Ints
  BY MessagesAssumption
<1>2. ASSUME NEW s \in Text, Len(s) <= MaxArray PROVE Short(s)
  <2>1. s \in Seq(Byte)
    BY Written
  <2>2. Len(s) \in Nat
    BY <2>1
  <2>3. Len(s) \in Ints
    BY ONLY <1>1, <1>2, <2>2, Sizes DEF Ints
  <2>4. QED  BY <1>2, <2>1, <2>3 DEF Short
<1>3. ClassName \in Text /\ Len(ClassName) <= MaxArray
  BY MessagesAssumption
<1>4. ASSUME NEW i \in 1 .. 3
      PROVE  /\ FieldNames[i] \in Text /\ Len(FieldNames[i]) <= MaxArray
             /\ FieldTypes[i] \in Text /\ Len(FieldTypes[i]) <= MaxArray
  <2>1. FieldNames \in [1 .. 3 -> Text] /\ FieldTypes \in [1 .. 3 -> Text]
    BY MessagesAssumption
  <2>2. Len(FieldNames[i]) <= MaxArray /\ Len(FieldTypes[i]) <= MaxArray
    BY MessagesAssumption
  <2>3. QED  BY <2>1, <2>2
<1>5. Short(ClassName)
  BY <1>2, <1>3
<1>6. \A i \in 1 .. 3 : Short(FieldNames[i]) /\ Short(FieldTypes[i])
  BY <1>2, <1>4
<1>7. QED  BY ONLY <1>1, <1>5, <1>6

\* The length of a text's bytes.
LengthOf(s) == IntSize + Len(s)

\* Lemma: the bytes of a short text.
LEMMA ShortBytes ==
    ASSUME NEW s, Short(s)
    PROVE  StringBytes(s) \in Seq(Byte) /\ Len(StringBytes(s)) = LengthOf(s) /\ LengthOf(s) \in Nat
<1>1. s \in Seq(Byte)
  BY DEF Short
<1>2. Len(s) \in Nat /\ IntSize \in Nat
  BY <1>1, Sizes
<1>3. QED  BY <1>1, <1>2, Written DEF LengthOf

\* Lemma: a text that is there is read.
LEMMA ShortRead ==
    ASSUME NEW buffer \in Seq(Byte), NEW at \in Nat \ {0}, NEW r, r.out = "ok", r.next = at, NEW s, Short(s),
           Holds(buffer, at, StringBytes(s))
    PROVE  StringAfter(buffer, r, MaxArray) = Read(s, at + LengthOf(s))
<1>1. s \in Seq(Byte) /\ Len(s) \in Ints /\ Len(s) <= MaxArray /\ MaxArray \in Int /\ Len(s) \in Nat /\ IntSize \in Nat
  BY ShortNames, Sizes DEF Short
<1>2. ReadString(buffer, at, MaxArray) = Read(s, at + IntSize + Len(s))
  BY <1>1, StringRead
<1>3. at + IntSize + Len(s) = at + LengthOf(s)
  BY <1>1 DEF LengthOf
<1>4. StringAfter(buffer, r, MaxArray) = ReadString(buffer, at, MaxArray)
  BY ONLY r.out = "ok", r.next = at, ThenNext DEF StringAfter
<1>5. QED  BY ONLY <1>2, <1>3, <1>4

\* Lemma: a name that is there is what the server expects.
LEMMA ExpectedRead ==
    ASSUME NEW buffer \in Seq(Byte), NEW at \in Nat \ {0}, NEW v, NEW s, Short(s),
           Holds(buffer, at, StringBytes(s))
    PROVE  Expect(buffer, Read(v, at), s) = Read(s, at + LengthOf(s))
<1> DEFINE r == Read(v, at)
           x == Read(s, at + LengthOf(s))
<1>1. r.out = "ok" /\ r.next = at /\ x.out = "ok" /\ x.value = s
  BY ReadHas
<1> HIDE DEF r
<1>2. StringAfter(buffer, r, MaxArray) = x
  BY <1>1, ShortRead
<1>3. Expect(buffer, r, s) = Matches(x, s)
  BY ONLY <1>2 DEF Expect
<1> HIDE DEF x
<1>4. Matches(x, s) = x
  BY ONLY <1>1, ThenNext DEF Matches
<1>5. QED  BY ONLY <1>3, <1>4 DEF x, r

\* Lemma: two texts in a row are bytes, as many as both have.
LEMMA BytesAdd ==
    ASSUME NEW x \in Seq(Byte), NEW y \in Seq(Byte)
    PROVE  x \o y \in Seq(Byte) /\ Len(x \o y) = Len(x) + Len(y) /\ Len(x) \in Nat /\ Len(y) \in Nat
OBVIOUS

\* Lemma: the first of them comes first.
LEMMA FirstBytes ==
    ASSUME NEW x \in Seq(Byte), NEW y \in Seq(Byte), NEW i \in 1 .. Len(x)
    PROVE  (x \o y)[i] = x[i]
OBVIOUS

\* Where the field count begins, the fields, and the values.
CountAt == 3 + LengthOf(ClassName)

FieldLength(i) == LengthOf(FieldNames[i]) + LengthOf(FieldTypes[i])

\* Lemma: the bytes of a field's name and type.
LEMMA FieldWritten ==
    ASSUME NEW i \in 1 .. 3
    PROVE  FieldBytes(i) \in Seq(Byte) /\ Len(FieldBytes(i)) = FieldLength(i) /\ FieldLength(i) \in Nat
<1>1. Short(FieldNames[i]) /\ Short(FieldTypes[i])
  BY ShortNames
<1> DEFINE x == StringBytes(FieldNames[i])
           y == StringBytes(FieldTypes[i])
<1>2. x \in Seq(Byte) /\ Len(x) = LengthOf(FieldNames[i]) /\ y \in Seq(Byte) /\ Len(y) = LengthOf(FieldTypes[i])
  BY ONLY <1>1, ShortBytes
<1>3. FieldBytes(i) = x \o y
  BY DEF FieldBytes
<1> HIDE DEF x, y
<1>4. x \o y \in Seq(Byte) /\ Len(x \o y) = Len(x) + Len(y) /\ Len(x) \in Nat /\ Len(y) \in Nat
  BY ONLY <1>2, BytesAdd
<1>5. QED  BY ONLY <1>2, <1>3, <1>4 DEF FieldLength

\* Lemma: what comes before the values, and how long it is.
LEMMA HeaderWritten ==
    /\ Header \in Seq(Byte) /\ Metadata \in Seq(Byte)
    /\ Len(Header) + 1 = CountAt + IntSize + FieldLength(1) + FieldLength(2) + FieldLength(3)
    /\ Len(Header) >= 2 /\ Header[1] = One /\ Header[2] = Zero
    /\ CountAt \in Nat \ {0}
<1> DEFINE marks == <<One, Zero>>
           class == StringBytes(ClassName)
           count == IntBytes(3)
<1>1. marks \in Seq(Byte) /\ Len(marks) = 2 /\ marks[1] = One /\ marks[2] = Zero
  BY Written
<1>2. class \in Seq(Byte) /\ Len(class) = LengthOf(ClassName) /\ LengthOf(ClassName) \in Nat
  BY ShortNames, ShortBytes
<1>3. count \in Seq(Byte) /\ Len(count) = IntSize /\ IntSize \in Nat
  BY Written, Sizes
<1>4. /\ FieldBytes(1) \in Seq(Byte) /\ Len(FieldBytes(1)) = FieldLength(1) /\ FieldLength(1) \in Nat
      /\ FieldBytes(2) \in Seq(Byte) /\ Len(FieldBytes(2)) = FieldLength(2) /\ FieldLength(2) \in Nat
      /\ FieldBytes(3) \in Seq(Byte) /\ Len(FieldBytes(3)) = FieldLength(3) /\ FieldLength(3) \in Nat
  BY FieldWritten
<1>5. /\ Metadata \in Seq(Byte)
      /\ Len(Metadata) = FieldLength(1) + FieldLength(2) + FieldLength(3)
  <2>1. /\ FieldBytes(1) \o FieldBytes(2) \in Seq(Byte)
        /\ Len(FieldBytes(1) \o FieldBytes(2)) = FieldLength(1) + FieldLength(2)
    BY ONLY <1>4, BytesAdd
  <2>2. Metadata = (FieldBytes(1) \o FieldBytes(2)) \o FieldBytes(3)
    BY DEF Metadata
  <2>3. QED  BY ONLY <1>4, <2>1, <2>2, BytesAdd
<1>6. Header = ((marks \o class) \o count) \o Metadata
  BY DEF Header
<1> HIDE DEF marks, class, count
<1>7. /\ (marks \o class) \o count \in Seq(Byte)
      /\ Len((marks \o class) \o count) = 2 + LengthOf(ClassName) + IntSize
      /\ ((marks \o class) \o count)[1] = One /\ ((marks \o class) \o count)[2] = Zero
  <2>1. marks \o class \in Seq(Byte) /\ Len(marks \o class) = 2 + LengthOf(ClassName)
    BY ONLY <1>1, <1>2, BytesAdd
  <2>2. (marks \o class)[1] = One /\ (marks \o class)[2] = Zero
    <3>1. 1 \in 1 .. Len(marks) /\ 2 \in 1 .. Len(marks)
      BY ONLY <1>1
    <3>2. QED  BY ONLY <1>1, <1>2, <3>1, FirstBytes
  <2>3. Len((marks \o class) \o count) = 2 + LengthOf(ClassName) + IntSize /\ (marks \o class) \o count \in Seq(Byte)
    BY ONLY <1>3, <2>1, BytesAdd
  <2>4. 1 \in 1 .. Len(marks \o class) /\ 2 \in 1 .. Len(marks \o class)
    BY ONLY <1>2, <2>1
  <2>5. ((marks \o class) \o count)[1] = One /\ ((marks \o class) \o count)[2] = Zero
    BY ONLY <1>3, <2>1, <2>2, <2>4, FirstBytes
  <2>6. QED  BY <2>3, <2>5
<1>8. /\ Header \in Seq(Byte)
      /\ Len(Header) = 2 + LengthOf(ClassName) + IntSize + (FieldLength(1) + FieldLength(2) + FieldLength(3))
  BY ONLY <1>5, <1>6, <1>7, BytesAdd
<1>9. Header[1] = One /\ Header[2] = Zero
  <2>1. 1 \in 1 .. Len((marks \o class) \o count) /\ 2 \in 1 .. Len((marks \o class) \o count)
    BY ONLY <1>2, <1>3, <1>7
  <2>2. QED  BY ONLY <1>5, <1>6, <1>7, <2>1, FirstBytes
<1>10. CountAt = 3 + LengthOf(ClassName) /\ CountAt \in Nat \ {0}
  BY <1>2 DEF CountAt
<1> DEFINE a == LengthOf(ClassName)
           b == FieldLength(1)
           c == FieldLength(2)
           d == FieldLength(3)
           e == Len(Header)
<1>11. a \in Nat /\ b \in Nat /\ c \in Nat /\ d \in Nat /\ e = 2 + a + IntSize + (b + c + d) /\ CountAt = 3 + a
  BY ONLY <1>2, <1>4, <1>8, <1>10
<1> HIDE DEF a, b, c, d, e
<1>12. e >= 2 /\ e + 1 = CountAt + IntSize + b + c + d
  BY ONLY <1>3, <1>11
<1>13. QED  BY ONLY <1>5, <1>8, <1>9, <1>10, <1>12 DEF b, c, d, e

\* Lemma: a buffer that holds the header holds its parts.
LEMMA HeaderHeld ==
    ASSUME NEW buffer \in Seq(Byte), Holds(buffer, 1, Header)
    PROVE  /\ Holds(buffer, 3, StringBytes(ClassName))
           /\ Holds(buffer, CountAt, IntBytes(3))
           /\ Holds(buffer, CountAt + IntSize, FieldBytes(1))
           /\ Holds(buffer, CountAt + IntSize + FieldLength(1), FieldBytes(2))
           /\ Holds(buffer, CountAt + IntSize + FieldLength(1) + FieldLength(2), FieldBytes(3))
           /\ Len(buffer) >= 2 /\ buffer[1] = One /\ buffer[2] = Zero
<1> DEFINE marks == <<One, Zero>>
           class == StringBytes(ClassName)
           count == IntBytes(3)
           f1    == FieldBytes(1)
           f2    == FieldBytes(2)
           f3    == FieldBytes(3)
           at    == CountAt + IntSize
<1>1. 1 \in Nat \ {0}
  OBVIOUS
<1>2. marks \in Seq(Byte) /\ Len(marks) = 2
  BY Written
<1>3. class \in Seq(Byte) /\ Len(class) = LengthOf(ClassName) /\ LengthOf(ClassName) \in Nat
  BY ShortNames, ShortBytes
<1>4. count \in Seq(Byte) /\ Len(count) = IntSize /\ IntSize \in Nat
  BY Written, Sizes
<1>5. /\ f1 \in Seq(Byte) /\ Len(f1) = FieldLength(1) /\ FieldLength(1) \in Nat
      /\ f2 \in Seq(Byte) /\ Len(f2) = FieldLength(2) /\ FieldLength(2) \in Nat
      /\ f3 \in Seq(Byte) /\ Len(f3) = FieldLength(3) /\ FieldLength(3) \in Nat
  BY FieldWritten
<1>6. Header = ((marks \o class) \o count) \o Metadata /\ Metadata = (f1 \o f2) \o f3
  BY DEF Header, Metadata
<1>7. CountAt = 3 + LengthOf(ClassName) /\ CountAt \in Nat \ {0} /\ Metadata \in Seq(Byte)
  BY HeaderWritten DEF CountAt
<1> HIDE DEF marks, class, count, f1, f2, f3
<1>8. /\ marks \o class \in Seq(Byte) /\ Len(marks \o class) = 2 + LengthOf(ClassName)
      /\ (marks \o class) \o count \in Seq(Byte)
      /\ Len((marks \o class) \o count) = 2 + LengthOf(ClassName) + IntSize
      /\ f1 \o f2 \in Seq(Byte) /\ Len(f1 \o f2) = FieldLength(1) + FieldLength(2)
  <2>1. marks \o class \in Seq(Byte) /\ Len(marks \o class) = 2 + LengthOf(ClassName)
    BY ONLY <1>2, <1>3, BytesAdd
  <2>2. f1 \o f2 \in Seq(Byte) /\ Len(f1 \o f2) = FieldLength(1) + FieldLength(2)
    <3>1. f1 \o f2 \in Seq(Byte) /\ Len(f1 \o f2) = Len(f1) + Len(f2)
      BY ONLY <1>5, BytesAdd
    <3>2. QED  BY ONLY <1>5, <3>1
  <2>3. /\ (marks \o class) \o count \in Seq(Byte)
        /\ Len((marks \o class) \o count) = 2 + LengthOf(ClassName) + IntSize
    BY ONLY <1>4, <2>1, BytesAdd
  <2>4. QED  BY <2>1, <2>2, <2>3
<1>9. Holds(buffer, 1, (marks \o class) \o count) /\ Holds(buffer, at, Metadata)
  <2>1. 1 + (2 + LengthOf(ClassName) + IntSize) = at
    BY ONLY <1>3, <1>4, <1>7
  <2>2. Holds(buffer, 1, (marks \o class) \o count) /\ Holds(buffer, 1 + Len((marks \o class) \o count), Metadata)
    BY ONLY <1>1, <1>6, <1>7, <1>8, Holds(buffer, 1, Header), buffer \in Seq(Byte), HoldsBoth
  <2>3. QED  BY ONLY <1>8, <2>1, <2>2
<1>10. Holds(buffer, 1, marks \o class) /\ Holds(buffer, CountAt, count)
  <2>1. 1 + (2 + LengthOf(ClassName)) = CountAt
    BY ONLY <1>3, <1>7
  <2>2. Holds(buffer, 1, marks \o class) /\ Holds(buffer, 1 + Len(marks \o class), count)
    BY ONLY <1>1, <1>4, <1>8, <1>9, buffer \in Seq(Byte), HoldsBoth
  <2>3. QED  BY ONLY <1>8, <2>1, <2>2
<1>11. Holds(buffer, 1, marks) /\ Holds(buffer, 3, class)
  <2>1. Holds(buffer, 1, marks) /\ Holds(buffer, 1 + Len(marks), class)
    BY ONLY <1>1, <1>2, <1>3, <1>10, buffer \in Seq(Byte), HoldsBoth
  <2>2. QED  BY ONLY <1>2, <2>1
<1>12. at \in Nat \ {0} /\ at + FieldLength(1) \in Nat \ {0}
  BY ONLY <1>4, <1>5, <1>7
<1>13. Holds(buffer, at, f1 \o f2) /\ Holds(buffer, at + FieldLength(1) + FieldLength(2), f3)
  <2>1. at + (FieldLength(1) + FieldLength(2)) = at + FieldLength(1) + FieldLength(2)
    BY ONLY <1>5, <1>12
  <2>2. Holds(buffer, at, f1 \o f2) /\ Holds(buffer, at + Len(f1 \o f2), f3)
    BY ONLY <1>5, <1>6, <1>8, <1>9, <1>12, buffer \in Seq(Byte), HoldsBoth
  <2>3. QED  BY ONLY <1>8, <2>1, <2>2
<1>14. Holds(buffer, at, f1) /\ Holds(buffer, at + FieldLength(1), f2)
  BY ONLY <1>5, <1>12, <1>13, buffer \in Seq(Byte), HoldsBoth
<1>15. Len(buffer) >= 2 /\ buffer[1] = One /\ buffer[2] = Zero
  BY <1>11 DEF Holds, marks
<1>16. QED  BY <1>10, <1>11, <1>13, <1>14, <1>15 DEF class, count, f1, f2, f3

\* Lemma: the server reads a field's name and type.
LEMMA NamedRead ==
    ASSUME NEW buffer \in Seq(Byte), NEW at \in Nat \ {0}, NEW v, NEW i \in 1 .. 3,
           Holds(buffer, at, FieldBytes(i))
    PROVE  Named(buffer, Read(v, at), i, 3) = Read(FieldTypes[i], at + FieldLength(i))
<1> DEFINE name == FieldNames[i]
           type == FieldTypes[i]
<1>1. Short(name) /\ Short(type)
  BY ShortNames
<1>2. /\ StringBytes(name) \in Seq(Byte) /\ Len(StringBytes(name)) = LengthOf(name) /\ LengthOf(name) \in Nat
      /\ StringBytes(type) \in Seq(Byte) /\ LengthOf(type) \in Nat
  BY <1>1, ShortBytes
<1>3. FieldBytes(i) = StringBytes(name) \o StringBytes(type) /\ FieldLength(i) = LengthOf(name) + LengthOf(type)
  BY DEF FieldBytes, FieldLength
<1>4. Named(buffer, Read(v, at), i, 3) = Field(buffer, Read(v, at), name, type)
  BY DEF Named
<1> HIDE DEF name, type
<1> DEFINE r == Read(v, at)
           n == Read(name, at + LengthOf(name))
           t == Read(type, at + LengthOf(name) + LengthOf(type))
<1>5. Holds(buffer, at, StringBytes(name)) /\ Holds(buffer, at + LengthOf(name), StringBytes(type))
  BY ONLY <1>2, <1>3, Holds(buffer, at, FieldBytes(i)), buffer \in Seq(Byte), at \in Nat \ {0}, HoldsBoth
<1>6. at + LengthOf(name) \in Nat \ {0}
  BY ONLY <1>2, at \in Nat \ {0}
<1>7. /\ r.out = "ok" /\ r.next = at
      /\ n.out = "ok" /\ n.next = at + LengthOf(name) /\ n.value = name
      /\ t.out = "ok" /\ t.value = type
  BY ONLY ReadHas
<1> HIDE DEF r, n, t
<1>8. StringAfter(buffer, r, MaxArray) = n
  BY ONLY <1>1, <1>5, <1>7, buffer \in Seq(Byte), at \in Nat \ {0}, ShortRead DEF n
<1>9. StringAfter(buffer, n, MaxArray) = t
  BY ONLY <1>1, <1>5, <1>6, <1>7, buffer \in Seq(Byte), ShortRead DEF t
<1>10. Matches(t, type) = t
  BY ONLY <1>7, ThenNext DEF Matches
<1>11. Field(buffer, r, name, type) = t
  <2>1. Field(buffer, r, name, type) = Then(t, IF n.value = name THEN Matches(t, type) ELSE Exception)
    BY ONLY <1>8, <1>9 DEF Field
  <2>2. QED  BY ONLY <1>7, <1>10, <2>1, ThenNext
<1>12. at + LengthOf(name) + LengthOf(type) = at + FieldLength(i)
  BY ONLY <1>2, <1>3, at \in Nat \ {0}
<1>13. QED  BY ONLY <1>4, <1>11, <1>12 DEF r, t, type

\* Lemma: the server reads the header and comes to the values.
LEMMA JavaReadsHeader ==
    ASSUME NEW buffer \in Seq(Byte), Holds(buffer, 1, Header)
    PROVE  JavaObject(buffer) = JavaFields(buffer, Read(FieldTypes[3], Len(Header) + 1), 3)
<1> DEFINE at    == CountAt + IntSize
           count == Read(3, at)
           read1 == Read(FieldTypes[1], at + FieldLength(1))
           read2 == Read(FieldTypes[2], at + FieldLength(1) + FieldLength(2))
           read3 == Read(FieldTypes[3], at + FieldLength(1) + FieldLength(2) + FieldLength(3))
<1>1. /\ Holds(buffer, 3, StringBytes(ClassName)) /\ Holds(buffer, CountAt, IntBytes(3))
      /\ Holds(buffer, at, FieldBytes(1)) /\ Holds(buffer, at + FieldLength(1), FieldBytes(2))
      /\ Holds(buffer, at + FieldLength(1) + FieldLength(2), FieldBytes(3))
      /\ Len(buffer) >= 2 /\ buffer[1] = One /\ buffer[2] = Zero
  BY HeaderHeld
<1>2. /\ CountAt \in Nat \ {0} /\ IntSize \in Nat
      /\ FieldLength(1) \in Nat /\ FieldLength(2) \in Nat /\ FieldLength(3) \in Nat
      /\ Len(Header) + 1 = at + FieldLength(1) + FieldLength(2) + FieldLength(3)
  BY HeaderWritten, FieldWritten, Sizes
<1>3. at \in Nat \ {0} /\ at + FieldLength(1) \in Nat \ {0} /\ at + FieldLength(1) + FieldLength(2) \in Nat \ {0}
  BY ONLY <1>2
<1>4. Expect(buffer, Read(0, 3), ClassName) = Read(ClassName, CountAt)
  <2>1. Expect(buffer, Read(0, 3), ClassName) = Read(ClassName, 3 + LengthOf(ClassName))
    BY <1>1, ShortNames, ExpectedRead
  <2>2. QED  BY <2>1 DEF CountAt
<1>5. IntAfter(buffer, Read(ClassName, CountAt)) = count
  <2>1. ReadInt(buffer, CountAt) = count
    BY <1>1, <1>2, ShortNames, IntRead
  <2>2. QED  BY ONLY <2>1, ReadHas, ThenNext DEF IntAfter
<1> HIDE DEF at
<1>6. Named(buffer, count, 1, 3) = read1
  BY <1>1, <1>3, NamedRead
<1>7. Named(buffer, read1, 2, 3) = read2
  BY <1>1, <1>3, NamedRead
<1>8. Named(buffer, read2, 3, 3) = read3
  BY <1>1, <1>3, NamedRead
<1> HIDE DEF count, read1, read2
<1>9. ReadMetadata(buffer, count, 3) = read3
  BY ONLY <1>6, <1>7, <1>8 DEF ReadMetadata
<1>10. count.out = "ok" /\ count.value = 3
  BY ReadHas DEF count
<1>11. Zero # One
  BY Written
<1>12. IntAfter(buffer, Expect(buffer, Read(0, 3), ClassName)) = count
  BY <1>4, <1>5
<1>13. JavaObject(buffer) = Then(count, JavaFields(buffer, ReadMetadata(buffer, count, count.value), count.value))
  BY ONLY <1>1, <1>11, <1>12, buffer \in Seq(Byte) DEF JavaObject
<1>14. read3 = Read(FieldTypes[3], Len(Header) + 1)
  BY <1>2
<1> HIDE DEF read3
<1>15. JavaObject(buffer) = JavaFields(buffer, read3, 3)
  BY ONLY <1>9, <1>10, <1>13, ThenNext
<1>16. QED  BY <1>14, <1>15

\* Where the values of a message begin, the marker of its data, and the data.
ValuesAt == Len(Header) + 1

MarkAt == ValuesAt + IntSize + IntSize

TextAt == MarkAt + 1

\* Lemma: they are positions.
LEMMA Positions ==
    /\ ValuesAt \in Nat \ {0} /\ ValuesAt + IntSize \in Nat \ {0} /\ MarkAt \in Nat \ {0}
    /\ TextAt \in Nat \ {0} /\ IntSize \in Nat \ {0} /\ Len(Header) \in Nat
    /\ MarkAt = Len(Header) + 2 * IntSize + 1
<1>1. Len(Header) \in Nat /\ IntSize \in Nat \ {0}
  BY HeaderWritten, Sizes
<1>2. QED  BY ONLY <1>1 DEF ValuesAt, MarkAt, TextAt

\* Lemma: where a message's text ends.
LEMMA TextEnd ==
    ASSUME NEW s, Len(s) \in Nat
    PROVE  TextAt + IntSize + Len(s) = TextAt + LengthOf(s)
<1>1. TextAt \in Nat /\ IntSize \in Nat
  BY Positions
<1>2. QED  BY ONLY <1>1, Len(s) \in Nat DEF LengthOf

\* A message that can be written, with none for no data.
Writable(m, none) ==
    /\ m.type \in Ints /\ m.id \in Ints
    /\ m.data # none => m.data \in Seq(Byte) /\ Len(m.data) \in Ints

\* The buffer holds what comes before a message's data.
Begun(buffer, m) ==
    /\ Holds(buffer, 1, Header)
    /\ Holds(buffer, ValuesAt, IntBytes(m.type))
    /\ Holds(buffer, ValuesAt + IntSize, IntBytes(m.id))

\* Lemma: a message as it is written, and what a buffer holds that holds it.
LEMMA ObjectHeld ==
    ASSUME NEW m, NEW none, Writable(m, none), NEW buffer \in Seq(Byte)
    PROVE  /\ SerializeObject(m, none) \in Seq(Byte)
           /\ Len(SerializeObject(m, none)) = IF m.data = none THEN MarkAt ELSE MarkAt + LengthOf(m.data)
           /\ Holds(buffer, 1, SerializeObject(m, none)) =>
                  /\ Begun(buffer, m)
                  /\ m.data = none => Holds(buffer, MarkAt, <<Zero>>)
                  /\ m.data # none => Holds(buffer, MarkAt, <<One>>) /\ Holds(buffer, TextAt, StringBytes(m.data))
<1> DEFINE type == IntBytes(m.type)
           id   == IntBytes(m.id)
           text == StringBytes(m.data)
           mark == IF m.data = none THEN <<Zero>> ELSE <<One>>
           data == IF m.data = none THEN <<Zero>> ELSE <<One>> \o text
           head == (Header \o type) \o id
<1>1. type \in Seq(Byte) /\ Len(type) = IntSize /\ id \in Seq(Byte) /\ Len(id) = IntSize
  BY Written
<1>2. Header \in Seq(Byte) /\ 1 \in Nat \ {0}
  BY HeaderWritten
<1>3. SerializeObject(m, none) = head \o data
  BY DEF SerializeObject
<1>4. /\ mark \in Seq(Byte) /\ Len(mark) = 1
      /\ m.data # none => text \in Seq(Byte) /\ Len(text) = LengthOf(m.data) /\ LengthOf(m.data) \in Nat
  <2>1. <<Zero>> \in Seq(Byte) /\ <<One>> \in Seq(Byte) /\ Len(<<Zero>>) = 1 /\ Len(<<One>>) = 1
    BY Written
  <2>2. m.data # none => text \in Seq(Byte) /\ Len(text) = IntSize + Len(m.data) /\ Len(m.data) \in Nat
    BY Written DEF Writable
  <2>3. m.data # none => Len(text) = LengthOf(m.data) /\ LengthOf(m.data) \in Nat
    BY ONLY <2>2, Sizes DEF LengthOf
  <2>4. QED  BY ONLY <2>1, <2>2, <2>3
<1>5. data = IF m.data = none THEN mark ELSE mark \o text
  OBVIOUS
<1> HIDE DEF type, id, text, mark, data
<1>6. /\ data \in Seq(Byte)
      /\ Len(data) = IF m.data = none THEN 1 ELSE 1 + LengthOf(m.data)
  <2>1. CASE m.data = none
    BY ONLY <1>4, <1>5, <2>1
  <2>2. CASE m.data # none
    <3>1. mark \o text \in Seq(Byte) /\ Len(mark \o text) = Len(mark) + Len(text)
      BY ONLY <1>4, <2>2, BytesAdd
    <3>2. QED  BY ONLY <1>4, <1>5, <2>2, <3>1
  <2>3. QED  BY <2>1, <2>2
<1>7. /\ Header \o type \in Seq(Byte) /\ Len(Header \o type) = Len(Header) + IntSize
      /\ head \in Seq(Byte) /\ Len(head) = Len(Header) + IntSize + IntSize
  <2>1. Header \o type \in Seq(Byte) /\ Len(Header \o type) = Len(Header) + IntSize
    BY ONLY <1>1, <1>2, BytesAdd
  <2>2. head \in Seq(Byte) /\ Len(head) = Len(Header \o type) + IntSize
    BY ONLY <1>1, <2>1, BytesAdd
  <2>3. QED  BY ONLY <2>1, <2>2
<1> HIDE DEF head
<1>8. /\ 1 + Len(head) = MarkAt /\ 1 + Len(Header \o type) = ValuesAt + IntSize /\ 1 + Len(Header) = ValuesAt
      /\ MarkAt + 1 = TextAt
  BY ONLY <1>7, Positions DEF MarkAt, ValuesAt, TextAt
<1>9. head \o data \in Seq(Byte) /\ Len(head \o data) = Len(head) + Len(data)
  BY ONLY <1>6, <1>7, BytesAdd
<1>10. Len(head \o data) = IF m.data = none THEN MarkAt ELSE MarkAt + LengthOf(m.data)
  <2>1. Len(head) \in Nat /\ MarkAt = 1 + Len(head)
    BY ONLY <1>7, <1>8, BytesAdd
  <2>2. CASE m.data = none
    <3>1. Len(data) = 1
      BY ONLY <1>6, <2>2
    <3>2. QED  BY ONLY <1>9, <2>1, <2>2, <3>1
  <2>3. CASE m.data # none
    <3>1. Len(data) = 1 + LengthOf(m.data) /\ LengthOf(m.data) \in Nat
      BY ONLY <1>4, <1>6, <2>3
    <3>2. QED  BY ONLY <1>9, <2>1, <2>3, <3>1
  <2>4. QED  BY ONLY <2>2, <2>3
<1>11. ASSUME Holds(buffer, 1, head \o data)
       PROVE  /\ Begun(buffer, m)
              /\ Holds(buffer, MarkAt, mark)
              /\ m.data # none => Holds(buffer, TextAt, text)
  <2>1. Holds(buffer, 1, head) /\ Holds(buffer, MarkAt, data)
    BY ONLY <1>2, <1>6, <1>7, <1>8, <1>11, buffer \in Seq(Byte), HoldsBoth
  <2>2. Holds(buffer, 1, Header \o type) /\ Holds(buffer, ValuesAt + IntSize, id)
    BY ONLY <1>1, <1>2, <1>7, <1>8, <2>1, buffer \in Seq(Byte), HoldsBoth DEF head
  <2>3. Holds(buffer, 1, Header) /\ Holds(buffer, ValuesAt, type)
    BY ONLY <1>1, <1>2, <1>8, <2>2, buffer \in Seq(Byte), HoldsBoth
  <2>4. Begun(buffer, m)
    BY <2>2, <2>3 DEF Begun, type, id
  <2>5. m.data # none => Holds(buffer, MarkAt, mark) /\ Holds(buffer, TextAt, text)
    BY ONLY <1>4, <1>5, <1>8, <2>1, Positions, buffer \in Seq(Byte), HoldsBoth
  <2>6. m.data = none => Holds(buffer, MarkAt, mark)
    BY ONLY <1>5, <2>1
  <2>7. QED  BY <2>4, <2>5, <2>6
<1>12. QED  BY <1>3, <1>9, <1>10, <1>11 DEF mark, text

\* Lemma: a message is written as so many bytes.
LEMMA ObjectWritten ==
    ASSUME NEW m, NEW none, Writable(m, none)
    PROVE  /\ SerializeObject(m, none) \in Seq(Byte)
           /\ Len(SerializeObject(m, none)) = IF m.data = none THEN MarkAt ELSE MarkAt + LengthOf(m.data)
<1>1. <<>> \in Seq(Byte)
  OBVIOUS
<1>2. QED  BY ONLY <1>1, Writable(m, none), ObjectHeld

\* Lemma: what a datagram holds is held by what arrives of it, if that is
\* long enough.
LEMMA HeldInPart ==
    ASSUME NEW buffer \in Seq(Byte), NEW k \in 0 .. Len(buffer), NEW at \in Nat \ {0}, NEW x \in Seq(Byte),
           Holds(buffer, at, x), at + Len(x) - 1 <= k
    PROVE  Holds(SubSeq(buffer, 1, k), at, x)
<1>1. Len(SubSeq(buffer, 1, k)) = k
  OBVIOUS
<1>2. ASSUME NEW i \in 1 .. Len(x) PROVE SubSeq(buffer, 1, k)[at + i - 1] = x[i]
  <2>1. at + i - 1 \in 1 .. k
    OBVIOUS
  <2>2. SubSeq(buffer, 1, k)[at + i - 1] = buffer[at + i - 1]
    BY <2>1
  <2>3. QED  BY <2>2 DEF Holds
<1>3. QED  BY <1>1, <1>2 DEF Holds

\* Lemma: the two ints of a message are read.
LEMMA IntsRead ==
    ASSUME NEW buffer \in Seq(Byte), NEW m, m.type \in Ints, m.id \in Ints, Begun(buffer, m)
    PROVE  /\ ReadInt(buffer, ValuesAt) = Read(m.type, ValuesAt + IntSize)
           /\ IntAfter(buffer, Read(m.type, ValuesAt + IntSize)) = Read(m.id, MarkAt)
<1>1. ReadInt(buffer, ValuesAt) = Read(m.type, ValuesAt + IntSize)
  BY Positions, IntRead DEF Begun
<1>2. ReadInt(buffer, ValuesAt + IntSize) = Read(m.id, ValuesAt + IntSize + IntSize)
  BY Positions, IntRead DEF Begun
<1>3. IntAfter(buffer, Read(m.type, ValuesAt + IntSize)) = Read(m.id, ValuesAt + IntSize + IntSize)
  BY ONLY <1>2, ReadHas, ThenNext DEF IntAfter
<1>4. QED  BY <1>1, <1>3 DEF MarkAt

\* Lemma: and so is the marker of its data.
LEMMA MarkRead ==
    ASSUME NEW buffer \in Seq(Byte), NEW v, NEW b, Holds(buffer, MarkAt, <<b>>)
    PROVE  ByteAfter(buffer, Read(v, MarkAt)) = Read(b, TextAt)
<1>1. buffer[MarkAt] = b /\ MarkAt <= Len(buffer)
  <2>1. Len(<<b>>) = 1 /\ <<b>>[1] = b
    OBVIOUS
  <2>2. buffer[MarkAt + 1 - 1] = b /\ MarkAt + 1 - 1 <= Len(buffer)
    BY ONLY <2>1, Holds(buffer, MarkAt, <<b>>) DEF Holds
  <2>3. QED  BY <2>2, Positions
<1>2. ReadByte(buffer, MarkAt) = Read(b, TextAt)
  BY <1>1 DEF ReadByte, TextAt
<1>3. QED  BY ONLY <1>2, ReadHas, ThenNext DEF ByteAfter

\* Lemma: a message is made of its type, its id and its data, or fails with it.
LEMMA AssembledRead ==
    ASSUME NEW type, NEW id, NEW data, NEW at1, NEW at2, NEW next
    PROVE  /\ Assembled(Read(type, at1), Read(id, at2), Read(data, next)) = Read(Message(type, id, data), next)
           /\ Assembled(Read(type, at1), Read(id, at2), Exception) = Exception
<1>1. Exception.out # "ok"
  BY DEF Exception
<1>2. Assembled(Read(type, at1), Read(id, at2), Read(data, next)) = Read(Message(type, id, data), next)
  BY ONLY ReadHas, ThenNext DEF Assembled
<1>3. Assembled(Read(type, at1), Read(id, at2), Exception) = Exception
  BY ONLY <1>1, ThenNext DEF Assembled
<1>4. QED  BY <1>2, <1>3

\* Lemma: a text that goes on beyond the end of the buffer is an exception.
LEMMA StringCut ==
    ASSUME NEW buffer \in Seq(Byte), NEW at \in Nat \ {0}, NEW max \in Int, NEW n \in Ints,
           n \in Nat, n <= max, Holds(buffer, at, IntBytes(n)), at + IntSize + n - 1 > Len(buffer)
    PROVE  ReadString(buffer, at, max) = Exception
<1> DEFINE r == ReadInt(buffer, at)
           body == IF r.value > max THEN Fatal
                   ELSE IF r.value < 0 \/ r.next + r.value - 1 > Len(buffer) THEN Exception
                   ELSE Read(SubSeq(buffer, r.next, r.next + r.value - 1), r.next + r.value)
<1>1. r = Read(n, at + IntSize)
  BY IntRead
<1>2. r.out = "ok" /\ r.value = n /\ r.next = at + IntSize
  BY <1>1, ReadHas
<1>3. ReadString(buffer, at, max) = Then(r, body)
  BY DEF ReadString
<1> HIDE DEF r
<1>4. ~ (n > max)
  OBVIOUS
<1>5. body = Exception
  BY ONLY <1>2, <1>4, at + IntSize + n - 1 > Len(buffer)
<1> HIDE DEF body
<1>6. QED  BY ONLY <1>2, <1>3, <1>5, ThenNext

\* Lemma: the server reads a message with no data, with a text, and one whose
\* text is cut off.
LEMMA JavaReads ==
    ASSUME NEW buffer \in Seq(Byte), NEW m, m.type \in Ints, m.id \in Ints, Begun(buffer, m)
    PROVE  /\ Holds(buffer, MarkAt, <<Zero>>) => JavaObject(buffer) = Read(Message(m.type, m.id, Null), TextAt)
           /\ Holds(buffer, MarkAt, <<One>>) /\ Short(m.data) /\ Holds(buffer, TextAt, StringBytes(m.data)) =>
                  JavaObject(buffer) = Read(Message(m.type, m.id, m.data), TextAt + LengthOf(m.data))
           /\ /\ Holds(buffer, MarkAt, <<One>>) /\ Short(m.data) /\ Holds(buffer, TextAt, IntBytes(Len(m.data)))
              /\ TextAt + LengthOf(m.data) - 1 > Len(buffer)
              => JavaObject(buffer) = Exception
<1> DEFINE r    == Read(FieldTypes[3], ValuesAt)
           type == Read(m.type, ValuesAt + IntSize)
           id   == Read(m.id, MarkAt)
           mark(b) == Read(b, TextAt)
<1>1. JavaObject(buffer) = JavaFields(buffer, r, 3)
  BY JavaReadsHeader DEF Begun, ValuesAt
<1>2. IntAfter(buffer, r) = type /\ IntAfter(buffer, type) = id
  <2>1. ReadInt(buffer, ValuesAt) = type /\ IntAfter(buffer, type) = id
    BY IntsRead
  <2>2. IntAfter(buffer, r) = ReadInt(buffer, ValuesAt)
    BY ONLY ReadHas, ThenNext DEF IntAfter
  <2>3. QED  BY <2>1, <2>2
<1>3. JavaFields(buffer, r, 3) = Assembled(type, id, JavaData(buffer, ByteAfter(buffer, id)))
  <2> HIDE DEF r, type, id
  <2>1. 3 >= 1 /\ 3 >= 2 /\ 3 >= 3
    OBVIOUS
  <2>2. QED  BY ONLY <1>2, <2>1 DEF JavaFields
<1>4. ASSUME NEW b, Holds(buffer, MarkAt, <<b>>)
      PROVE  JavaObject(buffer) = Assembled(type, id, JavaData(buffer, mark(b)))
  <2>1. ByteAfter(buffer, id) = mark(b)
    BY <1>4, MarkRead
  <2>2. QED  BY ONLY <1>1, <1>3, <2>1
<1>5. \A b : mark(b).out = "ok" /\ mark(b).value = b /\ mark(b).next = TextAt
  BY ReadHas
<1>6. JavaData(buffer, mark(Zero)) = Read(Null, TextAt)
  <2>1. Default(mark(Zero), Null) = Read(Null, TextAt)
    BY ONLY <1>5, ThenNext DEF Default
  <2>2. QED  BY ONLY <1>5, <2>1, ThenNext DEF JavaData
<1>7. JavaData(buffer, mark(One)) = ReadString(buffer, TextAt, MaxArray)
  <2>1. StringAfter(buffer, mark(One), MaxArray) = ReadString(buffer, TextAt, MaxArray)
    BY ONLY <1>5, ThenNext DEF StringAfter
  <2>2. One # Zero
    BY Written
  <2>3. QED  BY ONLY <1>5, <2>1, <2>2, ThenNext DEF JavaData
<1>8. ASSUME Holds(buffer, MarkAt, <<Zero>>)
      PROVE  JavaObject(buffer) = Read(Message(m.type, m.id, Null), TextAt)
  <2>1. JavaObject(buffer) = Assembled(type, id, Read(Null, TextAt))
    BY <1>4, <1>6, <1>8
  <2>2. QED  BY <2>1, AssembledRead
<1>9. ASSUME Holds(buffer, MarkAt, <<One>>), Short(m.data), Holds(buffer, TextAt, StringBytes(m.data))
      PROVE  JavaObject(buffer) = Read(Message(m.type, m.id, m.data), TextAt + LengthOf(m.data))
  <2>1. /\ m.data \in Seq(Byte) /\ Len(m.data) \in Ints /\ Len(m.data) <= MaxArray /\ MaxArray \in Int
        /\ Len(m.data) \in Nat
    BY <1>9, ShortNames DEF Short
  <2>2. ReadString(buffer, TextAt, MaxArray) = Read(m.data, TextAt + IntSize + Len(m.data))
    BY <1>9, <2>1, Positions, StringRead
  <2>3. TextAt + IntSize + Len(m.data) = TextAt + LengthOf(m.data)
    BY ONLY <2>1, TextEnd
  <2>4. JavaObject(buffer) = Assembled(type, id, Read(m.data, TextAt + LengthOf(m.data)))
    BY <1>4, <1>7, <1>9, <2>2, <2>3
  <2>5. QED  BY <2>4, AssembledRead
<1>10. ASSUME Holds(buffer, MarkAt, <<One>>), Short(m.data), Holds(buffer, TextAt, IntBytes(Len(m.data))),
              TextAt + LengthOf(m.data) - 1 > Len(buffer)
       PROVE  JavaObject(buffer) = Exception
  <2>1. /\ m.data \in Seq(Byte) /\ Len(m.data) \in Ints /\ Len(m.data) <= MaxArray /\ MaxArray \in Int
        /\ Len(m.data) \in Nat
    BY <1>10, ShortNames DEF Short
  <2>2. TextAt + IntSize + Len(m.data) = TextAt + LengthOf(m.data)
    BY ONLY <2>1, TextEnd
  <2>3. ReadString(buffer, TextAt, MaxArray) = Exception
    <3>1. TextAt + IntSize + Len(m.data) - 1 > Len(buffer) /\ TextAt \in Nat \ {0}
      <4>1. TextAt \in Nat \ {0} /\ IntSize \in Nat /\ Len(buffer) \in Nat
        BY Positions
      <4>2. LengthOf(m.data) = IntSize + Len(m.data)
        BY DEF LengthOf
      <4>3. TextAt + LengthOf(m.data) - 1 > Len(buffer)
        BY ONLY <1>10
      <4> DEFINE n == Len(m.data)
                 e == Len(buffer)
      <4>4. n \in Nat /\ e \in Nat /\ TextAt + (IntSize + n) - 1 > e
        BY ONLY <2>1, <4>1, <4>2, <4>3
      <4> HIDE DEF n, e
      <4>5. TextAt + IntSize + n - 1 > e
        BY ONLY <4>1, <4>4
      <4>6. QED  BY ONLY <4>1, <4>5 DEF n, e
    <3>2. QED  BY ONLY <1>10, <2>1, <3>1, buffer \in Seq(Byte), StringCut
  <2>4. JavaObject(buffer) = Assembled(type, id, Exception)
    BY <1>4, <1>7, <1>10, <2>3
  <2>5. QED  BY <2>4, AssembledRead
<1>11. QED  BY ONLY <1>8, <1>9, <1>10

\* Lemma: the client reads a message with no data, and with a text.
LEMMA CppReads ==
    ASSUME NEW buffer \in Seq(Byte), NEW m, m.type \in Ints, m.id \in Ints, Begun(buffer, m)
    PROVE  /\ Holds(buffer, MarkAt, <<Zero>>) => CppObject(buffer) = Read(Message(m.type, m.id, <<>>), TextAt)
           /\ /\ Holds(buffer, MarkAt, <<One>>) /\ m.data \in Seq(Byte) /\ Len(m.data) \in Ints
              /\ Holds(buffer, TextAt, StringBytes(m.data))
              => CppObject(buffer) = Read(Message(m.type, m.id, m.data), TextAt + LengthOf(m.data))
<1> DEFINE type == Read(m.type, ValuesAt + IntSize)
           id   == Read(m.id, MarkAt)
           mark(b) == Read(b, TextAt)
<1>1. CppObject(buffer) = CppFields(buffer)
  <2>1. Holds(buffer, 1, Header) /\ Zero # One
    BY Written DEF Begun
  <2>2. Len(buffer) >= 2 /\ buffer[1] = One /\ buffer[2] = Zero
    BY ONLY <2>1, buffer \in Seq(Byte), HeaderHeld
  <2>3. SameHeader(buffer)
    <3>1. \A i \in 1 .. Len(Header) : i <= Len(buffer) /\ buffer[i] = Header[i]
      BY ONLY <2>1, Positions DEF Holds
    <3>2. \A i \in 3 .. Len(Header) : i \in 1 .. Len(Header)
      BY Positions
    <3>3. QED  BY ONLY <3>1, <3>2 DEF SameHeader
  <2>4. QED  BY ONLY <2>1, <2>2, <2>3, buffer \in Seq(Byte) DEF CppObject
<1>2. ReadInt(buffer, Len(Header) + 1) = type /\ IntAfter(buffer, type) = id
  BY IntsRead DEF ValuesAt
<1>3. CppFields(buffer) = Assembled(type, id, CppData(buffer, ByteAfter(buffer, id)))
  <2> HIDE DEF type, id
  <2>1. QED  BY ONLY <1>2 DEF CppFields
<1>4. ASSUME NEW b, Holds(buffer, MarkAt, <<b>>)
      PROVE  CppObject(buffer) = Assembled(type, id, CppData(buffer, mark(b)))
  <2>1. ByteAfter(buffer, id) = mark(b)
    BY <1>4, MarkRead
  <2>2. QED  BY ONLY <1>1, <1>3, <2>1
<1>5. \A b : mark(b).out = "ok" /\ mark(b).value = b /\ mark(b).next = TextAt
  BY ReadHas
<1>6. CppData(buffer, mark(Zero)) = Read(<<>>, TextAt)
  <2>1. Default(mark(Zero), <<>>) = Read(<<>>, TextAt)
    BY ONLY <1>5, ThenNext DEF Default
  <2>2. One # Zero
    BY Written
  <2>3. QED  BY ONLY <1>5, <2>1, <2>2, ThenNext DEF CppData
<1>7. CppData(buffer, mark(One)) = ReadString(buffer, TextAt, Unlimited)
  <2>1. StringAfter(buffer, mark(One), Unlimited) = ReadString(buffer, TextAt, Unlimited)
    BY ONLY <1>5, ThenNext DEF StringAfter
  <2>2. QED  BY ONLY <1>5, <2>1, ThenNext DEF CppData
<1>8. ASSUME Holds(buffer, MarkAt, <<Zero>>)
      PROVE  CppObject(buffer) = Read(Message(m.type, m.id, <<>>), TextAt)
  <2>1. CppObject(buffer) = Assembled(type, id, Read(<<>>, TextAt))
    BY <1>4, <1>6, <1>8
  <2>2. QED  BY <2>1, AssembledRead
<1>9. ASSUME Holds(buffer, MarkAt, <<One>>), m.data \in Seq(Byte), Len(m.data) \in Ints,
             Holds(buffer, TextAt, StringBytes(m.data))
      PROVE  CppObject(buffer) = Read(Message(m.type, m.id, m.data), TextAt + LengthOf(m.data))
  <2>1. Len(m.data) <= Unlimited /\ Unlimited \in Int /\ Len(m.data) \in Nat
    BY <1>9, Sizes DEF Unlimited, Ints
  <2>2. ReadString(buffer, TextAt, Unlimited) = Read(m.data, TextAt + IntSize + Len(m.data))
    BY <1>9, <2>1, Positions, StringRead
  <2>3. TextAt + IntSize + Len(m.data) = TextAt + LengthOf(m.data)
    BY ONLY <2>1, TextEnd
  <2>4. CppObject(buffer) = Assembled(type, id, Read(m.data, TextAt + LengthOf(m.data)))
    BY <1>4, <1>7, <1>9, <2>2, <2>3
  <2>5. QED  BY <2>4, AssembledRead
<1>10. QED  BY ONLY <1>8, <1>9

-----------------------------------------------------------------------------
(* Parity *)

\* Lemma: there are so many ones.
LEMMA OnesCounted ==
    ASSUME NEW data \in Seq(Byte)
    PROVE  IsFiniteSet(Ones(data)) /\ Cardinality(Ones(data)) \in Nat
<1>1. IsFiniteSet(1 .. Len(data)) /\ IsFiniteSet(BitPositions)
  <2>1. 1 \in Int /\ 0 \in Int /\ Len(data) \in Int /\ Bits - 1 \in Int
    BY Sizes
  <2>2. QED  BY ONLY <2>1, FS_Interval DEF BitPositions
<1>2. IsFiniteSet((1 .. Len(data)) \X BitPositions)
  BY <1>1, FS_Product
<1>3. Ones(data) \subseteq (1 .. Len(data)) \X BitPositions
  BY DEF Ones
<1>4. IsFiniteSet(Ones(data))
  BY <1>2, <1>3, FS_Subset
<1>5. QED  BY <1>4, FS_CardinalityType

\* Lemma: a parity byte is one of two.
LEMMA ParityByte ==
    ASSUME NEW data
    PROVE  CalculateEvenParityBit(data) \in {Zero, One} /\ CalculateEvenParityBit(data) \in Byte
BY Written DEF CalculateEvenParityBit

\* Lemma: a flipped bit leaves bytes, as many as before.
LEMMA ToggledBytes ==
    ASSUME NEW bytes \in Seq(Byte), NEW i \in 1 .. Len(bytes), NEW k \in BitPositions
    PROVE  /\ Toggled(bytes, i, k) \in Seq(Byte) /\ Len(Toggled(bytes, i, k)) = Len(bytes)
           /\ \A j \in 1 .. Len(bytes) : j # i => Toggled(bytes, i, k)[j] = bytes[j]
           /\ Toggled(bytes, i, k)[i] # bytes[i]
           /\ k \in Toggled(bytes, i, k)[i] <=> k \notin bytes[i]
           /\ \A l \in BitPositions : l # k => (l \in Toggled(bytes, i, k)[i] <=> l \in bytes[i])
<1> DEFINE b == IF k \in bytes[i] THEN bytes[i] \ {k} ELSE bytes[i] \cup {k}
<1>1. bytes[i] \in Byte
  OBVIOUS
<1>2. b \in Byte /\ (k \in b <=> k \notin bytes[i]) /\ \A l : l # k => (l \in b <=> l \in bytes[i])
  BY <1>1 DEF Byte
<1>3. Toggled(bytes, i, k) = [bytes EXCEPT ![i] = b]
  BY DEF Toggled
<1> HIDE DEF b
<1>4. /\ [bytes EXCEPT ![i] = b] \in Seq(Byte) /\ Len([bytes EXCEPT ![i] = b]) = Len(bytes)
      /\ [bytes EXCEPT ![i] = b][i] = b
      /\ \A j \in 1 .. Len(bytes) : j # i => [bytes EXCEPT ![i] = b][j] = bytes[j]
  BY <1>2
<1>5. b # bytes[i]
  BY <1>2
<1>6. QED  BY ONLY <1>2, <1>3, <1>4, <1>5

\* Lemma: and another parity.
LEMMA ToggledParity ==
    ASSUME NEW bytes \in Seq(Byte), NEW i \in 1 .. Len(bytes), NEW k \in BitPositions
    PROVE  CalculateEvenParityBit(Toggled(bytes, i, k)) # CalculateEvenParityBit(bytes)
<1> DEFINE t == Toggled(bytes, i, k)
           b == <<i, k>>
<1>1. /\ t \in Seq(Byte) /\ Len(t) = Len(bytes)
      /\ \A j \in 1 .. Len(bytes) : j # i => t[j] = bytes[j]
      /\ k \in t[i] <=> k \notin bytes[i]
      /\ \A l \in BitPositions : l # k => (l \in t[i] <=> l \in bytes[i])
  BY ToggledBytes
<1>2. /\ IsFiniteSet(Ones(bytes)) /\ Cardinality(Ones(bytes)) \in Nat
      /\ IsFiniteSet(Ones(t)) /\ Cardinality(Ones(t)) \in Nat
  BY <1>1, OnesCounted
<1> HIDE DEF t
<1>3. \A c \in (1 .. Len(bytes)) \X BitPositions : c # b => (c[2] \in t[c[1]] <=> c[2] \in bytes[c[1]])
  <2>1. SUFFICES ASSUME NEW j \in 1 .. Len(bytes), NEW l \in BitPositions, <<j, l>> # b
                 PROVE  l \in t[j] <=> l \in bytes[j]
    OBVIOUS
  <2>2. j # i \/ l # k
    BY <2>1
  <2>3. QED  BY <1>1, <2>2
<1>4. b \in (1 .. Len(bytes)) \X BitPositions /\ b[1] = i /\ b[2] = k
  OBVIOUS
<1>5. b \in Ones(t) <=> b \notin Ones(bytes)
  BY <1>1, <1>4 DEF Ones
<1>6. \A c : c # b => (c \in Ones(t) <=> c \in Ones(bytes))
  BY <1>1, <1>3 DEF Ones
<1> HIDE DEF b
<1> DEFINE m == Cardinality(Ones(bytes))
           n == Cardinality(Ones(t))
<1>7. CASE b \in Ones(bytes)
  <2>1. Ones(t) = Ones(bytes) \ {b}
    BY ONLY <1>5, <1>6, <1>7
  <2>2. n = m - 1
    BY ONLY <1>2, <1>7, <2>1, FS_RemoveElement
  <2> HIDE DEF m, n
  <2>3. m \in Nat /\ n \in Nat
    BY <1>2 DEF m, n
  <2>4. n % 2 = 1 <=> m % 2 # 1
    BY ONLY <2>2, <2>3
  <2>5. QED  BY <2>4, Written DEF CalculateEvenParityBit, t, m, n
<1>8. CASE b \notin Ones(bytes)
  <2>1. Ones(t) = Ones(bytes) \cup {b}
    BY ONLY <1>5, <1>6, <1>8
  <2>2. n = m + 1
    BY ONLY <1>2, <1>8, <2>1, FS_AddElement
  <2> HIDE DEF m, n
  <2>3. m \in Nat /\ n \in Nat
    BY <1>2 DEF m, n
  <2>4. n % 2 = 1 <=> m % 2 # 1
    BY ONLY <2>2, <2>3
  <2>5. QED  BY <2>4, Written DEF CalculateEvenParityBit, t, m, n
<1>9. QED  BY <1>7, <1>8

\* Lemma: the first bytes of a datagram.
LEMMA PartBytes ==
    ASSUME NEW bytes \in Seq(Byte), NEW n \in 0 .. Len(bytes)
    PROVE  /\ SubSeq(bytes, 1, n) \in Seq(Byte) /\ Len(SubSeq(bytes, 1, n)) = n
           /\ \A i \in 1 .. n : SubSeq(bytes, 1, n)[i] = bytes[i]
OBVIOUS

\* Lemma: the same bytes.
LEMMA SameBytes ==
    ASSUME NEW x \in Seq(Byte), NEW y \in Seq(Byte), Len(x) = Len(y), \A i \in 1 .. Len(x) : x[i] = y[i]
    PROVE  x = y
OBVIOUS

\* Lemma: what is sent is an object and its parity.
LEMMA ParityAdded ==
    ASSUME NEW object \in Seq(Byte)
    PROVE  /\ WithParity(object) \in Seq(Byte) /\ Len(WithParity(object)) = Len(object) + 1
           /\ \A i \in 1 .. Len(object) : WithParity(object)[i] = object[i]
           /\ WithParity(object)[Len(object) + 1] = CalculateEvenParityBit(object)
           /\ Len(object) \in Nat
<1>1. CalculateEvenParityBit(object) \in Byte
  BY ParityByte
<1>2. QED  BY <1>1 DEF WithParity

\* One flipped bit of a datagram, in the data or in the parity, is detected by
\* both programs (Parity of the client and of the server), whatever the data.
THEOREM OneFlipDetected ==
    ASSUME NEW object \in Seq(Byte), NEW i \in 1 .. Len(object) + 1, NEW k \in BitPositions
    PROVE  LET datagram == Toggled(WithParity(object), i, k)
           IN  ~ VerifyEvenParity(Front(datagram), Last(datagram))
<1> DEFINE s == WithParity(object)
           n == Len(object)
           w == Toggled(s, i, k)
<1>1. /\ s \in Seq(Byte) /\ Len(s) = n + 1 /\ n \in Nat
      /\ \A j \in 1 .. n : s[j] = object[j]
      /\ s[n + 1] = CalculateEvenParityBit(object)
  BY ParityAdded
<1> HIDE DEF s
<1>2. i \in 1 .. Len(s)
  BY <1>1
<1>3. /\ w \in Seq(Byte) /\ Len(w) = n + 1
      /\ \A j \in 1 .. n + 1 : j # i => w[j] = s[j]
      /\ w[i] # s[i]
  <2>1. /\ w \in Seq(Byte) /\ Len(w) = Len(s)
        /\ \A j \in 1 .. Len(s) : j # i => w[j] = s[j]
        /\ w[i] # s[i]
    BY <1>1, <1>2, ToggledBytes
  <2>2. QED  BY <1>1, <2>1
<1>4. Front(w) = SubSeq(w, 1, n) /\ Last(w) = w[n + 1]
  BY <1>1, <1>3 DEF Front, Last
<1>5. CASE i = n + 1
  <2>1. /\ SubSeq(w, 1, n) \in Seq(Byte) /\ Len(SubSeq(w, 1, n)) = n
        /\ \A j \in 1 .. n : SubSeq(w, 1, n)[j] = w[j]
    <3>1. n \in 0 .. Len(w)
      BY <1>1, <1>3
    <3>2. QED  BY <1>3, <3>1, PartBytes
  <2>2. \A j \in 1 .. n : w[j] = object[j]
    BY <1>1, <1>3, <1>5
  <2>3. SubSeq(w, 1, n) = object
    BY <2>1, <2>2, SameBytes
  <2>4. QED  BY <1>1, <1>3, <1>4, <1>5, <2>3 DEF VerifyEvenParity, s
<1>6. CASE i # n + 1
  <2>1. i \in 1 .. n
    BY <1>1, <1>6
  <2> DEFINE t == Toggled(object, i, k)
  <2>2. /\ t \in Seq(Byte) /\ Len(t) = n
        /\ \A j \in 1 .. n : j # i => t[j] = object[j]
    BY <2>1, ToggledBytes
  <2>3. t[i] = w[i]
    <3>1. s[i] = object[i] /\ i \in DOMAIN s /\ i \in DOMAIN object
      BY <1>1, <1>2, <2>1
    <3>2. QED  BY <3>1 DEF Toggled
  <2>4. /\ SubSeq(w, 1, n) \in Seq(Byte) /\ Len(SubSeq(w, 1, n)) = n
        /\ \A j \in 1 .. n : SubSeq(w, 1, n)[j] = w[j]
    <3>1. n \in 0 .. Len(w)
      BY <1>1, <1>3
    <3>2. QED  BY <1>3, <3>1, PartBytes
  <2> HIDE DEF t, w
  <2>5. \A j \in 1 .. n : SubSeq(w, 1, n)[j] = t[j]
    BY <1>1, <1>3, <2>1, <2>2, <2>3, <2>4
  <2>6. SubSeq(w, 1, n) = t
    BY <2>2, <2>4, <2>5, SameBytes
  <2>7. CalculateEvenParityBit(t) # CalculateEvenParityBit(object)
    BY <2>1, ToggledParity DEF t
  <2>8. w[n + 1] = CalculateEvenParityBit(object)
    BY <1>1, <1>3, <1>6
  <2>9. QED  BY <1>4, <2>6, <2>7, <2>8 DEF VerifyEvenParity, w, s
<1>7. QED  BY <1>5, <1>6

-----------------------------------------------------------------------------
(* Whatever arrives *)

\* A read that came to a position, or failed.
Placed(r) ==
    /\ r.out \in {"ok", "exception", "fatal"}
    /\ r.out = "ok" => r.next \in Nat \ {0}

\* Lemma: so are two reads in a row, each of them and the exceptions.
LEMMA PlacedReads ==
    /\ \A v, at : at \in Nat \ {0} => Placed(Read(v, at))
    /\ Placed(Exception) /\ Placed(Fatal) /\ Exception.out # "ok" /\ Fatal.out # "ok"
<1>1. \A v, at : at \in Nat \ {0} => Placed(Read(v, at))
  BY ReadHas DEF Placed
<1>2. Exception.out = "exception" /\ Fatal.out = "fatal"
  BY DEF Exception, Fatal
<1>3. QED  BY ONLY <1>1, <1>2 DEF Placed

LEMMA PlacedThen ==
    ASSUME NEW r, NEW s, Placed(r), r.out = "ok" => Placed(s)
    PROVE  Placed(Then(r, s)) /\ (Then(r, s).out = "ok" => r.out = "ok" /\ Then(r, s) = s)
<1>1. CASE r.out = "ok"
  BY ONLY <1>1, ThenNext, r.out = "ok" => Placed(s)
<1>2. CASE r.out # "ok"
  BY ONLY <1>2, ThenNext, Placed(r)
<1>3. QED  BY <1>1, <1>2

\* Lemma: an int that is read is one, wherever and from whatever bytes.
LEMMA IntPlaced ==
    ASSUME NEW buffer, NEW at \in Nat \ {0}
    PROVE  Placed(ReadInt(buffer, at)) /\ (ReadInt(buffer, at).out = "ok" => ReadInt(buffer, at).value \in Ints)
<1>1. CASE at + IntSize - 1 <= Len(buffer)
  <2> DEFINE n == Signed(Unsigned(SubSeq(buffer, at, at + IntSize - 1)))
  <2>1. ReadInt(buffer, at) = Read(n, at + IntSize)
    BY <1>1 DEF ReadInt
  <2>2. n \in Ints
    BY SignedUnsigned
  <2> HIDE DEF n
  <2>3. at + IntSize \in Nat \ {0}
    BY Sizes
  <2>4. QED  BY ONLY <2>1, <2>2, <2>3, PlacedReads, ReadHas
<1>2. CASE ~ (at + IntSize - 1 <= Len(buffer))
  <2>1. ReadInt(buffer, at) = Exception
    BY <1>2 DEF ReadInt
  <2>2. QED  BY ONLY <2>1, PlacedReads
<1>3. QED  BY <1>1, <1>2

\* Lemma: a text that is read is one, with an int for its length.
LEMMA StringPlaced ==
    ASSUME NEW buffer \in Seq(Byte), NEW at \in Nat \ {0}, NEW max
    PROVE  LET s == ReadString(buffer, at, max)
           IN  Placed(s) /\ (s.out = "ok" => s.value \in Seq(Byte) /\ Len(s.value) \in Ints)
<1> DEFINE n == ReadInt(buffer, at)
           text == SubSeq(buffer, n.next, n.next + n.value - 1)
           body == IF n.value > max THEN Fatal
                   ELSE IF n.value < 0 \/ n.next + n.value - 1 > Len(buffer) THEN Exception
                   ELSE Read(text, n.next + n.value)
<1>1. Placed(n) /\ (n.out = "ok" => n.value \in Ints)
  BY IntPlaced
<1>2. ReadString(buffer, at, max) = Then(n, body)
  BY DEF ReadString
<1>3. \A m \in Ints : m \in Int
  BY Sizes DEF Ints
<1> HIDE DEF n
<1>4. ASSUME n.out = "ok"
      PROVE  Placed(body) /\ (body.out = "ok" => body.value \in Seq(Byte) /\ Len(body.value) \in Ints)
  <2>1. n.next \in Nat \ {0} /\ n.value \in Ints /\ n.value \in Int /\ Len(buffer) \in Nat
    BY <1>1, <1>3, <1>4 DEF Placed
  <2> DEFINE good == ~ (n.value > max) /\ ~ (n.value < 0 \/ n.next + n.value - 1 > Len(buffer))
  <2>2. CASE ~ good
    <3>1. body = Fatal \/ body = Exception
      BY <2>2
    <3> HIDE DEF body
    <3>2. QED  BY ONLY <3>1, PlacedReads
  <2>3. CASE good
    <3>1. body = Read(text, n.next + n.value)
      BY <2>3
    <3>2. text \in Seq(Byte) /\ Len(text) = n.value
      BY <2>1, <2>3
    <3>3. n.next + n.value \in Nat \ {0}
      BY <2>1, <2>3
    <3> HIDE DEF text, body
    <3>4. QED  BY ONLY <2>1, <3>1, <3>2, <3>3, PlacedReads, ReadHas
  <2>4. QED  BY <2>2, <2>3
<1> HIDE DEF body
<1>5. QED  BY ONLY <1>1, <1>2, <1>4, PlacedThen

\* Lemma: the reads that come after another one.
LEMMA PlacedAfter ==
    ASSUME NEW buffer \in Seq(Byte), NEW r, Placed(r), NEW max, NEW v
    PROVE  /\ Placed(IntAfter(buffer, r)) /\ Placed(ByteAfter(buffer, r)) /\ Placed(Default(r, v))
           /\ Placed(StringAfter(buffer, r, max)) /\ Placed(Matches(r, v))
           /\ IntAfter(buffer, r).out = "ok" => IntAfter(buffer, r).value \in Ints
           /\ Default(r, v).out = "ok" => Default(r, v).value = v
           /\ StringAfter(buffer, r, max).out = "ok" =>
                  StringAfter(buffer, r, max).value \in Seq(Byte) /\ Len(StringAfter(buffer, r, max).value) \in Ints
<1>1. r.out = "ok" => r.next \in Nat \ {0}
  BY DEF Placed
<1>2. Placed(IntAfter(buffer, r)) /\ (IntAfter(buffer, r).out = "ok" => IntAfter(buffer, r).value \in Ints)
  BY ONLY <1>1, Placed(r), IntPlaced, PlacedThen DEF IntAfter
<1>3. Placed(ByteAfter(buffer, r))
  <2>1. ASSUME r.out = "ok" PROVE Placed(ReadByte(buffer, r.next))
    <3>1. r.next + 1 \in Nat \ {0}
      BY <1>1, <2>1
    <3>2. QED  BY ONLY <3>1, PlacedReads DEF ReadByte
  <2>2. QED  BY ONLY <2>1, Placed(r), PlacedThen DEF ByteAfter
<1>4. Placed(Default(r, v)) /\ (Default(r, v).out = "ok" => Default(r, v).value = v)
  <2>1. r.out = "ok" => Placed(Read(v, r.next))
    BY ONLY <1>1, PlacedReads
  <2>2. QED  BY ONLY <2>1, Placed(r), PlacedThen, ReadHas DEF Default
<1>5. /\ Placed(StringAfter(buffer, r, max))
      /\ StringAfter(buffer, r, max).out = "ok" =>
             StringAfter(buffer, r, max).value \in Seq(Byte) /\ Len(StringAfter(buffer, r, max).value) \in Ints
  <2> DEFINE s == ReadString(buffer, r.next, max)
  <2>1. r.out = "ok" => Placed(s) /\ (s.out = "ok" => s.value \in Seq(Byte) /\ Len(s.value) \in Ints)
    BY ONLY <1>1, buffer \in Seq(Byte), StringPlaced
  <2>2. StringAfter(buffer, r, max) = Then(r, s)
    BY DEF StringAfter
  <2> HIDE DEF s
  <2>3. QED  BY ONLY <2>1, <2>2, Placed(r), PlacedThen
<1>6. Placed(Matches(r, v))
  <2>1. Placed(IF r.value = v THEN r ELSE Exception)
    BY ONLY Placed(r), PlacedReads
  <2>2. QED  BY ONLY <2>1, Placed(r), PlacedThen DEF Matches
<1>7. QED  BY ONLY <1>2, <1>3, <1>4, <1>5, <1>6

\* Lemma: the name and the type of a field, whatever they are.
LEMMA FieldPlaced ==
    ASSUME NEW buffer \in Seq(Byte), NEW r, Placed(r), NEW name, NEW type
    PROVE  Placed(Field(buffer, r, name, type))
<1> DEFINE n == StringAfter(buffer, r, MaxArray)
           t == StringAfter(buffer, n, MaxArray)
           x == IF n.value = name THEN Matches(t, type) ELSE Exception
<1>1. Placed(n)
  BY PlacedAfter
<1> HIDE DEF n
<1>2. Placed(t)
  BY <1>1, PlacedAfter
<1> HIDE DEF t
<1>3. Placed(Matches(t, type))
  BY <1>2, PlacedAfter
<1>4. Placed(x)
  BY ONLY <1>3, PlacedReads
<1> HIDE DEF x
<1>5. Field(buffer, r, name, type) = Then(t, x)
  BY DEF Field, n, t, x
<1>6. QED  BY ONLY <1>2, <1>4, <1>5, PlacedThen

\* What a program takes a datagram for: none stands for no data.
Taken(r, none) ==
    /\ r.out \in {"ok", "exception", "fatal", "undefined"}
    /\ r.out = "ok" => /\ r.value = Message(r.value.type, r.value.id, r.value.data)
                       /\ r.value.type \in Ints /\ r.value.id \in Ints
                       /\ r.value.data # none => r.value.data \in Seq(Byte) /\ Len(r.value.data) \in Ints

\* Lemma: a message that is put together is one.
LEMMA TakenAssembled ==
    ASSUME NEW type, NEW id, NEW data, NEW none, Placed(data),
           data.out = "ok" => /\ type.value \in Ints /\ id.value \in Ints
                              /\ data.value # none => data.value \in Seq(Byte) /\ Len(data.value) \in Ints
    PROVE  Taken(Assembled(type, id, data), none)
<1>1. CASE data.out # "ok"
  <2>1. Assembled(type, id, data) = data
    BY ONLY <1>1, ThenNext DEF Assembled
  <2>2. QED  BY ONLY <1>1, <2>1, Placed(data) DEF Placed, Taken
<1>2. CASE data.out = "ok"
  <2> DEFINE m == Message(type.value, id.value, data.value)
  <2>1. Assembled(type, id, data) = Read(m, data.next)
    BY ONLY <1>2, ThenNext DEF Assembled
  <2>2. m.type = type.value /\ m.id = id.value /\ m.data = data.value
    BY DEF Message
  <2>3. m = Message(m.type, m.id, m.data)
    BY <2>2
  <2> HIDE DEF m
  <2>4. Assembled(type, id, data).out = "ok" /\ Assembled(type, id, data).value = m
    BY ONLY <2>1, ReadHas
  <2>5. /\ m.type \in Ints /\ m.id \in Ints
        /\ m.data # none => m.data \in Seq(Byte) /\ Len(m.data) \in Ints
    BY <1>2, <2>2
  <2>6. QED  BY ONLY <2>3, <2>4, <2>5 DEF Taken
<1>3. QED  BY <1>1, <1>2

\* Lemma: the server takes every datagram for a message or an exception, or dies.
LEMMA JavaTaken ==
    ASSUME NEW datagram \in Seq(Byte)
    PROVE  Taken(JavaDeserialize(datagram), Null)
<1> DEFINE buffer == Front(datagram)
           class == Expect(buffer, Read(0, 3), ClassName)
           count == IntAfter(buffer, class)
           r     == ReadMetadata(buffer, count, count.value)
           type  == IF count.value >= 1 THEN IntAfter(buffer, r) ELSE Default(r, 0)
           id    == IF count.value >= 2 THEN IntAfter(buffer, type) ELSE Default(type, 0)
           mark  == IF count.value >= 3 THEN ByteAfter(buffer, id) ELSE Default(id, Zero)
           data  == JavaData(buffer, mark)
<1>1. buffer \in Seq(Byte)
  BY DEF Front
<1> HIDE DEF buffer
<1>2. ASSUME NEW s, NEW name, Placed(s) PROVE Placed(Expect(buffer, s, name))
  BY <1>1, <1>2, PlacedAfter DEF Expect
<1>3. Placed(class)
  BY <1>2, PlacedReads
<1> HIDE DEF class
<1>4. Placed(count)
  BY <1>1, <1>3, PlacedAfter
<1> HIDE DEF count
<1>5. ASSUME NEW s, NEW i, Placed(s) PROVE Placed(Named(buffer, s, i, count.value))
  <2>1. Placed(Field(buffer, s, FieldNames[i], FieldTypes[i]))
    BY <1>1, <1>5, FieldPlaced
  <2>2. QED  BY ONLY <1>5, <2>1 DEF Named
<1>6. Placed(r)
  <2> DEFINE n == count.value
             x == Named(buffer, Named(buffer, Named(buffer, count, 1, n), 2, n), 3, n)
  <2>1. Placed(x)
    <3>1. Placed(Named(buffer, count, 1, n))
      BY ONLY <1>4, <1>5
    <3>2. Placed(Named(buffer, Named(buffer, count, 1, n), 2, n))
      BY ONLY <1>5, <3>1
    <3>3. QED  BY ONLY <1>5, <3>2
  <2>2. r = IF n <= 3 THEN x ELSE Field(buffer, x, Null, Null)
    BY DEF ReadMetadata
  <2> HIDE DEF x
  <2>3. Placed(Field(buffer, x, Null, Null))
    BY ONLY <1>1, <2>1, FieldPlaced
  <2>4. QED  BY ONLY <2>1, <2>2, <2>3
<1> HIDE DEF r
<1>7. Placed(type) /\ (type.out = "ok" => type.value \in Ints)
  BY ONLY <1>1, <1>6, ShortNames, PlacedAfter DEF READ
<1> HIDE DEF type
<1>8. Placed(id) /\ (id.out = "ok" => id.value \in Ints)
  BY ONLY <1>1, <1>7, ShortNames, PlacedAfter DEF READ
<1> HIDE DEF id
<1>9. Placed(mark)
  BY ONLY <1>1, <1>8, PlacedAfter
<1>10. Placed(data) /\ (data.out = "ok" /\ data.value # Null => data.value \in Seq(Byte) /\ Len(data.value) \in Ints)
  <2> HIDE DEF mark
  <2> DEFINE text == StringAfter(buffer, mark, MaxArray)
             nil  == Default(mark, Null)
             body == IF mark.value = Zero THEN nil ELSE text
  <2>1. Placed(nil) /\ (nil.out = "ok" => nil.value = Null)
    BY ONLY <1>1, <1>9, PlacedAfter
  <2>2. Placed(text) /\ (text.out = "ok" => text.value \in Seq(Byte) /\ Len(text.value) \in Ints)
    BY ONLY <1>1, <1>9, PlacedAfter
  <2>3. data = Then(mark, body)
    BY DEF JavaData
  <2> HIDE DEF nil, text, data
  <2>4. Placed(body) /\ (body.out = "ok" => body.value = Null \/ (body.value \in Seq(Byte) /\ Len(body.value) \in Ints))
    BY ONLY <2>1, <2>2
  <2> HIDE DEF body
  <2>5. Placed(data) /\ (data.out = "ok" => data = body)
    BY ONLY <1>9, <2>3, <2>4, PlacedThen
  <2>6. QED  BY ONLY <2>4, <2>5
<1>11. data.out = "ok" => type.out = "ok" /\ id.out = "ok"
  <2>1. data.out = "ok" => mark.out = "ok"
    BY ONLY ThenNext DEF JavaData
  <2>2. mark.out = "ok" => id.out = "ok"
    BY ONLY ThenNext DEF ByteAfter, Default
  <2>3. id.out = "ok" => type.out = "ok"
    BY ONLY ThenNext DEF IntAfter, Default, id
  <2>4. QED  BY <2>1, <2>2, <2>3
<1>12. JavaFields(buffer, r, count.value) = Assembled(type, id, data)
  BY ONLY DEF JavaFields, type, id
<1> HIDE DEF mark, data
<1>13. Taken(JavaFields(buffer, r, count.value), Null)
  BY ONLY <1>7, <1>8, <1>10, <1>11, <1>12, TakenAssembled
<1>14. Taken(Exception, Null) /\ (count.out # "ok" => Taken(count, Null))
  BY ONLY <1>4 DEF Placed, Taken, Exception
<1>15. Taken(Then(count, JavaFields(buffer, r, count.value)), Null)
  BY ONLY <1>13, <1>14, ThenNext
<1>16. \/ JavaObject(buffer) = Exception
       \/ JavaObject(buffer) = Then(count, JavaFields(buffer, r, count.value))
  BY ONLY DEF JavaObject, count, class, r
<1>17. JavaDeserialize(datagram) = Exception \/ JavaDeserialize(datagram) = JavaObject(buffer)
  BY DEF JavaDeserialize, buffer
<1>18. QED  BY ONLY <1>14, <1>15, <1>16, <1>17

\* Lemma: so does the client, or its behaviour is undefined.
LEMMA CppOutcomes ==
    ASSUME NEW datagram \in Seq(Byte)
    PROVE  CppDeserialize(datagram).out \in {"ok", "exception", "fatal", "undefined"}
<1> DEFINE type == ReadInt(datagram, Len(Header) + 1)
           id   == IntAfter(datagram, type)
           mark == ByteAfter(datagram, id)
           data == CppData(datagram, mark)
<1>1. Placed(type)
  BY Positions, IntPlaced DEF ValuesAt
<1> HIDE DEF type
<1>2. Placed(id)
  BY <1>1, PlacedAfter
<1> HIDE DEF id
<1>3. Placed(mark)
  BY <1>2, PlacedAfter
<1> HIDE DEF mark
<1>4. Placed(data)
  <2>1. Placed(IF mark.value = One THEN StringAfter(datagram, mark, Unlimited) ELSE Default(mark, <<>>))
    BY <1>3, PlacedAfter
  <2>2. QED  BY ONLY <1>3, <2>1, PlacedThen DEF CppData
<1> HIDE DEF data
<1>5. Assembled(type, id, data).out \in {"ok", "exception", "fatal"}
  <2>1. Assembled(type, id, data) = Then(data, Read(Message(type.value, id.value, data.value), data.next))
    BY DEF Assembled
  <2>2. data.out = "ok" => Placed(Read(Message(type.value, id.value, data.value), data.next))
    BY ONLY <1>4, PlacedReads DEF Placed
  <2>3. Placed(Assembled(type, id, data))
    BY ONLY <1>4, <2>1, <2>2, PlacedThen
  <2>4. QED  BY <2>3 DEF Placed
<1>6. CppFields(datagram) = Assembled(type, id, data)
  BY ONLY DEF CppFields, type, id, mark, data
<1>7. Exception.out = "exception" /\ Undefined.out = "undefined"
  BY DEF Exception, Undefined
<1>8. CppObject(datagram) \in {Exception, Undefined, Assembled(type, id, data)}
  BY ONLY <1>6 DEF CppObject
<1>9. CppDeserialize(datagram) \in {Exception, CppObject(datagram)}
  BY DEF CppDeserialize
<1>10. QED  BY ONLY <1>5, <1>7, <1>8, <1>9

-----------------------------------------------------------------------------
(* One datagram, whole, damaged or cut off *)

\* w is the datagram s with n flipped bits, as far as n is 0 or 1.
Carried(w, s, n) ==
    /\ w \in Seq(Byte) /\ Len(w) = Len(s)
    /\ n = 0 => w = s
    /\ n = 1 => \E i \in 1 .. Len(s), k \in BitPositions : w = Toggled(s, i, k)

\* Lemma: a request is written as the client's object and its parity.
LEMMA RequestWritten ==
    ASSUME NEW m \in Messages
    PROVE  /\ m = Message(m.type, m.id, m.data) /\ Writable(m, <<>>) /\ Short(m.data)
           /\ m.data \in Text /\ Len(m.data) \in Nat
           /\ m.type = READ => m.data # <<>>
           /\ RequestBuffer \in Nat /\ RequestBuffer >= Len(Header) + 3 * IntSize + 2
<1>1. Messages \subseteq [type : Ints, id : Ints, data : Text]
  BY MessagesAssumption
<1>2. m \in [type : Ints, id : Ints, data : Text]
  BY <1>1
<1>3. Len(m.data) <= MaxArray /\ (m.type = READ => m.data # <<>>)
  BY MessagesAssumption
<1>4. m.type \in Ints /\ m.id \in Ints /\ m.data \in Text /\ m = Message(m.type, m.id, m.data)
  BY ONLY <1>2 DEF Message
<1>5. m.data \in Seq(Byte)
  BY <1>4, Written
<1>6. Len(m.data) \in Nat
  BY <1>5
<1>7. Len(m.data) \in Ints
  BY ONLY <1>3, <1>6, ShortNames, Sizes DEF Ints
<1>8. RequestBuffer \in Nat /\ RequestBuffer >= Len(Header) + 3 * IntSize + 2
  BY MessagesAssumption
<1>9. QED  BY ONLY <1>3, <1>4, <1>5, <1>6, <1>7, <1>8 DEF Writable, Short

\* Lemma: an undamaged datagram passes the parity check and holds its object,
\* for the server, which takes the parity off, and the client, which does not.
LEMMA UndamagedHolds ==
    ASSUME NEW object \in Seq(Byte), object # <<>>
    PROVE  LET s == WithParity(object)
           IN  /\ VerifyEvenParity(Front(s), Last(s)) /\ Front(s) = object /\ s # <<>>
               /\ Holds(s, 1, object) /\ Holds(object, 1, object)
<1> DEFINE s == WithParity(object)
           n == Len(object)
<1>1. /\ s \in Seq(Byte) /\ Len(s) = n + 1 /\ n \in Nat
      /\ \A j \in 1 .. n : s[j] = object[j]
      /\ s[n + 1] = CalculateEvenParityBit(object)
  BY ParityAdded
<1> HIDE DEF s
<1>2. Front(s) = SubSeq(s, 1, n) /\ Last(s) = s[n + 1]
  BY <1>1 DEF Front, Last
<1>3. /\ SubSeq(s, 1, n) \in Seq(Byte) /\ Len(SubSeq(s, 1, n)) = n
      /\ \A j \in 1 .. n : SubSeq(s, 1, n)[j] = s[j]
  <2>1. n \in 0 .. Len(s)
    BY <1>1
  <2>2. QED  BY <1>1, <2>1, PartBytes
<1>4. SubSeq(s, 1, n) = object
  BY <1>1, <1>3, SameBytes
<1>5. Holds(s, 1, object) /\ Holds(object, 1, object)
  BY <1>1 DEF Holds
<1>6. s # <<>>
  BY <1>1
<1>7. QED  BY ONLY <1>1, <1>2, <1>4, <1>5, <1>6 DEF VerifyEvenParity, s

\* Lemma: a damaged datagram is refused by both programs.
LEMMA DamagedRefused ==
    ASSUME NEW object \in Seq(Byte), NEW w, Carried(w, WithParity(object), 1)
    PROVE  JavaDeserialize(w) = Exception /\ CppDeserialize(w) = Exception
<1>1. PICK i \in 1 .. Len(WithParity(object)), k \in BitPositions : w = Toggled(WithParity(object), i, k)
  BY DEF Carried
<1>2. i \in 1 .. Len(object) + 1
  BY ParityAdded
<1>3. ~ VerifyEvenParity(Front(w), Last(w))
  BY ONLY <1>1, <1>2, object \in Seq(Byte), OneFlipDetected
<1>4. QED  BY <1>3 DEF JavaDeserialize, CppDeserialize

\* Lemma: a request that reaches the server whole is what was sent, or refused.
LEMMA WholeRequest ==
    ASSUME NEW m \in Messages, NEW w, NEW n \in {0, 1}, Carried(w, CppSerialize(m), n)
    PROVE  /\ n = 1 => JavaDeserialize(w) = Exception
           /\ n = 0 => /\ JavaDeserialize(w).out = "ok"
                       /\ JavaDeserialize(w).value = Message(m.type, m.id, IF m.data = <<>> THEN Null ELSE m.data)
<1> DEFINE object == SerializeObject(m, <<>>)
<1>1. /\ Writable(m, <<>>) /\ Short(m.data) /\ Len(m.data) \in Nat
      /\ m.type \in Ints /\ m.id \in Ints
  BY RequestWritten DEF Writable
<1>2. object \in Seq(Byte) /\ CppSerialize(m) = WithParity(object)
  BY <1>1, ObjectWritten DEF CppSerialize
<1>3. ASSUME n = 1 PROVE JavaDeserialize(w) = Exception
  BY <1>2, <1>3, DamagedRefused
<1>4. ASSUME n = 0
      PROVE  /\ JavaDeserialize(w).out = "ok"
             /\ JavaDeserialize(w).value = Message(m.type, m.id, IF m.data = <<>> THEN Null ELSE m.data)
  <2>1. w = WithParity(object)
    BY <1>2, <1>4 DEF Carried
  <2>2. Len(object) = IF m.data = <<>> THEN MarkAt ELSE MarkAt + LengthOf(m.data)
    BY <1>1, ObjectWritten
  <2>3. LengthOf(m.data) \in Nat
    BY <1>1, ShortBytes
  <2>4. object # <<>>
    BY ONLY <2>2, <2>3, Positions
  <2>5. /\ VerifyEvenParity(Front(w), Last(w)) /\ Front(w) = object
        /\ Holds(object, 1, object)
    BY ONLY <1>2, <2>1, <2>4, UndamagedHolds
  <2>6. /\ Begun(object, m)
        /\ m.data = <<>> => Holds(object, MarkAt, <<Zero>>)
        /\ m.data # <<>> => Holds(object, MarkAt, <<One>>) /\ Holds(object, TextAt, StringBytes(m.data))
    BY ONLY <1>1, <1>2, <2>5, ObjectHeld
  <2>7. JavaDeserialize(w) = JavaObject(object)
    BY ONLY <2>5 DEF JavaDeserialize
  <2> HIDE DEF object
  <2>8. CASE m.data = <<>>
    <3>1. JavaObject(object) = Read(Message(m.type, m.id, Null), TextAt)
      BY ONLY <1>1, <1>2, <2>6, <2>8, JavaReads
    <3>2. QED  BY ONLY <2>7, <2>8, <3>1, ReadHas
  <2>9. CASE m.data # <<>>
    <3>1. JavaObject(object) = Read(Message(m.type, m.id, m.data), TextAt + LengthOf(m.data))
      BY ONLY <1>1, <1>2, <2>6, <2>9, JavaReads
    <3>2. QED  BY ONLY <2>7, <2>9, <3>1, ReadHas
  <2>10. QED  BY <2>8, <2>9
<1>5. QED  BY <1>3, <1>4

\* Lemma: a request that is cut off is refused, damaged or not.
LEMMA CutRequest ==
    ASSUME NEW m \in Messages, NEW w, NEW n \in {0, 1}, Carried(w, CppSerialize(m), n), Len(w) > RequestBuffer
    PROVE  JavaDeserialize(SubSeq(w, 1, RequestBuffer)) = Exception
<1> DEFINE object == SerializeObject(m, <<>>)
           s == CppSerialize(m)
           size == RequestBuffer
           part == SubSeq(w, 1, size)
           rest == SubSeq(s, 1, size - 1)
<1>1. /\ Writable(m, <<>>) /\ Short(m.data) /\ Len(m.data) \in Nat /\ m.data \in Text
      /\ m.type \in Ints /\ m.id \in Ints
      /\ size \in Nat /\ size >= Len(Header) + 3 * IntSize + 2
  BY RequestWritten DEF Writable
<1>2. /\ object \in Seq(Byte) /\ s = WithParity(object)
      /\ Len(object) = IF m.data = <<>> THEN MarkAt ELSE MarkAt + LengthOf(m.data)
  BY <1>1, ObjectWritten DEF CppSerialize
<1>3. /\ s \in Seq(Byte) /\ Len(s) = Len(object) + 1 /\ Len(object) \in Nat
      /\ \A j \in 1 .. Len(object) : s[j] = object[j]
  BY <1>2, ParityAdded
<1>4. w \in Seq(Byte) /\ Len(w) = Len(s) /\ size <= Len(object)
  BY <1>1, <1>3 DEF Carried
<1> HIDE DEF s
<1>5. m.data # <<>>
  <2>1. SUFFICES ASSUME m.data = <<>> PROVE FALSE
    OBVIOUS
  <2>2. Len(object) = MarkAt
    BY ONLY <1>2, <2>1
  <2> HIDE DEF object, size
  <2>3. QED  BY ONLY <1>1, <1>4, <2>2, Positions
<1>6. Len(object) = MarkAt + LengthOf(m.data) /\ LengthOf(m.data) = IntSize + Len(m.data)
  BY <1>2, <1>5 DEF LengthOf
<1>7. size >= TextAt + IntSize /\ size >= 1
  <2> HIDE DEF size
  <2>1. TextAt = MarkAt + 1
    BY DEF TextAt
  <2>2. QED  BY ONLY <1>1, <2>1, Positions
<1>8. /\ Begun(s, m) /\ Holds(s, MarkAt, <<One>>) /\ Holds(s, TextAt, StringBytes(m.data))
  <2>1. object # <<>>
    BY <1>1, <1>4, <1>7
  <2>2. Holds(s, 1, object)
    BY ONLY <1>2, <2>1, UndamagedHolds
  <2>3. QED  BY ONLY <1>1, <1>3, <1>5, <2>2, ObjectHeld
<1>9. Holds(s, TextAt, IntBytes(Len(m.data))) /\ Holds(s, TextAt + IntSize, m.data)
  <2>1. IntBytes(Len(m.data)) \in Seq(Byte) /\ Len(IntBytes(Len(m.data))) = IntSize /\ m.data \in Seq(Byte)
    BY <1>1, Written
  <2>2. QED  BY ONLY <1>3, <1>8, <2>1, Positions, HoldsBoth DEF StringBytes
<1>10. s[size] \notin {Zero, One}
  <2> DEFINE j == size - (TextAt + IntSize) + 1
  <2>1. j \in 1 .. Len(m.data) /\ (TextAt + IntSize) + j - 1 = size
    <3> HIDE DEF size, object
    <3>1. TextAt = MarkAt + 1
      BY DEF TextAt
    <3> DEFINE l == Len(m.data)
               o == Len(object)
    <3>2. l \in Nat /\ o = MarkAt + (IntSize + l) /\ size <= o /\ size \in Nat /\ size >= TextAt + IntSize
      BY ONLY <1>1, <1>4, <1>6, <1>7
    <3> HIDE DEF l, o
    <3>3. size - (TextAt + IntSize) + 1 \in 1 .. l /\ (TextAt + IntSize) + (size - (TextAt + IntSize) + 1) - 1 = size
      BY ONLY <3>1, <3>2, Positions
    <3>4. QED  BY <3>3 DEF l
  <2> HIDE DEF j
  <2>2. s[(TextAt + IntSize) + j - 1] = m.data[j]
    BY ONLY <1>9, <2>1 DEF Holds
  <2>3. m.data[j] \in Byte \ {Zero, One}
    BY <1>1, <2>1 DEF Text
  <2>4. QED  BY <2>1, <2>2, <2>3
<1>11. /\ part \in Seq(Byte) /\ Len(part) = size /\ \A i \in 1 .. size : part[i] = w[i]
  <2>1. size \in 0 .. Len(w)
    BY <1>1, <1>3, <1>4
  <2>2. QED  BY ONLY <1>4, <2>1, PartBytes
<1> HIDE DEF part
<1>12. Front(part) = SubSeq(part, 1, size - 1) /\ Last(part) = part[size] /\ part[size] = w[size]
  BY <1>1, <1>7, <1>11 DEF Front, Last
<1>13. CASE w[size] = s[size]
  <2>1. Last(part) \notin {Zero, One}
    BY ONLY <1>10, <1>12, <1>13
  <2>2. ~ VerifyEvenParity(Front(part), Last(part))
    BY ONLY <2>1, ParityByte DEF VerifyEvenParity
  <2>3. QED  BY <2>2 DEF JavaDeserialize, part
<1>14. CASE w[size] # s[size]
  <2>1. \A j \in 1 .. size - 1 : w[j] = s[j]
    <3>1. n = 1
      BY <1>14 DEF Carried, s
    <3>2. PICK i \in 1 .. Len(s), k \in BitPositions : w = Toggled(s, i, k)
      BY <3>1 DEF Carried, s
    <3>3. \A j \in 1 .. Len(s) : j # i => w[j] = s[j]
      BY ONLY <1>3, <3>2, ToggledBytes
    <3>4. size \in 1 .. Len(s)
      BY <1>1, <1>3, <1>4, <1>7
    <3>5. i = size
      BY ONLY <1>14, <3>3, <3>4
    <3>6. QED  BY ONLY <1>1, <3>3, <3>4, <3>5, <1>3
  <2>2. SubSeq(part, 1, size - 1) = rest /\ rest \in Seq(Byte) /\ Len(rest) = size - 1
    <3> HIDE DEF size
    <3>1. size - 1 \in 0 .. Len(part) /\ size - 1 \in 0 .. Len(s)
      BY ONLY <1>1, <1>3, <1>4, <1>7, <1>11
    <3>2. /\ SubSeq(part, 1, size - 1) \in Seq(Byte) /\ Len(SubSeq(part, 1, size - 1)) = size - 1
          /\ \A j \in 1 .. size - 1 : SubSeq(part, 1, size - 1)[j] = part[j]
      BY ONLY <1>11, <3>1, PartBytes
    <3>3. rest \in Seq(Byte) /\ Len(rest) = size - 1 /\ \A j \in 1 .. size - 1 : rest[j] = s[j]
      BY ONLY <1>3, <3>1, PartBytes
    <3> HIDE DEF rest
    <3>4. \A j \in 1 .. size - 1 : SubSeq(part, 1, size - 1)[j] = rest[j]
      <4>1. \A j \in 1 .. size - 1 : j \in 1 .. size
        BY ONLY <1>1
      <4>2. QED  BY ONLY <1>11, <2>1, <3>2, <3>3, <4>1
    <3>5. QED  BY ONLY <3>2, <3>3, <3>4, SameBytes
  <2>3. size - 1 \in 0 .. Len(s) /\ TextAt + IntSize - 1 <= size - 1
    <3> HIDE DEF size
    <3>1. QED  BY ONLY <1>1, <1>3, <1>4, <1>7, Positions
  <2>4. /\ Begun(rest, m) /\ Holds(rest, MarkAt, <<One>>) /\ Holds(rest, TextAt, IntBytes(Len(m.data)))
    <3> HIDE DEF size
    <3>1. \A x \in Seq(Byte), at \in Nat \ {0} :
              Holds(s, at, x) /\ at + Len(x) - 1 <= size - 1 => Holds(rest, at, x)
      BY ONLY <1>3, <2>3, HeldInPart
    <3>2. /\ Header \in Seq(Byte) /\ \A i : IntBytes(i) \in Seq(Byte) /\ Len(IntBytes(i)) = IntSize
          /\ <<One>> \in Seq(Byte) /\ Len(<<One>>) = 1
      <4>1. Header \in Seq(Byte) /\ One \in Byte
            /\ \A i : IntBytes(i) \in Seq(Byte) /\ Len(IntBytes(i)) = IntSize
        BY ONLY HeaderWritten, Written
      <4>2. QED  BY ONLY <4>1
    <3>3. /\ 1 + Len(Header) - 1 <= size - 1 /\ ValuesAt + IntSize - 1 <= size - 1
          /\ ValuesAt + IntSize + IntSize - 1 <= size - 1 /\ MarkAt + 1 - 1 <= size - 1
          /\ 1 \in Nat \ {0}
      BY ONLY <1>1, <2>3, Positions DEF TextAt, MarkAt, ValuesAt
    <3>4. Holds(s, 1, Header) /\ Holds(s, ValuesAt, IntBytes(m.type)) /\ Holds(s, ValuesAt + IntSize, IntBytes(m.id))
      BY <1>8 DEF Begun
    <3> HIDE DEF rest
    <3>5. Begun(rest, m)
      BY ONLY <3>1, <3>2, <3>3, <3>4, Positions DEF Begun
    <3>6. Holds(rest, MarkAt, <<One>>) /\ Holds(rest, TextAt, IntBytes(Len(m.data)))
      BY ONLY <1>8, <1>9, <2>3, <3>1, <3>2, <3>3, Positions
    <3>7. QED  BY <3>5, <3>6
  <2>5. TextAt + LengthOf(m.data) - 1 > Len(rest)
    <3> HIDE DEF size, object, rest
    <3>1. TextAt = MarkAt + 1
      BY DEF TextAt
    <3> DEFINE l == LengthOf(m.data)
               o == Len(object)
    <3>2. l \in Nat /\ o = MarkAt + l /\ size <= o /\ size \in Nat
      <4>1. l \in Nat
        BY <1>1, ShortBytes
      <4>2. QED  BY ONLY <1>1, <1>4, <1>6, <4>1
    <3> HIDE DEF l, o
    <3>3. TextAt + l - 1 > size - 1
      BY ONLY <3>1, <3>2, Positions
    <3>4. QED  BY <2>2, <3>3 DEF l
  <2> HIDE DEF rest
  <2>6. JavaObject(rest) = Exception
    BY ONLY <1>1, <2>2, <2>4, <2>5, JavaReads
  <2>7. JavaDeserialize(part) = Exception \/ JavaDeserialize(part) = JavaObject(rest)
    BY ONLY <1>12, <2>2 DEF JavaDeserialize
  <2>8. QED  BY <2>6, <2>7 DEF part
<1>15. QED  BY <1>13, <1>14

\* Lemma: a reply that reaches the client is what was sent, or refused.
LEMMA WholeReply ==
    ASSUME NEW m, Writable(m, Null), NEW w, NEW n \in {0, 1}, Carried(w, JavaSerialize(m), n)
    PROVE  /\ n = 1 => CppDeserialize(w) = Exception
           /\ n = 0 => /\ CppDeserialize(w).out = "ok"
                       /\ CppDeserialize(w).value = Message(m.type, m.id, IF m.data = Null THEN <<>> ELSE m.data)
<1> DEFINE object == SerializeObject(m, Null)
<1>1. m.type \in Ints /\ m.id \in Ints /\ (m.data # Null => m.data \in Seq(Byte) /\ Len(m.data) \in Ints)
  BY DEF Writable
<1>2. /\ object \in Seq(Byte) /\ JavaSerialize(m) = WithParity(object)
      /\ Len(object) = IF m.data = Null THEN MarkAt ELSE MarkAt + LengthOf(m.data)
  BY ObjectWritten DEF JavaSerialize
<1>3. ASSUME n = 1 PROVE CppDeserialize(w) = Exception
  BY <1>2, <1>3, DamagedRefused
<1>4. ASSUME n = 0
      PROVE  /\ CppDeserialize(w).out = "ok"
             /\ CppDeserialize(w).value = Message(m.type, m.id, IF m.data = Null THEN <<>> ELSE m.data)
  <2>1. w = WithParity(object) /\ w \in Seq(Byte)
    BY <1>2, <1>4 DEF Carried
  <2>2. m.data # Null => LengthOf(m.data) \in Nat
    BY <1>1, Sizes DEF LengthOf
  <2>3. object # <<>>
    BY ONLY <1>2, <2>2, Positions
  <2>4. VerifyEvenParity(Front(w), Last(w)) /\ w # <<>> /\ Holds(w, 1, object)
    BY ONLY <1>2, <2>1, <2>3, UndamagedHolds
  <2>5. /\ Begun(w, m)
        /\ m.data = Null => Holds(w, MarkAt, <<Zero>>)
        /\ m.data # Null => Holds(w, MarkAt, <<One>>) /\ Holds(w, TextAt, StringBytes(m.data))
    BY ONLY <2>1, <2>4, Writable(m, Null), ObjectHeld
  <2>6. CppDeserialize(w) = CppObject(w)
    BY ONLY <2>4 DEF CppDeserialize
  <2> HIDE DEF object
  <2>7. CASE m.data = Null
    <3>1. CppObject(w) = Read(Message(m.type, m.id, <<>>), TextAt)
      BY ONLY <1>1, <2>1, <2>5, <2>7, CppReads
    <3>2. QED  BY ONLY <2>6, <2>7, <3>1, ReadHas
  <2>8. CASE m.data # Null
    <3>1. CppObject(w) = Read(Message(m.type, m.id, m.data), TextAt + LengthOf(m.data))
      BY ONLY <1>1, <2>1, <2>5, <2>8, CppReads
    <3>2. QED  BY ONLY <2>6, <2>8, <3>1, ReadHas
  <2>9. QED  BY <2>7, <2>8
<1>5. QED  BY <1>3, <1>4

-----------------------------------------------------------------------------
(* The exchange *)

\* The request of an exchange, under way or received.
RequestSent ==
    /\ sent \in Messages
    /\ Carried(wire, CppSerialize(sent), flips)

\* Its reply.
ReplySent ==
    /\ Writable(sent, Null) /\ sent = Message(sent.type, sent.id, sent.data)
    /\ Carried(wire, JavaSerialize(sent), flips)
    /\ Len(wire) <= Capacity

Dies(r) == r.out = "fatal" \/ (r.out = "ok" /\ r.value.type = READ /\ r.value.data = Null)

\* The inductive invariant: what is on the wire is what was written with so
\* many flips, and what was got is what was read of it.
Inv ==
    /\ TypeOK
    /\ phase = "request" => RequestSent
    /\ phase \in {"served", "server ended"} =>
           /\ RequestSent
           /\ got = JavaDeserialize(Received(RequestBuffer))
           /\ phase = "server ended" => Dies(got)
    /\ phase = "reply" => ReplySent
    /\ phase \in {"answered", "client undefined"} =>
           /\ ReplySent
           /\ got = CppDeserialize(wire)
           /\ phase = "client undefined" => got.out = "undefined"

\* Lemma: what arrives is bytes, and a reply arrives whole.
LEMMA ReceivedBytes ==
    ASSUME wire \in Seq(Byte)
    PROVE  /\ Received(RequestBuffer) \in Seq(Byte)
           /\ Len(wire) <= Capacity => Received(ReplyBuffer) = wire
<1>1. RequestBuffer \in Nat /\ Capacity \in Nat /\ ReplyBuffer \in Nat /\ Capacity <= ReplyBuffer /\ Len(wire) \in Nat
  BY MessagesAssumption
<1>2. Received(RequestBuffer) \in Seq(Byte)
  <2>1. CASE Len(wire) <= RequestBuffer
    BY <2>1 DEF Received
  <2>2. CASE ~ (Len(wire) <= RequestBuffer)
    <3>1. RequestBuffer \in 0 .. Len(wire)
      BY <1>1, <2>2
    <3>2. QED  BY <2>2, <3>1, PartBytes DEF Received
  <2>3. QED  BY <2>1, <2>2
<1>3. Len(wire) <= Capacity => Received(ReplyBuffer) = wire
  BY <1>1 DEF Received
<1>4. QED  BY <1>2, <1>3

LEMMA InitInv == Init => Inv
<1>1. SUFFICES ASSUME Init PROVE Inv
  OBVIOUS
<1>2. /\ phase = "idle" /\ wire = <<>> /\ flips = 0 /\ spared = TRUE
      /\ got.out = "none"
  BY <1>1 DEF Init, NothingYet
<1>3. <<>> \in Seq(Byte) /\ 0 \in 0 .. MaxFlips
  BY SizesAssumption
<1>4. TypeOK
  BY ONLY <1>2, <1>3 DEF TypeOK
<1>5. QED  BY ONLY <1>2, <1>4 DEF Inv

\* Lemma: a request that the client sends is on the wire.
LEMMA SendRequestInv ==
    ASSUME Inv, NEW m \in Messages, SendRequest(m)
    PROVE  Inv'
<1>1. CppSerialize(m) \in Seq(Byte)
  <2>1. Writable(m, <<>>)
    BY RequestWritten
  <2>2. QED  BY <2>1, ObjectWritten, ParityAdded DEF CppSerialize
<1>2. /\ phase' = "request" /\ sent' = m /\ wire' = CppSerialize(m) /\ flips' = 0
      /\ got'.out = "none" /\ spared' = TRUE
  BY DEF SendRequest, NothingYet
<1>3. RequestSent'
  BY <1>1, <1>2 DEF RequestSent, Carried
<1>4. TypeOK'
  BY <1>1, <1>2, SizesAssumption DEF TypeOK
<1>5. QED  BY <1>2, <1>3, <1>4 DEF Inv

\* Lemma: a flip is counted, and the second tells nothing more.
LEMMA FlipInv ==
    ASSUME Inv, NEW i \in DOMAIN wire, NEW k \in BitPositions, Flip(i, k)
    PROVE  Inv'
<1>1. TypeOK /\ phase \in {"request", "reply"}
  BY DEF Inv, Flip
<1>2. /\ wire' = Toggled(wire, i, k) /\ flips' = flips + 1 /\ flips < MaxFlips
      /\ phase' = phase /\ sent' = sent /\ got' = got /\ spared' = spared
  BY DEF Flip
<1>3. wire \in Seq(Byte) /\ i \in 1 .. Len(wire) /\ flips \in Nat /\ MaxFlips \in Nat /\ flips <= MaxFlips
  <2>1. wire \in Seq(Byte) /\ flips \in 0 .. MaxFlips
    BY <1>1 DEF TypeOK
  <2>2. MaxFlips \in Nat
    BY SizesAssumption
  <2>3. i \in 1 .. Len(wire)
    BY ONLY <2>1, i \in DOMAIN wire
  <2>4. QED  BY ONLY <2>1, <2>2, <2>3
<1>4. wire' \in Seq(Byte) /\ Len(wire') = Len(wire)
  BY <1>2, <1>3, ToggledBytes
<1>5. flips' \in 0 .. MaxFlips
  BY <1>2, <1>3
<1>6. TypeOK'
  BY <1>1, <1>2, <1>4, <1>5 DEF TypeOK
<1>7. ASSUME NEW s, Carried(wire, s, flips) PROVE Carried(wire', s, flips')
  <2>1. Len(wire') = Len(s) /\ flips' # 0
    BY <1>2, <1>3, <1>4, <1>7 DEF Carried
  <2>2. ASSUME flips' = 1 PROVE wire' = Toggled(s, i, k) /\ i \in 1 .. Len(s)
    <3>1. flips = 0
      BY <1>2, <1>3, <2>2
    <3>2. wire = s
      BY <1>7, <3>1 DEF Carried
    <3>3. QED  BY <1>2, <1>3, <3>2
  <2>3. QED  BY <1>4, <2>1, <2>2 DEF Carried
<1>8. phase = "request" => RequestSent'
  BY <1>2, <1>7 DEF Inv, RequestSent
<1>9. phase = "reply" => ReplySent'
  BY <1>2, <1>4, <1>7 DEF Inv, ReplySent
<1>10. QED  BY <1>1, <1>2, <1>6, <1>8, <1>9 DEF Inv

\* Lemma: what the server gets is what it reads of what it receives.
LEMMA ServerReceiveInv ==
    ASSUME Inv, ServerReceive
    PROVE  Inv'
<1> DEFINE r == JavaDeserialize(Received(RequestBuffer))
<1>1. TypeOK /\ RequestSent /\ wire \in Seq(Byte)
  BY DEF Inv, ServerReceive, TypeOK
<1>2. /\ got' = r /\ spared' \in BOOLEAN
      /\ phase' = IF Dies(r) THEN "server ended" ELSE "served"
      /\ sent' = sent /\ wire' = wire /\ flips' = flips
  BY DEF ServerReceive, Dies
<1>3. r.out \in {"ok", "exception", "fatal", "undefined"}
  BY <1>1, ReceivedBytes, JavaTaken DEF Taken
<1>4. Received(RequestBuffer)' = Received(RequestBuffer)
  BY <1>2 DEF Received
<1>5. RequestSent'
  BY <1>1, <1>2 DEF RequestSent
<1>6. got' = JavaDeserialize(Received(RequestBuffer))'
  BY <1>2, <1>4
<1> HIDE DEF r
<1>7. TypeOK'
  BY <1>1, <1>2, <1>3 DEF TypeOK
<1>8. phase' \in {"served", "server ended"} /\ (phase' = "server ended" => Dies(got)')
  BY <1>2 DEF Dies
<1>9. QED  BY <1>5, <1>6, <1>7, <1>8 DEF Inv

\* Lemma: whatever the server got, its reply is a message that can be written,
\* and is sent only if it fits.
LEMMA SendReplyInv ==
    ASSUME Inv, NEW data \in ReplyData, SendReply(data)
    PROVE  Inv'
<1> DEFINE reply == ReplyTo(got, data)
           bytes == JavaSerialize(reply)
<1>1. TypeOK /\ RequestSent /\ wire \in Seq(Byte) /\ got = JavaDeserialize(Received(RequestBuffer))
  BY DEF Inv, SendReply, TypeOK
<1>2. Taken(got, Null)
  BY <1>1, ReceivedBytes, JavaTaken
<1>3. data \in Seq(Byte) /\ Len(data) \in Ints /\ READ \in Ints /\ 0 \in Ints
  <2>1. {3, READ, ECHO} \subseteq Ints
    BY MessagesAssumption
  <2>2. ReplyData \subseteq Seq(Byte) /\ \A d \in ReplyData : Len(d) \in Ints
    BY MessagesAssumption
  <2>3. QED  BY ONLY <2>1, <2>2, data \in ReplyData DEF READ
<1>4. Writable(reply, Null) /\ reply = Message(reply.type, reply.id, reply.data)
  <2>1. ASSUME NEW type \in Ints, NEW id \in Ints
        PROVE  LET m == Message(type, id, data)
               IN  Writable(m, Null) /\ m = Message(m.type, m.id, m.data)
    BY <1>3 DEF Message, Writable
  <2>2. CASE got.out # "ok"
    BY <1>3, <2>1, <2>2 DEF ReplyTo
  <2>3. CASE got.out = "ok" /\ got.value.type = ECHO
    <3>1. reply = got.value
      BY <2>3 DEF ReplyTo
    <3> HIDE DEF reply
    <3>2. QED  BY ONLY <1>2, <2>3, <3>1 DEF Taken, Writable
  <2>4. CASE got.out = "ok" /\ got.value.type # ECHO
    <3>1. got.value.type \in Ints /\ got.value.id \in Ints
      BY ONLY <1>2, <2>4 DEF Taken
    <3>2. reply = Message(got.value.type, got.value.id, data)
      BY <2>4 DEF ReplyTo
    <3>3. QED  BY <2>1, <3>1, <3>2
  <2>5. QED  BY <2>2, <2>3, <2>4
<1>5. bytes \in Seq(Byte)
  BY <1>4, ObjectWritten, ParityAdded DEF JavaSerialize
<1>6. flips' = 0 /\ got'.out = "none" /\ spared' = spared /\ flips' \in 0 .. MaxFlips
  <2>1. 0 \in 0 .. MaxFlips
    BY SizesAssumption
  <2>2. QED  BY <2>1 DEF SendReply, NothingYet
<1>7. CASE Len(bytes) <= Capacity
  <2>1. phase' = "reply" /\ sent' = reply /\ wire' = bytes
    BY <1>7 DEF SendReply
  <2> HIDE DEF reply
  <2>2. ReplySent'
    BY <1>4, <1>5, <1>6, <1>7, <2>1 DEF ReplySent, Carried
  <2> HIDE DEF bytes
  <2>3. TypeOK'
    BY ONLY <1>1, <1>5, <1>6, <2>1 DEF TypeOK
  <2>4. QED  BY <2>1, <2>2, <2>3 DEF Inv
<1>8. CASE ~ (Len(bytes) <= Capacity)
  <2>1. phase' = "idle" /\ sent' = sent /\ wire' = wire
    BY <1>8 DEF SendReply
  <2>2. TypeOK'
    BY ONLY <1>1, <1>6, <2>1 DEF TypeOK
  <2>3. QED  BY <2>1, <2>2 DEF Inv
<1>9. QED  BY <1>7, <1>8

\* Lemma: what the client gets is what it reads of the whole reply.
LEMMA ClientReceiveInv ==
    ASSUME Inv, ClientReceive
    PROVE  Inv'
<1>1. TypeOK /\ ReplySent /\ wire \in Seq(Byte) /\ Len(wire) <= Capacity
  BY DEF Inv, ClientReceive, TypeOK, ReplySent
<1>2. Received(ReplyBuffer) = wire
  BY <1>1, ReceivedBytes
<1>3. /\ got' = CppDeserialize(wire)
      /\ phase' = IF got'.out = "undefined" THEN "client undefined" ELSE "answered"
      /\ sent' = sent /\ wire' = wire /\ flips' = flips /\ spared' = spared
  BY <1>2 DEF ClientReceive
<1>4. got'.out \in {"ok", "exception", "fatal", "undefined"}
  BY <1>1, <1>3, CppOutcomes
<1>5. ReplySent' /\ got' = CppDeserialize(wire)'
  BY <1>1, <1>3 DEF ReplySent
<1>6. TypeOK'
  BY <1>1, <1>3, <1>4 DEF TypeOK
<1>7. QED  BY <1>3, <1>5, <1>6 DEF Inv

LEMMA NextInv == Inv /\ [Next]_vars => Inv'
<1>1. SUFFICES ASSUME Inv, [Next]_vars PROVE Inv'
  OBVIOUS
<1>2. CASE \E m \in Messages : SendRequest(m)
  BY <1>1, <1>2, SendRequestInv
<1>3. CASE \E i \in DOMAIN wire, k \in BitPositions : Flip(i, k)
  BY <1>1, <1>3, FlipInv
<1>4. CASE ServerReceive
  BY <1>1, <1>4, ServerReceiveInv
<1>5. CASE \E data \in ReplyData : SendReply(data)
  BY <1>1, <1>5, SendReplyInv
<1>6. CASE ClientReceive
  BY <1>1, <1>6, ClientReceiveInv
<1>7. CASE NextExchange
  BY <1>1, <1>7 DEF NextExchange, Inv, TypeOK
<1>8. CASE UNCHANGED vars
  <2>1. /\ phase' = phase /\ sent' = sent /\ wire' = wire /\ flips' = flips /\ got' = got /\ spared' = spared
    BY <1>8 DEF vars
  <2>2. TypeOK' = TypeOK /\ RequestSent' = RequestSent /\ ReplySent' = ReplySent
    BY <2>1 DEF TypeOK, RequestSent, ReplySent
  <2>3. Received(RequestBuffer)' = Received(RequestBuffer) /\ (Dies(got)' <=> Dies(got))
    BY <2>1 DEF Received, Dies
  <2>4. QED  BY <1>1, <2>1, <2>2, <2>3 DEF Inv
<1>9. QED  BY <1>1, <1>2, <1>3, <1>4, <1>5, <1>6, <1>7, <1>8 DEF Next

\* Lemma: the invariant holds of every exchange.
LEMMA Invariant == Spec => []Inv
<1>1. QED  BY InitInv, NextInv, PTL DEF Spec

\* Every component of the state has its type: whatever was flipped, the wire
\* carries bytes and each reader comes to an outcome it knows (deserialize of
\* both Serializers).
THEOREM WireTyped == Spec => []TypeOK
<1>1. Inv => TypeOK
  BY DEF Inv
<1>2. QED  BY <1>1, Invariant, PTL

LEMMA FewFlips ==
    ASSUME TypeOK, flips <= 1
    PROVE  flips \in {0, 1}
<1>1. flips \in 0 .. MaxFlips /\ MaxFlips \in Nat
  BY SizesAssumption DEF TypeOK
<1>2. QED  BY ONLY <1>1, flips <= 1

\* Lemma: what the server got of a request with no flip or one.
LEMMA ServerGot ==
    ASSUME Inv, phase \in {"served", "server ended"}, flips <= 1
    PROVE  /\ phase = "served"
           /\ got.out = "exception" \/ (got.out = "ok" /\ phase = "served" /\ got.value = Intended)
           /\ flips = 0 /\ Len(wire) <= RequestBuffer => got.out = "ok"
<1> DEFINE meant == Message(sent.type, sent.id, IF sent.data = <<>> THEN Null ELSE sent.data)
<1>1. /\ sent \in Messages /\ Carried(wire, CppSerialize(sent), flips)
      /\ got = JavaDeserialize(Received(RequestBuffer)) /\ flips \in {0, 1}
  <2>1. TypeOK /\ RequestSent /\ got = JavaDeserialize(Received(RequestBuffer))
    BY DEF Inv
  <2>2. flips \in {0, 1}
    BY <2>1, FewFlips
  <2>3. QED  BY ONLY <2>1, <2>2 DEF RequestSent
<1>2. /\ sent = Message(sent.type, sent.id, sent.data) /\ sent.data \in Seq(Byte)
      /\ sent.type = READ => sent.data # <<>>
  BY <1>1, RequestWritten DEF Short
<1>3. Exception.out = "exception" /\ RequestBuffer \in Nat /\ Len(wire) \in Nat
  <2>1. wire \in Seq(Byte)
    BY DEF Inv, TypeOK
  <2>2. RequestBuffer \in Nat
    BY MessagesAssumption
  <2>3. Exception.out = "exception"
    BY DEF Exception
  <2>4. QED  BY ONLY <2>1, <2>2, <2>3
<1>4. \/ got.out = "exception"
      \/ got.out = "ok" /\ got.value = meant
  <2>1. CASE Len(wire) <= RequestBuffer
    <3>1. got = JavaDeserialize(wire)
      BY <1>1, <2>1 DEF Received
    <3>2. QED  BY ONLY <1>1, <1>3, <3>1, WholeRequest
  <2>2. CASE Len(wire) > RequestBuffer
    <3>1. got = JavaDeserialize(SubSeq(wire, 1, RequestBuffer))
      <4>1. ~ (Len(wire) <= RequestBuffer)
        BY ONLY <1>3, <2>2
      <4>2. QED  BY ONLY <1>1, <4>1 DEF Received
    <3>2. QED  BY ONLY <1>1, <1>3, <2>2, <3>1, CutRequest
  <2>3. QED  BY ONLY <1>3, <2>1, <2>2
<1>5. flips = 0 /\ Len(wire) <= RequestBuffer => got.out = "ok"
  <2>1. SUFFICES ASSUME flips = 0, Len(wire) <= RequestBuffer PROVE got.out = "ok"
    OBVIOUS
  <2>2. got = JavaDeserialize(wire)
    BY <1>1, <2>1 DEF Received
  <2>3. QED  BY ONLY <1>1, <2>1, <2>2, WholeRequest
<1>6. meant.type = sent.type /\ meant.data = IF sent.data = <<>> THEN Null ELSE sent.data
  BY DEF Message
<1>7. Null \notin Seq(Byte)
  BY MessagesAssumption
<1>8. ~ Dies(got)
  BY ONLY <1>2, <1>4, <1>6, <1>7 DEF Dies
<1>9. phase = "served"
  BY <1>8 DEF Inv
<1>10. Intended = meant
  <2>1. Intended = IF sent.data = <<>> THEN [sent EXCEPT !.data = Null] ELSE sent
    BY <1>9 DEF Intended
  <2>2. QED  BY <1>2, <2>1 DEF Message
<1>11. QED  BY <1>4, <1>5, <1>9, <1>10

\* Lemma: what the client got of a reply with no flip or one.
LEMMA ClientGot ==
    ASSUME Inv, phase \in {"answered", "client undefined"}, flips <= 1
    PROVE  /\ phase = "answered"
           /\ got.out = "exception" \/ (got.out = "ok" /\ got.value = Intended)
           /\ flips = 0 => got.out = "ok"
<1> DEFINE meant == Message(sent.type, sent.id, IF sent.data = Null THEN <<>> ELSE sent.data)
<1>1. /\ Writable(sent, Null) /\ sent = Message(sent.type, sent.id, sent.data)
      /\ Carried(wire, JavaSerialize(sent), flips)
      /\ got = CppDeserialize(wire) /\ flips \in {0, 1}
  <2>1. TypeOK /\ ReplySent /\ got = CppDeserialize(wire)
    BY DEF Inv
  <2>2. flips \in {0, 1}
    BY <2>1, FewFlips
  <2>3. QED  BY ONLY <2>1, <2>2 DEF ReplySent
<1>2. Exception.out = "exception"
  BY DEF Exception
<1>3. /\ \/ got.out = "exception"
         \/ got.out = "ok" /\ got.value = meant
      /\ flips = 0 => got.out = "ok"
  BY ONLY <1>1, <1>2, WholeReply
<1>4. phase = "answered"
  BY <1>3 DEF Inv
<1>5. Intended = meant
  <2>1. Intended = IF sent.data = Null THEN [sent EXCEPT !.data = <<>>] ELSE sent
    BY <1>4 DEF Intended
  <2>2. QED  BY <1>1, <2>1 DEF Message
<1>6. QED  BY <1>3, <1>4, <1>5

\* The two programs write and read the same format: whatever the widths of
\* bytes and ints, the names and the messages, an undamaged request that fits
\* the server's buffer is read as it was written, and so is every reply
\* (Serializer, ByteBuffer, ByteReader of both programs).
THEOREM FormatsAgree == Spec => []WholeArrives
<1>1. Inv => WholeArrives
  <2>1. SUFFICES ASSUME Inv PROVE WholeArrives
    OBVIOUS
  <2>2. ASSUME phase = "served", flips = 0, Len(wire) <= RequestBuffer
        PROVE  got.out = "ok" /\ got.value = Intended
    BY <2>1, <2>2, ServerGot
  <2>3. ASSUME phase = "answered", flips = 0
        PROVE  got.out = "ok" /\ got.value = Intended
    BY <2>1, <2>3, ClientGot
  <2>4. QED  BY <2>2, <2>3 DEF WholeArrives
<1>2. QED  BY <1>1, Invariant, PTL

\* A flipped bit, anywhere, and a request cut off in the server's buffer are
\* never taken for another message and end neither program (Parity, the
\* lengths that readString checks).
THEOREM FlipsAreHarmless == Spec => []OneFlipIsHarmless
<1>1. Inv => OneFlipIsHarmless
  <2>1. SUFFICES ASSUME Inv, flips <= 1
                 PROVE  /\ phase \notin {"server ended", "client undefined"}
                        /\ phase \in {"served", "answered"} =>
                               got.out = "exception" \/ (got.out = "ok" /\ got.value = Intended)
    BY DEF OneFlipIsHarmless
  <2>2. phase \in {"served", "server ended"} =>
            phase = "served" /\ (got.out = "exception" \/ (got.out = "ok" /\ got.value = Intended))
    BY <2>1, ServerGot
  <2>3. phase \in {"answered", "client undefined"} =>
            phase = "answered" /\ (got.out = "exception" \/ (got.out = "ok" /\ got.value = Intended))
    BY <2>1, ClientGot
  <2>4. QED  BY <2>2, <2>3
<1>2. QED  BY <1>1, Invariant, PTL
==============================================================================
