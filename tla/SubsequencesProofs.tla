-------------------------- MODULE SubsequencesProofs --------------------------
(***************************************************************************)
(* Facts about Only, by induction on the length of the sequence.  The      *)
(* induction is on the members of a set of numbers: the provers have no    *)
(* use for theorems with an operator as a parameter.                       *)
(***************************************************************************)
EXTENDS Subsequences, Functions, FiniteSetTheorems, WellFoundedInduction, TLAPS

-----------------------------------------------------------------------------
(* Induction.                                                              *)

\* A set of natural numbers that is not empty has a least element.
LEMMA LeastNumber ==
  ASSUME NEW S \in SUBSET Nat, S # {}
  PROVE  \E m \in S : \A x \in S : m <= x
<1>1. PICK n \in S : TRUE
  OBVIOUS
<1> DEFINE T == {0 .. k : k \in {x \in S : x <= n}}
<1>2. IsWellFoundedOn(StrictSubsetOrdering(0 .. n), SUBSET (0 .. n))
  <2>1. IsFiniteSet(0 .. n)
    BY <1>1, FS_Interval
  <2>2. QED
    BY <2>1, FS_StrictSubsetOrderingWellFounded, FS_FiniteSubsetsOfFinite
<1>3. T \subseteq SUBSET (0 .. n) /\ 0 .. n \in T
  BY <1>1
<1>4. PICK U \in T : \A V \in T : <<V, U>> \notin StrictSubsetOrdering(0 .. n)
  <2> HIDE DEF T
  <2> QED
    BY <1>2, <1>3, WFMin
<1>5. PICK m \in S : m <= n /\ U = 0 .. m
  BY <1>4
<1>6. ASSUME NEW x \in S PROVE m <= x
  <2>1. SUFFICES ASSUME x < m PROVE FALSE
    BY <1>1, <1>5
  <2>2. 0 .. x \in T /\ 0 .. x \subseteq 0 .. m /\ m \in 0 .. m /\ m \notin 0 .. x
    BY <1>1, <1>5, <2>1
  <2>3. QED
    BY <1>3, <1>4, <1>5, <2>2 DEF StrictSubsetOrdering
<1>7. QED
  BY <1>6

\* A set with 0, and with the successor of each of its members up to l, has 0 .. l.
LEMMA Induct ==
  ASSUME NEW l \in Nat, NEW S, 0 \in S, \A n \in 0 .. l : n \in S /\ n < l => n + 1 \in S
  PROVE  \A n \in 0 .. l : n \in S
<1> SUFFICES ASSUME NEW z \in 0 .. l, z \notin S PROVE FALSE
  OBVIOUS
<1> DEFINE B == {n \in 0 .. l : n \notin S}
<1>1. B \in SUBSET Nat /\ z \in B
  OBVIOUS
<1>2. PICK m \in B : \A x \in B : m <= x
  <2> HIDE DEF B
  <2> QED
    BY <1>1, LeastNumber
<1>3. m \in 0 .. l /\ m \notin S /\ m # 0
  BY <1>2
<1>4. m - 1 \in 0 .. l /\ m - 1 < l /\ (m - 1) + 1 = m /\ ~(m <= m - 1)
  BY <1>3
<1>5. m - 1 \in S
  BY <1>2, <1>4
<1>6. QED
  BY <1>3, <1>4, <1>5

-----------------------------------------------------------------------------
(* The recursive function.                                                 *)

Body(s, S, g, n) ==
  IF n = 0 THEN << >>
  ELSE IF s[n] \in S THEN Append(g[n - 1], s[n]) ELSE g[n - 1]

\* The function that Upto stands for exists.
LEMMA UptoIs ==
  ASSUME NEW s, NEW S, Len(s) \in Nat
  PROVE  Upto(s, S) = [n \in 0 .. Len(s) |-> Body(s, S, Upto(s, S), n)]
<1> DEFINE Good(g, k) == g = [n \in 0 .. k |-> Body(s, S, g, n)]
           N == {k \in 0 .. Len(s) : \E g : Good(g, k)}
<1>1. 0 \in N
  <2>1. Good([n \in 0 .. 0 |-> << >>], 0)
    BY DEF Body
  <2>2. 0 \in 0 .. Len(s)
    OBVIOUS
  <2>3. QED
    BY <2>1, <2>2
<1>2. ASSUME NEW k \in 0 .. Len(s), k \in N, k < Len(s) PROVE k + 1 \in N
  <2>1. PICK g : Good(g, k)
    BY <1>2
  <2> DEFINE h == [n \in 0 .. k + 1 |-> IF n = k + 1 THEN Body(s, S, g, k + 1) ELSE g[n]]
  <2>2. \A n \in 0 .. k : h[n] = g[n] /\ g[n] = Body(s, S, g, n)
    BY <2>1
  <2>3. \A n \in 0 .. k + 1 : n # 0 => n - 1 \in 0 .. k
    OBVIOUS
  <2>4. h[k + 1] = Body(s, S, g, k + 1)
    OBVIOUS
  <2>5. h = [n \in 0 .. k + 1 |-> h[n]]
    OBVIOUS
  <2> HIDE DEF h
  <2>6. \A n \in 0 .. k + 1 : Body(s, S, h, n) = Body(s, S, g, n)
    BY <2>2, <2>3 DEF Body
  <2>7. \A n \in 0 .. k + 1 : h[n] = Body(s, S, h, n)
    BY <2>2, <2>4, <2>6
  <2>8. Good(h, k + 1)
    BY <2>5, <2>7
  <2>9. k + 1 \in 0 .. Len(s)
    BY <1>2
  <2>10. QED
    BY <2>8, <2>9
<1>3. \E g : Good(g, Len(s))
  <2>1. Len(s) \in N
    <3> HIDE DEF N
    <3>1. \A n \in 0 .. Len(s) : n \in N
      BY <1>1, <1>2, Induct
    <3>2. QED
      BY <3>1
  <2>2. QED
    BY <2>1
<1>4. Upto(s, S) = CHOOSE g : Good(g, Len(s))
  BY DEF Upto, Body
<1>5. Good(Upto(s, S), Len(s))
  <2> HIDE DEF Good
  <2> QED
    BY <1>3, <1>4
<1>6. QED
  BY <1>5

LEMMA UptoSteps ==
  ASSUME NEW T, NEW s \in Seq(T), NEW S
  PROVE  /\ Upto(s, S)[0] = << >> /\ Len(s) \in Nat
         /\ \A n \in 0 .. Len(s) : n < Len(s) =>
              Upto(s, S)[n + 1] = IF s[n + 1] \in S THEN Append(Upto(s, S)[n], s[n + 1])
                                  ELSE Upto(s, S)[n]
<1> DEFINE f == Upto(s, S)
<1>1. Len(s) \in Nat
  OBVIOUS
<1>2. f = [n \in 0 .. Len(s) |-> Body(s, S, f, n)]
  BY <1>1, UptoIs
<1> HIDE DEF f
<1>3. \A n \in 0 .. Len(s) : f[n] = Body(s, S, f, n)
  BY <1>2
<1>4. f[0] = << >>
  BY <1>1, <1>3 DEF Body
<1>5. ASSUME NEW n \in 0 .. Len(s), n < Len(s)
      PROVE  f[n + 1] = IF s[n + 1] \in S THEN Append(f[n], s[n + 1]) ELSE f[n]
  <2>1. n + 1 \in 0 .. Len(s) /\ n + 1 # 0 /\ (n + 1) - 1 = n
    BY <1>1, <1>5
  <2>2. QED
    BY <1>3, <2>1 DEF Body
<1>6. QED
  BY <1>1, <1>4, <1>5 DEF f

-----------------------------------------------------------------------------
(* What Only returns.                                                      *)

\* It returns a sequence of the elements that are in S.
LEMMA OnlyRange ==
  ASSUME NEW T, NEW s \in Seq(T), NEW S
  PROVE  /\ Only(s, S) \in Seq(T)
         /\ Range(Only(s, S)) = Range(s) \cap S
<1> DEFINE f == Upto(s, S)
           Until(n) == {s[i] : i \in 1 .. n}
           N == {n \in 0 .. Len(s) : f[n] \in Seq(T) /\ Range(f[n]) = Until(n) \cap S}
<1>1. /\ f[0] = << >> /\ Len(s) \in Nat
      /\ \A n \in 0 .. Len(s) : n < Len(s) =>
           f[n + 1] = IF s[n + 1] \in S THEN Append(f[n], s[n + 1]) ELSE f[n]
  BY UptoSteps
<1> HIDE DEF f
<1>2. 0 \in N
  <2>1. \A q : q = << >> => q \in Seq(T) /\ Range(q) = {}
    BY DEF Range
  <2>2. f[0] \in Seq(T) /\ Range(f[0]) = {} /\ Until(0) = {} /\ 0 \in 0 .. Len(s)
    BY <1>1, <2>1
  <2>3. QED
    BY <2>2
<1>3. ASSUME NEW n \in 0 .. Len(s), n \in N, n < Len(s) PROVE n + 1 \in N
  <2>1. f[n] \in Seq(T) /\ Range(f[n]) = Until(n) \cap S /\ n + 1 \in 0 .. Len(s)
    BY <1>3
  <2>2. s[n + 1] \in T
    BY <1>3
  <2>3. Until(n + 1) = Until(n) \cup {s[n + 1]}
    <3>1. 1 .. n + 1 = 1 .. n \cup {n + 1}
      BY <1>3
    <3>2. QED
      BY <3>1
  <2>4. \A q \in Seq(T) : /\ Append(q, s[n + 1]) \in Seq(T)
                          /\ Range(Append(q, s[n + 1])) = Range(q) \cup {s[n + 1]}
    <3> SUFFICES ASSUME NEW q \in Seq(T), NEW e \in T
                 PROVE  Append(q, e) \in Seq(T) /\ Range(Append(q, e)) = Range(q) \cup {e}
      BY <2>2
    <3>1. /\ Append(q, e) \in Seq(T) /\ Len(q) \in Nat
          /\ DOMAIN q = 1 .. Len(q) /\ DOMAIN Append(q, e) = 1 .. Len(q) + 1
          /\ \A i \in 1 .. Len(q) : Append(q, e)[i] = q[i]
          /\ Append(q, e)[Len(q) + 1] = e
          /\ 1 .. Len(q) + 1 = 1 .. Len(q) \cup {Len(q) + 1}
      OBVIOUS
    <3> DEFINE r == Append(q, e)
    <3> HIDE DEF r
    <3>2. Range(r) = Range(q) \cup {e}
      BY <3>1 DEF Range, r
    <3>3. QED
      BY <3>1, <3>2 DEF r
  <2> HIDE DEF Until
  <2>5. f[n + 1] \in Seq(T) /\ Range(f[n + 1]) = Until(n + 1) \cap S
    <3>1. CASE s[n + 1] \in S
      <4>1. f[n + 1] = Append(f[n], s[n + 1])
        BY <1>1, <1>3, <3>1
      <4>2. QED
        BY <2>1, <2>3, <2>4, <3>1, <4>1
    <3>2. CASE s[n + 1] \notin S
      <4>1. f[n + 1] = f[n]
        BY <1>1, <1>3, <3>2
      <4>2. QED
        BY <2>1, <2>3, <3>2, <4>1
    <3>3. QED
      BY <3>1, <3>2
  <2>6. QED
    BY <2>1, <2>5
<1>4. Len(s) \in N
  <2> HIDE DEF N
  <2>1. \A n \in 0 .. Len(s) : n \in N
    BY <1>1, <1>2, <1>3, Induct
  <2>2. QED
    BY <1>1, <2>1
<1>5. Until(Len(s)) = Range(s)
  <2>1. DOMAIN s = 1 .. Len(s)
    OBVIOUS
  <2>2. QED
    BY <2>1 DEF Range
<1>6. QED
  BY <1>4, <1>5 DEF Only, f

\* One more element is added to the result, or left out.
LEMMA OnlyAppend ==
  ASSUME NEW T, NEW s \in Seq(T), NEW S, NEW e \in T
  PROVE  Only(Append(s, e), S) = IF e \in S THEN Append(Only(s, S), e) ELSE Only(s, S)
<1> DEFINE r == Append(s, e)
           f == Upto(s, S)
           g == Upto(r, S)
           N == {n \in 0 .. Len(s) : g[n] = f[n]}
<1>1. /\ r \in Seq(T) /\ Len(s) \in Nat /\ Len(r) = Len(s) + 1 /\ r[Len(s) + 1] = e
      /\ \A i \in 1 .. Len(s) : r[i] = s[i]
  OBVIOUS
<1> HIDE DEF r
<1>2. /\ f[0] = << >>
      /\ \A n \in 0 .. Len(s) : n < Len(s) =>
           f[n + 1] = IF s[n + 1] \in S THEN Append(f[n], s[n + 1]) ELSE f[n]
  BY UptoSteps
<1>3. /\ g[0] = << >>
      /\ \A n \in 0 .. Len(r) : n < Len(r) =>
           g[n + 1] = IF r[n + 1] \in S THEN Append(g[n], r[n + 1]) ELSE g[n]
  BY <1>1, UptoSteps
<1> HIDE DEF f, g
<1>4. 0 \in N
  BY <1>1, <1>2, <1>3
<1>5. ASSUME NEW n \in 0 .. Len(s), n \in N, n < Len(s) PROVE n + 1 \in N
  <2>1. n \in 0 .. Len(r) /\ n < Len(r) /\ n + 1 \in 1 .. Len(s) /\ n + 1 \in 0 .. Len(s)
    BY <1>1, <1>5
  <2>2. r[n + 1] = s[n + 1] /\ g[n] = f[n]
    BY <1>1, <1>5, <2>1
  <2>3. g[n + 1] = f[n + 1]
    BY <1>2, <1>3, <1>5, <2>1, <2>2
  <2>4. QED
    BY <2>1, <2>3
<1>6. g[Len(s)] = f[Len(s)]
  <2>1. Len(s) \in N
    <3> HIDE DEF N
    <3>1. \A n \in 0 .. Len(s) : n \in N
      BY <1>1, <1>4, <1>5, Induct
    <3>2. QED
      BY <1>1, <3>1
  <2>2. QED
    BY <2>1
<1>7. g[Len(s) + 1] = IF e \in S THEN Append(g[Len(s)], e) ELSE g[Len(s)]
  <2>1. Len(s) \in 0 .. Len(r) /\ Len(s) < Len(r)
    BY <1>1
  <2>2. QED
    BY <1>1, <1>3, <2>1
<1>8. QED
  BY <1>1, <1>6, <1>7 DEF Only, f, g, r

\* Two selections are one.
LEMMA OnlyTwice ==
  ASSUME NEW T, NEW s \in Seq(T), NEW A, NEW B
  PROVE  Only(Only(s, A), B) = Only(s, A \cap B)
<1> DEFINE f == Upto(s, A)
           g == Upto(s, A \cap B)
           N == {n \in 0 .. Len(s) : f[n] \in Seq(T) /\ Only(f[n], B) = g[n]}
<1>1. /\ f[0] = << >> /\ Len(s) \in Nat
      /\ \A n \in 0 .. Len(s) : n < Len(s) =>
           f[n + 1] = IF s[n + 1] \in A THEN Append(f[n], s[n + 1]) ELSE f[n]
  BY UptoSteps
<1>2. /\ g[0] = << >>
      /\ \A n \in 0 .. Len(s) : n < Len(s) =>
           g[n + 1] = IF s[n + 1] \in A \cap B THEN Append(g[n], s[n + 1]) ELSE g[n]
  BY UptoSteps
<1> HIDE DEF f, g
<1>3. 0 \in N
  <2>1. << >> \in Seq(T) /\ Len(<< >>) = 0
    OBVIOUS
  <2>2. Upto(<< >>, B)[0] = << >>
    BY <2>1, UptoSteps
  <2>3. Only(<< >>, B) = << >>
    BY <2>1, <2>2 DEF Only
  <2>4. \A q : q = << >> => q \in Seq(T)
    OBVIOUS
  <2>5. f[0] \in Seq(T) /\ Only(f[0], B) = g[0] /\ 0 \in 0 .. Len(s)
    BY <1>1, <1>2, <2>3, <2>4
  <2>6. QED
    BY <2>5
<1>4. ASSUME NEW n \in 0 .. Len(s), n \in N, n < Len(s) PROVE n + 1 \in N
  <2>1. f[n] \in Seq(T) /\ Only(f[n], B) = g[n] /\ n + 1 \in 0 .. Len(s) /\ s[n + 1] \in T
    BY <1>4
  <2>2. CASE s[n + 1] \in A
    <3>0. \A q \in Seq(T), e \in T : Append(q, e) \in Seq(T)
      OBVIOUS
    <3>1. f[n + 1] = Append(f[n], s[n + 1]) /\ f[n + 1] \in Seq(T)
      BY <1>1, <1>4, <2>1, <2>2, <3>0
    <3>2. Only(Append(f[n], s[n + 1]), B)
            = IF s[n + 1] \in B THEN Append(Only(f[n], B), s[n + 1]) ELSE Only(f[n], B)
      <4> DEFINE q == f[n]
                 e == s[n + 1]
      <4>1. q \in Seq(T) /\ e \in T
        BY <2>1
      <4> HIDE DEF q, e
      <4>2. Only(Append(q, e), B) = IF e \in B THEN Append(Only(q, B), e) ELSE Only(q, B)
        BY <4>1, OnlyAppend
      <4>3. QED
        BY <4>2 DEF q, e
    <3>3. g[n + 1] = IF s[n + 1] \in B THEN Append(g[n], s[n + 1]) ELSE g[n]
      BY <1>2, <1>4, <2>2
    <3>4. QED
      BY <2>1, <3>1, <3>2, <3>3
  <2>3. CASE s[n + 1] \notin A
    BY <1>1, <1>2, <1>4, <2>1, <2>3
  <2>4. QED
    BY <2>2, <2>3
<1>5. Len(s) \in N
  <2> HIDE DEF N
  <2>1. \A n \in 0 .. Len(s) : n \in N
    BY <1>1, <1>3, <1>4, Induct
  <2>2. QED
    BY <1>1, <2>1
<1>6. QED
  BY <1>5 DEF Only, f, g

\* No more is left than what comes after a prefix that is left out.
LEMMA OnlyAfter ==
  ASSUME NEW T, NEW s \in Seq(T), NEW S, NEW k \in 0 .. Len(s),
         \A i \in 1 .. k : s[i] \notin S
  PROVE  Len(Only(s, S)) \in 0 .. Len(s) - k
<1> DEFINE f == Upto(s, S)
           N == {n \in 0 .. Len(s) : /\ f[n] \in Seq(T)
                                     /\ n <= k => Len(f[n]) = 0
                                     /\ n >= k => Len(f[n]) \in 0 .. n - k}
<1>1. /\ f[0] = << >> /\ Len(s) \in Nat
      /\ \A n \in 0 .. Len(s) : n < Len(s) =>
           f[n + 1] = IF s[n + 1] \in S THEN Append(f[n], s[n + 1]) ELSE f[n]
  BY UptoSteps
<1> HIDE DEF f
<1>2. 0 \in N
  <2>1. \A q : q = << >> => q \in Seq(T) /\ Len(q) = 0
    OBVIOUS
  <2>2. f[0] \in Seq(T) /\ Len(f[0]) = 0 /\ 0 \in 0 .. Len(s) /\ k \in Nat
    BY <1>1, <2>1
  <2>3. QED
    BY <2>2
<1>3. ASSUME NEW n \in 0 .. Len(s), n \in N, n < Len(s) PROVE n + 1 \in N
  <2>1. /\ f[n] \in Seq(T) /\ n + 1 \in 0 .. Len(s) /\ s[n + 1] \in T
        /\ n <= k => Len(f[n]) = 0
        /\ n >= k => Len(f[n]) \in 0 .. n - k
    BY <1>3
  <2>2. CASE s[n + 1] \in S
    <3>1. f[n + 1] = Append(f[n], s[n + 1])
      BY <1>1, <1>3, <2>2
    <3>2. f[n + 1] \in Seq(T) /\ Len(f[n + 1]) = Len(f[n]) + 1
      BY <2>1, <3>1
    <3>3. ~(n + 1 <= k)
      BY <2>1, <2>2
    <3>4. n >= k /\ n \in Nat /\ k \in Nat
      BY <1>1, <3>3
    <3>5. Len(f[n + 1]) \in 0 .. (n + 1) - k
      BY <2>1, <3>2, <3>4
    <3>6. QED
      BY <2>1, <3>2, <3>3, <3>5
  <2>3. CASE s[n + 1] \notin S
    <3>1. f[n + 1] = f[n]
      BY <1>1, <1>3, <2>3
    <3>2. n \in Nat /\ k \in Nat
      BY <1>1
    <3>3. /\ n + 1 <= k => Len(f[n]) = 0
          /\ n + 1 >= k => Len(f[n]) \in 0 .. (n + 1) - k
      BY <2>1, <3>2
    <3>4. QED
      BY <2>1, <3>1, <3>3
  <2>4. QED
    BY <2>2, <2>3
<1>4. Len(s) \in N
  <2> HIDE DEF N
  <2>1. \A n \in 0 .. Len(s) : n \in N
    BY <1>1, <1>2, <1>3, Induct
  <2>2. QED
    BY <1>1, <2>1
<1>5. QED
  BY <1>1, <1>4 DEF Only, f

\* What is in one of two sets is selected by one of them.
LEMMA OnlyParts ==
  ASSUME NEW T, NEW s \in Seq(T), NEW A, NEW B, A \cap B = {}
  PROVE  Len(Only(s, A \cup B)) = Len(Only(s, A)) + Len(Only(s, B))
<1> DEFINE f == Upto(s, A)
           g == Upto(s, B)
           h == Upto(s, A \cup B)
           N == {n \in 0 .. Len(s) : /\ f[n] \in Seq(T) /\ g[n] \in Seq(T) /\ h[n] \in Seq(T)
                                     /\ Len(h[n]) = Len(f[n]) + Len(g[n])}
<1>1. /\ f[0] = << >> /\ Len(s) \in Nat
      /\ \A n \in 0 .. Len(s) : n < Len(s) =>
           f[n + 1] = IF s[n + 1] \in A THEN Append(f[n], s[n + 1]) ELSE f[n]
  BY UptoSteps
<1>2. /\ g[0] = << >>
      /\ \A n \in 0 .. Len(s) : n < Len(s) =>
           g[n + 1] = IF s[n + 1] \in B THEN Append(g[n], s[n + 1]) ELSE g[n]
  BY UptoSteps
<1>3. /\ h[0] = << >>
      /\ \A n \in 0 .. Len(s) : n < Len(s) =>
           h[n + 1] = IF s[n + 1] \in A \cup B THEN Append(h[n], s[n + 1]) ELSE h[n]
  BY UptoSteps
<1> HIDE DEF f, g, h
<1>4. 0 \in N
  <2>1. \A q : q = << >> => q \in Seq(T) /\ Len(q) = 0
    OBVIOUS
  <2>2. /\ f[0] \in Seq(T) /\ g[0] \in Seq(T) /\ h[0] \in Seq(T)
        /\ Len(f[0]) = 0 /\ Len(g[0]) = 0 /\ Len(h[0]) = 0
    BY <1>1, <1>2, <1>3, <2>1
  <2>3. 0 \in 0 .. Len(s) /\ 0 = 0 + 0
    BY <1>1
  <2>4. QED
    BY <2>2, <2>3
<1>5. ASSUME NEW n \in 0 .. Len(s), n \in N, n < Len(s) PROVE n + 1 \in N
  <2> DEFINE e == s[n + 1]
  <2>1. /\ f[n] \in Seq(T) /\ g[n] \in Seq(T) /\ h[n] \in Seq(T)
        /\ Len(h[n]) = Len(f[n]) + Len(g[n])
    BY <1>5
  <2>0. n + 1 \in 0 .. Len(s) /\ e \in T
    BY <1>5
  <2>2. /\ f[n + 1] = IF e \in A THEN Append(f[n], e) ELSE f[n]
        /\ g[n + 1] = IF e \in B THEN Append(g[n], e) ELSE g[n]
        /\ h[n + 1] = IF e \in A \cup B THEN Append(h[n], e) ELSE h[n]
    BY <1>1, <1>2, <1>3, <1>5
  <2> HIDE DEF e
  <2>3. \A q \in Seq(T) : /\ Append(q, e) \in Seq(T) /\ Len(q) \in Nat
                          /\ Len(Append(q, e)) = Len(q) + 1
    BY <2>0
  <2>4. /\ Len(f[n + 1]) = IF e \in A THEN Len(f[n]) + 1 ELSE Len(f[n])
        /\ Len(g[n + 1]) = IF e \in B THEN Len(g[n]) + 1 ELSE Len(g[n])
        /\ Len(h[n + 1]) = IF e \in A \cup B THEN Len(h[n]) + 1 ELSE Len(h[n])
    BY <2>1, <2>2, <2>3
  <2>5. Len(f[n]) \in Nat /\ Len(g[n]) \in Nat /\ Len(h[n]) \in Nat
    BY <2>1, <2>3
  <2>6. Len(h[n + 1]) = Len(f[n + 1]) + Len(g[n + 1])
    <3> DEFINE lf == Len(f[n])
               lg == Len(g[n])
               lh == Len(h[n])
    <3>0. lf \in Nat /\ lg \in Nat /\ lh \in Nat /\ lh = lf + lg
      BY <2>1, <2>5
    <3>1. CASE e \in A
      <4>1. e \notin B
        BY <3>1
      <4>2. Len(h[n + 1]) = lh + 1 /\ Len(f[n + 1]) = lf + 1 /\ Len(g[n + 1]) = lg
        BY <2>4, <3>1, <4>1
      <4> HIDE DEF lf, lg, lh
      <4>3. QED
        BY <3>0, <4>2
    <3>2. CASE e \notin A /\ e \in B
      <4>1. Len(h[n + 1]) = lh + 1 /\ Len(f[n + 1]) = lf /\ Len(g[n + 1]) = lg + 1
        BY <2>4, <3>2
      <4> HIDE DEF lf, lg, lh
      <4>2. QED
        BY <3>0, <4>1
    <3>3. CASE e \notin A /\ e \notin B
      BY <2>1, <2>4, <2>5, <3>3
    <3>5. QED
      BY <3>1, <3>2, <3>3
  <2>7. f[n + 1] \in Seq(T) /\ g[n + 1] \in Seq(T) /\ h[n + 1] \in Seq(T)
    BY <2>1, <2>2, <2>3
  <2>8. QED
    BY <2>0, <2>6, <2>7
<1>6. Len(s) \in N
  <2> HIDE DEF N
  <2>1. \A n \in 0 .. Len(s) : n \in N
    BY <1>1, <1>4, <1>5, Induct
  <2>2. QED
    BY <1>1, <2>1
<1>7. QED
  BY <1>6 DEF Only, f, g, h

\* The first element that is selected is the first one in the set.
LEMMA OnlyHead ==
  ASSUME NEW T, NEW s \in Seq(T), NEW S, Only(s, S) # << >>
  PROVE  \E m \in DOMAIN s : /\ s[m] \in S /\ Only(s, S)[1] = s[m]
                            /\ \A i \in 1 .. m - 1 : s[i] \notin S
<1> DEFINE f == Upto(s, S)
           First(q, n) == \E m \in 1 .. n : /\ s[m] \in S /\ q[1] = s[m]
                                            /\ \A i \in 1 .. m - 1 : s[i] \notin S
           N == {n \in 0 .. Len(s) :
                   /\ f[n] \in Seq(T)
                   /\ \/ f[n] = << >> /\ \A i \in 1 .. n : s[i] \notin S
                      \/ Len(f[n]) > 0 /\ First(f[n], n)}
<1>1. /\ f[0] = << >> /\ Len(s) \in Nat
      /\ \A n \in 0 .. Len(s) : n < Len(s) =>
           f[n + 1] = IF s[n + 1] \in S THEN Append(f[n], s[n + 1]) ELSE f[n]
  BY UptoSteps
<1> HIDE DEF f
<1>2. 0 \in N
  <2>1. \A q : q = << >> => q \in Seq(T)
    OBVIOUS
  <2>2. f[0] \in Seq(T) /\ f[0] = << >> /\ 0 \in 0 .. Len(s) /\ \A i \in 1 .. 0 : s[i] \notin S
    BY <1>1, <2>1
  <2> HIDE DEF First
  <2>3. QED
    BY <2>2
<1>3. ASSUME NEW n \in 0 .. Len(s), n \in N, n < Len(s) PROVE n + 1 \in N
  <2> DEFINE e == s[n + 1]
  <2>1. n + 1 \in 0 .. Len(s) /\ e \in T /\ n \in Nat
    BY <1>1, <1>3
  <2>2. /\ f[n] \in Seq(T)
        /\ \/ f[n] = << >> /\ \A i \in 1 .. n : s[i] \notin S
           \/ Len(f[n]) > 0 /\ First(f[n], n)
    BY <1>3
  <2>3. f[n + 1] = IF e \in S THEN Append(f[n], e) ELSE f[n]
    BY <1>1, <1>3
  <2>4. \A i \in 1 .. n + 1 : i \in 1 .. n \/ i = n + 1
    BY <2>1
  <2>5. \A q \in Seq(T) : /\ Append(q, e) \in Seq(T) /\ Len(Append(q, e)) > 0
                          /\ q = << >> => Append(q, e)[1] = e
                          /\ Len(q) > 0 => Append(q, e)[1] = q[1]
    BY <2>1
  <2>6. \A q : First(q, n) => First(q, n + 1)
    <3>1. \A m \in 1 .. n : m \in 1 .. n + 1
      BY <2>1
    <3>2. QED
      BY <3>1
  <2>7. CASE e \notin S
    <3>1. f[n + 1] = f[n]
      BY <2>3, <2>7
    <3>2. CASE f[n] = << >> /\ \A i \in 1 .. n : s[i] \notin S
      <4>1. \A i \in 1 .. n + 1 : s[i] \notin S
        BY <2>4, <2>7, <3>2
      <4>2. QED
        BY <2>1, <2>2, <3>1, <3>2, <4>1
    <3>3. CASE Len(f[n]) > 0 /\ First(f[n], n)
      <4> HIDE DEF First
      <4> QED
        BY <2>1, <2>2, <2>6, <3>1, <3>3
    <3>4. QED
      BY <2>2, <3>2, <3>3
  <2>8. CASE e \in S
    <3>1. f[n + 1] = Append(f[n], e) /\ f[n + 1] \in Seq(T) /\ Len(f[n + 1]) > 0
      BY <2>2, <2>3, <2>5, <2>8
    <3>2. CASE f[n] = << >> /\ \A i \in 1 .. n : s[i] \notin S
      <4>1. f[n + 1][1] = e
        BY <2>2, <2>5, <3>1, <3>2
      <4>2. n + 1 \in 1 .. n + 1 /\ \A i \in 1 .. (n + 1) - 1 : s[i] \notin S
        BY <2>1, <3>2
      <4>3. First(f[n + 1], n + 1)
        BY <2>8, <4>1, <4>2
      <4> HIDE DEF First
      <4>4. QED
        BY <2>1, <3>1, <4>3
    <3>3. CASE Len(f[n]) > 0 /\ First(f[n], n)
      <4>1. f[n + 1][1] = f[n][1]
        BY <2>2, <2>5, <3>1, <3>3
      <4>2. First(f[n + 1], n)
        BY <3>3, <4>1
      <4> HIDE DEF First
      <4>3. QED
        BY <2>1, <2>6, <3>1, <4>2
    <3>4. QED
      BY <2>2, <3>2, <3>3
  <2>9. QED
    BY <2>7, <2>8
<1>4. Len(s) \in N
  <2> HIDE DEF N
  <2>1. \A n \in 0 .. Len(s) : n \in N
    BY <1>1, <1>2, <1>3, Induct
  <2>2. QED
    BY <1>1, <2>1
<1>5. Only(s, S) = f[Len(s)]
  BY DEF Only, f
<1>6. First(Only(s, S), Len(s))
  <2> HIDE DEF First
  <2> QED
    BY <1>4, <1>5
<1>7. QED
  BY <1>6
=============================================================================
