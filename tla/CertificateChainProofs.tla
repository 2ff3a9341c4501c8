--------------------------- MODULE CertificateChainProofs ---------------------------
(* Facts about the operators of CertificateChain, for every value of its constants. *)
EXTENDS CertificateChain, WellFoundedInduction, TLAPS

\* A set of natural numbers has a least element. Induction over the naturals is used
\* in this form: the set is that of the counterexamples.
LEMMA LeastElement ==
    ASSUME NEW S \in SUBSET Nat, S # {}
    PROVE  \E m \in S : \A u \in S : m <= u
<1> DEFINE R == OpToRel(<, Nat)
<1>1. IsWellFoundedOn(R, Nat)
  BY NatLessThanWellFounded
<1>2. PICK m \in S : \A u \in S : <<u, m>> \notin R
  <2> HIDE DEF R
  <2> QED  BY <1>1, WFMin
<1>3. \A u \in S : ~ (u < m)
  BY <1>2 DEF OpToRel
<1> QED  BY <1>3

\* So has a set of integers with a lower bound.
LEMMA LeastInteger ==
    ASSUME NEW S \in SUBSET Int, S # {}, NEW lo \in Int, \A u \in S : lo <= u
    PROVE  \E m \in S : \A u \in S : m <= u
<1> DEFINE T == {n \in Nat : n + lo \in S}
<1>1. PICK u \in S : TRUE  OBVIOUS
<1>2. u - lo \in T  BY <1>1
<1>3. PICK n \in T : \A k \in T : n <= k
  <2>1. T \in SUBSET Nat /\ T # {}  BY <1>2
  <2> HIDE DEF T
  <2> QED  BY <2>1, LeastElement
<1>4. \A v \in S : v - lo \in T  OBVIOUS
<1>5. \A v \in S : n + lo <= v  BY <1>3, <1>4
<1> QED  BY <1>3, <1>5

\* minTime returns the least of the times it is given.
LEMMA MinTime ==
    ASSUME NEW S \in SUBSET Int, S # {}, NEW lo \in Int, \A u \in S : lo <= u
    PROVE  /\ minTime(S) \in S
           /\ \A u \in S : minTime(S) <= u
<1>1. \E m \in S : \A u \in S : m <= u  BY LeastInteger
<1> QED  BY <1>1 DEF minTime

\* Truncation to a second loses less than a second.
LEMMA TruncateBounds ==
    ASSUME NEW t \in Nat
    PROVE  /\ Truncate(t) \in Nat
           /\ Truncate(t) <= t
           /\ t < Truncate(t) + Second
<1>1. Second \in Nat \ {0}  BY GranularityAssumption
<1>2. t % Second \in 0..(Second - 1)  BY <1>1
<1>3. t % Second <= t BY <1>1
<1> QED  BY <1>1, <1>2, <1>3 DEF Truncate

------------------------------------------------------------------------------------
(* What the cleanup of a certificate list returns.                                  *)

\* One iteration of the loop of cleanUpCertificateList, and what a function that maps
\* a number of iterations to the certificates kept in them has to satisfy.
KeptStep(certs, t, g, n) ==
    IF n = 0 THEN << >>
    ELSE IF certs[n].notAfter > t
      THEN Append(g[n - 1], certs[n])
      ELSE g[n - 1]

KeptBy(certs, t, k, g) ==
    /\ g \in [0..k -> Seq(Certificate)]
    /\ \A n \in 0..k : g[n] = KeptStep(certs, t, g, n)

\* The recursive definition in cleanUpCertificateList has a solution on every prefix.
LEMMA KeptExists ==
    ASSUME NEW certs \in Seq(Certificate), NEW t \in Nat, NEW k \in 0..Len(certs)
    PROVE  \E g : KeptBy(certs, t, k, g)
<1> DEFINE Bad == {m \in 0..Len(certs) : ~ \E g : KeptBy(certs, t, m, g)}
<1>1. Bad = {}
  <2> SUFFICES ASSUME Bad # {} PROVE FALSE
    OBVIOUS
  <2>1. PICK m \in Bad : \A u \in Bad : m <= u
    <3>1. Bad \in SUBSET Nat  OBVIOUS
    <3> HIDE DEF Bad
    <3> QED  BY <3>1, LeastElement
  <2>2. m # 0
    <3> DEFINE z == [n \in 0..0 |-> << >>]
    <3>1. z \in [0..0 -> Seq(Certificate)]  OBVIOUS
    <3>2. \A n \in 0..0 : n = 0  OBVIOUS
    <3>3. \A n \in 0..0 : z[n] = << >>  OBVIOUS
    <3> HIDE DEF z
    <3>4. KeptBy(certs, t, 0, z)
      BY <3>1, <3>2, <3>3 DEF KeptBy, KeptStep
    <3> QED  BY <3>4
  <2>3. m - 1 \in 0..Len(certs) /\ m - 1 \notin Bad
    BY <2>1, <2>2
  <2>4. PICK g : KeptBy(certs, t, m - 1, g)
    BY <2>3
  <2> DEFINE h == [n \in 0..m |-> IF n < m THEN g[n] ELSE KeptStep(certs, t, g, m)]
  <2>5. h \in [0..m -> Seq(Certificate)]
    <3>1. certs[m] \in Certificate /\ g[m - 1] \in Seq(Certificate)
      BY <2>2, <2>4 DEF KeptBy
    <3>2. KeptStep(certs, t, g, m) \in Seq(Certificate)
      BY <3>1, <2>2 DEF KeptStep
    <3> QED  BY <3>2, <2>4 DEF KeptBy
  <2>6. ASSUME NEW n \in 0..m PROVE h[n] = KeptStep(certs, t, h, n)
    <3>1. CASE n < m
      <4>1. n \in 0..(m - 1) /\ h[n] = g[n]  BY <3>1
      <4>2. n # 0 => h[n - 1] = g[n - 1]  BY <3>1
      <4>3. g[n] = KeptStep(certs, t, g, n)  BY <4>1, <2>4 DEF KeptBy
      <4> QED  BY <4>1, <4>2, <4>3 DEF KeptStep
    <3>2. CASE n = m
      <4>1. h[n] = KeptStep(certs, t, g, m)  BY <3>2
      <4>2. h[n - 1] = g[n - 1]  BY <3>2, <2>2
      <4> QED  BY <4>1, <4>2, <3>2 DEF KeptStep
    <3> QED  BY <3>1, <3>2
  <2>7. KeptBy(certs, t, m, h)
    <3> HIDE DEF h
    <3> QED  BY <2>5, <2>6 DEF KeptBy
  <2> QED  BY <2>1, <2>7
<1> QED  BY <1>1

\* The loop of cleanUpCertificateList, as an equation.
LEMMA KeptUnfolds ==
    ASSUME NEW certs \in Seq(Certificate), NEW t \in Nat, Len(certs) > 1
    PROVE  \E g : /\ KeptBy(certs, t, Len(certs), g)
                  /\ cleanUpCertificateList(certs, t) = g[Len(certs)]
<1> DEFINE kept == CHOOSE g : g = [n \in 0..Len(certs) |-> KeptStep(certs, t, g, n)]
<1>1. PICK g : KeptBy(certs, t, Len(certs), g)
  BY KeptExists
<1>2. g = [n \in 0..Len(certs) |-> KeptStep(certs, t, g, n)]
  BY <1>1 DEF KeptBy
<1>3. kept = [n \in 0..Len(certs) |-> KeptStep(certs, t, kept, n)]
  BY <1>2
<1>4. cleanUpCertificateList(certs, t) = kept[Len(certs)]
  BY DEF cleanUpCertificateList, KeptStep
<1> HIDE DEF kept
<1> DEFINE Bad == {n \in 0..Len(certs) : kept[n] # g[n]}
<1>5. Bad = {}
  <2> SUFFICES ASSUME Bad # {} PROVE FALSE
    OBVIOUS
  <2>1. PICK n \in Bad : \A u \in Bad : n <= u
    <3>1. Bad \in SUBSET Nat  OBVIOUS
    <3> HIDE DEF Bad
    <3> QED  BY <3>1, LeastElement
  <2>2. kept[n] = KeptStep(certs, t, kept, n) /\ g[n] = KeptStep(certs, t, g, n)
    BY <1>1, <1>3 DEF KeptBy
  <2>3. n # 0 => kept[n - 1] = g[n - 1]
    BY <2>1
  <2> QED  BY <2>1, <2>2, <2>3 DEF KeptStep
<1> QED  BY <1>1, <1>4, <1>5

\* The certificates kept by n iterations are unexpired certificates of the first n, all
\* of them, and the last one is kept last.
LEMMA KeptProperties ==
    ASSUME NEW certs \in Seq(Certificate), NEW t \in Nat, NEW g,
           KeptBy(certs, t, Len(certs), g)
    PROVE  \A n \in 0..Len(certs) :
             /\ \A j \in DOMAIN g[n] : /\ g[n][j].notAfter > t
                                       /\ \E m \in DOMAIN certs : g[n][j] = certs[m]
             /\ \A m \in 1..n : certs[m].notAfter > t => \E j \in DOMAIN g[n] : g[n][j] = certs[m]
             /\ n > 0 /\ certs[n].notAfter > t
                  => g[n] # << >> /\ g[n][Len(g[n])] = certs[n]
<1> DEFINE Sound(n) == \A j \in DOMAIN g[n] : /\ g[n][j].notAfter > t
                                             /\ \E m \in DOMAIN certs : g[n][j] = certs[m]
           Complete(n) == \A m \in 1..n :
                            certs[m].notAfter > t => \E j \in DOMAIN g[n] : g[n][j] = certs[m]
           Bad == {n \in 0..Len(certs) : ~ (Sound(n) /\ Complete(n))}
<1>1. Bad = {}
  <2> SUFFICES ASSUME Bad # {} PROVE FALSE
    OBVIOUS
  <2>1. PICK n \in Bad : \A u \in Bad : n <= u
    <3>1. Bad \in SUBSET Nat  OBVIOUS
    <3> HIDE DEF Bad
    <3> QED  BY <3>1, LeastElement
  <2>2. g[n] = KeptStep(certs, t, g, n) /\ g[n] \in Seq(Certificate)
    BY DEF KeptBy
  <2>3. CASE n = 0
    BY <2>2, <2>3 DEF KeptStep
  <2>4. CASE n # 0
    <3>1. n - 1 \in 0..Len(certs) /\ n - 1 \notin Bad
      <4>1. n \in 0..Len(certs)  OBVIOUS
      <4> HIDE DEF Bad
      <4> QED  BY <2>1, <2>4, <4>1
    <3>2. Sound(n - 1) /\ Complete(n - 1)  BY <3>1
    <3>3. g[n - 1] \in Seq(Certificate) /\ certs[n] \in Certificate /\ n \in DOMAIN certs
      BY <3>1, <2>4 DEF KeptBy
    <3>4. CASE certs[n].notAfter > t
      <4>1. g[n] = Append(g[n - 1], certs[n])  BY <2>2, <2>4, <3>4 DEF KeptStep
      <4>2. ASSUME NEW j \in DOMAIN g[n]
            PROVE  g[n][j].notAfter > t /\ \E m \in DOMAIN certs : g[n][j] = certs[m]
        <5>1. \/ j \in DOMAIN g[n - 1] /\ g[n][j] = g[n - 1][j]
              \/ g[n][j] = certs[n]
          BY <3>3, <4>1
        <5> QED  BY <5>1, <3>2, <3>3, <3>4
      <4>3. ASSUME NEW m \in 1..n, certs[m].notAfter > t
            PROVE  \E j \in DOMAIN g[n] : g[n][j] = certs[m]
        <5>1. CASE m = n
          <6>1. Len(g[n]) \in DOMAIN g[n] /\ g[n][Len(g[n])] = certs[n]  BY <3>3, <4>1
          <6> QED  BY <6>1, <5>1
        <5>2. CASE m < n
          <6>1. PICK j \in DOMAIN g[n - 1] : g[n - 1][j] = certs[m]  BY <3>2, <4>3, <5>2
          <6>2. j \in DOMAIN g[n] /\ g[n][j] = g[n - 1][j]  BY <3>3, <4>1
          <6> QED  BY <6>1, <6>2
        <5> QED  BY <5>1, <5>2
      <4> QED  BY <2>1, <4>2, <4>3
    <3>5. CASE ~ (certs[n].notAfter > t)
      <4>1. g[n] = g[n - 1]  BY <2>2, <2>4, <3>5 DEF KeptStep
      <4>2. Sound(n)
        BY <3>2, <4>1
      <4>3. ASSUME NEW m \in 1..n, certs[m].notAfter > t
            PROVE  \E j \in DOMAIN g[n] : g[n][j] = certs[m]
        <5>1. m \in 1..(n - 1)  BY <4>3, <3>5
        <5> QED  BY <5>1, <4>3, <3>2, <4>1
      <4> QED  BY <2>1, <4>2, <4>3
    <3> QED  BY <3>4, <3>5
  <2> QED  BY <2>3, <2>4
<1>2. ASSUME NEW n \in 0..Len(certs), n > 0, certs[n].notAfter > t
      PROVE  g[n] # << >> /\ g[n][Len(g[n])] = certs[n]
  <2>1. g[n] = Append(g[n - 1], certs[n])  BY <1>2 DEF KeptBy, KeptStep
  <2>2. g[n - 1] \in Seq(Certificate) /\ certs[n] \in Certificate
    <3>1. n - 1 \in 0..Len(certs) /\ n \in 1..Len(certs)  BY <1>2
    <3>2. g \in [0..Len(certs) -> Seq(Certificate)]  BY DEF KeptBy
    <3>3. g[n - 1] \in Seq(Certificate)  BY <3>1, <3>2
    <3>4. certs[n] \in Certificate  BY <3>1
    <3> QED  BY <3>3, <3>4
  <2>3. Len(g[n]) = Len(g[n - 1]) + 1  BY <2>1, <2>2
  <2>4. g[n][Len(g[n])] = certs[n]  BY <2>1, <2>2, <2>3
  <2>5. g[n] # << >>  BY <2>2, <2>3
  <2> QED  BY <2>4, <2>5
<1> TAKE n \in 0..Len(certs)
<1>3. Sound(n)  BY <1>1
<1>4. Complete(n)  BY <1>1
<1>5. n > 0 /\ certs[n].notAfter > t => g[n] # << >> /\ g[n][Len(g[n])] = certs[n]
  BY <1>2
<1> QED  BY <1>3, <1>4, <1>5

\* What cleanUpCertificateList returns: certificates of the list, unexpired ones when
\* the list had several, all the unexpired ones, and the last one last if unexpired.
THEOREM CleanUpList ==
    ASSUME NEW certs \in Seq(Certificate), NEW t \in Nat
    PROVE  LET kept == cleanUpCertificateList(certs, t)
           IN  /\ kept \in Seq(Certificate)
               /\ \A j \in DOMAIN kept : \E m \in DOMAIN certs : kept[j] = certs[m]
               /\ Len(certs) > 1 => \A j \in DOMAIN kept : kept[j].notAfter > t
               /\ \A m \in DOMAIN certs :
                    certs[m].notAfter > t => \E j \in DOMAIN kept : kept[j] = certs[m]
               /\ certs # << >> /\ certs[Len(certs)].notAfter > t
                    => kept # << >> /\ kept[Len(kept)] = certs[Len(certs)]
<1>1. CASE Len(certs) <= 1
  BY <1>1 DEF cleanUpCertificateList
<1>2. CASE Len(certs) > 1
  <2>1. PICK g : /\ KeptBy(certs, t, Len(certs), g)
                 /\ cleanUpCertificateList(certs, t) = g[Len(certs)]
    BY <1>2, KeptUnfolds
  <2>2. Len(certs) \in 0..Len(certs) /\ g[Len(certs)] \in Seq(Certificate)
    BY <2>1 DEF KeptBy
  <2> QED  BY <1>2, <2>1, <2>2, KeptProperties
<1> QED  BY <1>1, <1>2

------------------------------------------------------------------------------------
(* What the deadlines say about the certificates they are computed from.            *)

\* f says from where the members of list l come in list m: from places in the same order.
FromPlaces(l, m, f) ==
    /\ f \in [DOMAIN l -> DOMAIN m]
    /\ \A n \in DOMAIN l : /\ l[n] = m[f[n]]
                           /\ \A j \in 1..n : n - j <= f[n] - f[j]

\* What is kept comes from places in the same order.
LEMMA KeptInOrder ==
    ASSUME NEW certs \in Seq(Certificate), NEW t \in Nat, NEW g,
           KeptBy(certs, t, Len(certs), g)
    PROVE  \E f : FromPlaces(g[Len(certs)], certs, f)
<1> DEFINE In(n, f) == /\ f \in [1..Len(g[n]) -> 1..n]
                       /\ \A m \in 1..Len(g[n]) : /\ g[n][m] = certs[f[m]]
                                                  /\ \A j \in 1..m : m - j <= f[m] - f[j]
           Bad == {n \in 0..Len(certs) : ~ \E f : In(n, f)}
<1>1. Bad = {}
  <2> SUFFICES ASSUME Bad # {} PROVE FALSE
    OBVIOUS
  <2>1. PICK n \in Bad : \A u \in Bad : n <= u
    <3>1. Bad \in SUBSET Nat  OBVIOUS
    <3> HIDE DEF Bad
    <3> QED  BY <3>1, LeastElement
  <2>2. g[n] = KeptStep(certs, t, g, n) /\ g[n] \in Seq(Certificate)
    BY DEF KeptBy
  <2>3. CASE n = 0
    <3>1. Len(g[n]) = 0  BY <2>2, <2>3 DEF KeptStep
    <3>2. In(n, [m \in {} |-> 0])  BY <3>1
    <3> QED  BY <3>2
  <2>4. CASE n # 0
    <3>1. n - 1 \in 0..Len(certs) /\ n - 1 \notin Bad /\ n \in 1..Len(certs)
      <4>1. n \in 0..Len(certs)  OBVIOUS
      <4> HIDE DEF Bad
      <4> QED  BY <2>1, <2>4, <4>1
    <3>2. PICK f : In(n - 1, f)  BY <3>1
    <3>3. g[n - 1] \in Seq(Certificate) /\ Len(g[n - 1]) \in Nat /\ certs[n] \in Certificate
      <4>1. g \in [0..Len(certs) -> Seq(Certificate)]  BY DEF KeptBy
      <4>2. g[n - 1] \in Seq(Certificate)  BY <3>1, <4>1
      <4>3. certs[n] \in Certificate  BY <3>1
      <4> QED  BY <4>2, <4>3
    <3>4. CASE certs[n].notAfter > t
      <4> DEFINE l == Len(g[n - 1])
                 h == [m \in 1..(l + 1) |-> IF m <= l THEN f[m] ELSE n]
      <4>0. l \in Nat /\ n \in Int /\ f \in [1..l -> 1..(n - 1)]  BY <3>1, <3>2, <3>3
      <4>1. g[n] = Append(g[n - 1], certs[n]) /\ Len(g[n]) = l + 1  BY <2>2, <2>4, <3>3, <3>4 DEF KeptStep
      <4>2. h \in [1..(l + 1) -> 1..n]
        BY <3>1, <3>2, <3>3
      <4>3. ASSUME NEW m \in 1..(l + 1)
            PROVE  /\ g[n][m] = certs[h[m]]
                   /\ \A j \in 1..m : m - j <= h[m] - h[j]
        <5>1. CASE m <= l
          <6>1. g[n][m] = g[n - 1][m] /\ h[m] = f[m] /\ m \in 1..l  BY <3>3, <4>1, <5>1
          <6>2. \A j \in 1..m : h[j] = f[j]  BY <5>1, <3>3
          <6> QED  BY <3>2, <6>1, <6>2
        <5>2. CASE m = l + 1
          <6>1. g[n][m] = certs[n] /\ h[m] = n  BY <3>3, <4>1, <5>2
          <6>2. ASSUME NEW j \in 1..m PROVE m - j <= h[m] - h[j]
            <7>0. m \in Int /\ h[m] \in Int  BY <4>0, <6>1
            <7>1. CASE j = m  BY <7>0, <7>1
            <7>2. CASE j < m
              <8>0. j \in 1..l /\ l \in 1..l /\ j \in 1..(l + 1) /\ j \in 1..l /\ l \in Nat
                <9> HIDE DEF l, h
                <9> QED  BY <4>0, <5>2, <7>2
              <8>1a. h[j] = f[j]  BY <8>0
              <8>1. h[j] = f[j] /\ l - j <= f[l] - f[j]
                BY <3>2, <8>0, <8>1a
              <8>2. f[l] \in 1..(n - 1) /\ f[j] \in 1..(n - 1)  BY <3>2, <8>0
              <8> HIDE DEF l, h
              <8> QED  BY <4>0, <5>2, <6>1, <8>0, <8>1, <8>2
            <7> HIDE DEF l, h
            <7> QED  BY <7>0, <7>1, <7>2
          <6> QED  BY <6>1, <6>2
        <5> HIDE DEF l, h
        <5> QED  BY <4>0, <5>1, <5>2
      <4> HIDE DEF h, l
      <4>4. In(n, h)  BY <4>1, <4>2, <4>3
      <4> QED  BY <4>4
    <3>5. CASE ~ (certs[n].notAfter > t)
      <4>1. g[n] = g[n - 1]  BY <2>2, <2>4, <3>5 DEF KeptStep
      <4>2. In(n, f)  BY <3>1, <3>2, <4>1
      <4> QED  BY <4>2
    <3> QED  BY <3>4, <3>5
  <2> QED  BY <2>3, <2>4
<1>2. PICK f : In(Len(certs), f)  BY <1>1
<1>3. g[Len(certs)] \in Seq(Certificate)  BY DEF KeptBy
<1>4. DOMAIN g[Len(certs)] = 1..Len(g[Len(certs)]) /\ DOMAIN certs = 1..Len(certs)  BY <1>3
<1>5. FromPlaces(g[Len(certs)], certs, f)  BY <1>2, <1>4 DEF FromPlaces
<1> QED  BY <1>5

\* Also the order of a list survives its clean-up.
LEMMA CleanUpInOrder ==
    ASSUME NEW certs \in Seq(Certificate), NEW t \in Nat
    PROVE  \E f : FromPlaces(cleanUpCertificateList(certs, t), certs, f)
<1>1. CASE Len(certs) <= 1
  <2> DEFINE f == [n \in DOMAIN certs |-> n]
  <2>1. cleanUpCertificateList(certs, t) = certs  BY <1>1 DEF cleanUpCertificateList
  <2>2. FromPlaces(certs, certs, f)  BY DEF FromPlaces
  <2> QED  BY <2>1, <2>2
<1>2. CASE Len(certs) > 1
  <2>1. PICK g : /\ KeptBy(certs, t, Len(certs), g)
                 /\ cleanUpCertificateList(certs, t) = g[Len(certs)]
    BY <1>2, KeptUnfolds
  <2> QED  BY <2>1, KeptInOrder
<1> QED  BY <1>1, <1>2

\* A list of two whose second certificate is unexpired.
LEMMA CleanUpPair ==
    ASSUME NEW certs \in Seq(Certificate), NEW t \in Nat, Len(certs) = 2, certs[2].notAfter > t
    PROVE  cleanUpCertificateList(certs, t)
             = IF certs[1].notAfter > t THEN certs ELSE <<certs[2]>>
<1>0. Len(certs) > 1  OBVIOUS
<1>1. PICK g : KeptBy(certs, t, 2, g) /\ cleanUpCertificateList(certs, t) = g[2]
  <2>1. PICK g : KeptBy(certs, t, Len(certs), g) /\ cleanUpCertificateList(certs, t) = g[Len(certs)]
    BY <1>0, KeptUnfolds
  <2> QED  BY <2>1
<1>2. g[0] = KeptStep(certs, t, g, 0) /\ g[1] = KeptStep(certs, t, g, 1) /\ g[2] = KeptStep(certs, t, g, 2)
  BY <1>1 DEF KeptBy
<1>3. g[0] = << >> /\ g[1] = (IF certs[1].notAfter > t THEN Append(g[0], certs[1]) ELSE g[0])
      /\ g[2] = Append(g[1], certs[2])
  <2>1. 1 # 0 /\ 2 # 0 /\ 1 - 1 = 0 /\ 2 - 1 = 1  OBVIOUS
  <2>2. g[0] = << >>  BY <1>2 DEF KeptStep
  <2>3. g[1] = (IF certs[1].notAfter > t THEN Append(g[0], certs[1]) ELSE g[0])
    BY <1>2, <2>1, Zenon DEF KeptStep
  <2>4. g[2] = (IF certs[2].notAfter > t THEN Append(g[1], certs[2]) ELSE g[1])
    BY <1>2, <2>1, Zenon DEF KeptStep
  <2> QED  BY <2>2, <2>3, <2>4
<1>4. certs = <<certs[1], certs[2]>>  OBVIOUS
<1>5. CASE certs[1].notAfter > t  BY <1>1, <1>3, <1>4, <1>5
<1>6. CASE ~ (certs[1].notAfter > t)  BY <1>1, <1>3, <1>6
<1> QED  BY <1>5, <1>6

\* A rotation deadline is at most the one of each list's last certificate, and lies in
\* the future exactly when no list is empty and all these lie in the future.
LEMMA RotationDeadlineOf ==
    ASSUME NEW lists \in SUBSET Seq(Certificate), NEW overlap \in Nat, NEW t \in Nat
    PROVE  /\ RotationDeadline(lists, overlap) \in Int
           /\ << >> \notin lists
                => \A l \in lists : RotationDeadline(lists, overlap) <= l[Len(l)].notAfter - overlap
           /\ lists # {}
                => (t < RotationDeadline(lists, overlap)
                      <=> \A l \in lists : l # << >> /\ t < l[Len(l)].notAfter - overlap)
<1>1. CASE << >> \in lists
  BY <1>1 DEF RotationDeadline, ZeroTime
<1>2. CASE lists = {}
  BY <1>2 DEF RotationDeadline, ZeroTime, minTime
<1>3. CASE << >> \notin lists /\ lists # {}
  <2> DEFINE S == {nextRotationDeadlineForCert(getLastCert(l), overlap) : l \in lists}
  <2>1. ASSUME NEW l \in lists
        PROVE  /\ l[Len(l)].notAfter \in Nat
               /\ nextRotationDeadlineForCert(getLastCert(l), overlap) = l[Len(l)].notAfter - overlap
    <3>1. l # << >> /\ l \in Seq(Certificate)  BY <1>3
    <3>2. l[Len(l)] \in Certificate  BY <3>1
    <3>3. l[Len(l)].notBefore \in Nat /\ l[Len(l)].notAfter \in Nat  BY <3>2 DEF Certificate
    <3> QED  BY <3>1, <3>3 DEF nextRotationDeadlineForCert, getLastCert
  <2>2. S \in SUBSET Int /\ S # {} /\ \A u \in S : 0 - overlap <= u
    BY <1>3, <2>1
  <2>3. RotationDeadline(lists, overlap) = minTime(S)
    BY <1>3 DEF RotationDeadline
  <2>4. \A l \in lists : l[Len(l)].notAfter - overlap \in S
    BY <2>1
  <2>5. \A u \in S : \E l \in lists : u = l[Len(l)].notAfter - overlap
    BY <2>1
  <2> HIDE DEF S
  <2>6. minTime(S) \in S /\ \A u \in S : minTime(S) <= u
    <3>1. PICK lo \in Int : lo = 0 - overlap  OBVIOUS
    <3>2. \A u \in S : lo <= u  BY <2>2, <3>1
    <3> QED  BY <2>2, <3>2, MinTime
  <2>7. RotationDeadline(lists, overlap) \in Int
    BY <2>2, <2>3, <2>6
  <2>8. \A l \in lists : RotationDeadline(lists, overlap) <= l[Len(l)].notAfter - overlap
    BY <2>3, <2>4, <2>6
  <2>9. ASSUME \A l \in lists : t < l[Len(l)].notAfter - overlap
        PROVE  t < RotationDeadline(lists, overlap)
    BY <2>3, <2>5, <2>6, <2>9
  <2>10. ASSUME t < RotationDeadline(lists, overlap), NEW l \in lists
         PROVE  l # << >> /\ t < l[Len(l)].notAfter - overlap
    BY <1>3, <2>1, <2>7, <2>8, <2>10
  <2> QED  BY <2>7, <2>8, <2>9, <2>10
<1> QED  BY <1>1, <1>2, <1>3

\* A cleanup deadline is at most the expiry of each certificate, and lies in the future
\* exactly when all these do.
LEMMA CleanUpDeadlineOf ==
    ASSUME NEW lists \in SUBSET Seq(Certificate), NEW t \in Nat
    PROVE  /\ findCleanUpDeadlineForCertList(lists) \in Nat
           /\ \A l \in lists : \A n \in DOMAIN l :
                findCleanUpDeadlineForCertList(lists) <= l[n].notAfter
           /\ (\E l \in lists : l # << >>) /\ (\A l \in lists : \A n \in DOMAIN l : t < l[n].notAfter)
                => t < findCleanUpDeadlineForCertList(lists)
<1> DEFINE S == UNION {{l[n].notAfter : n \in DOMAIN l} : l \in lists}
<1>1. ASSUME NEW l \in lists, NEW n \in DOMAIN l PROVE l[n].notAfter \in Nat /\ l[n].notAfter \in S
  <2>1. l \in Seq(Certificate)  OBVIOUS
  <2>2. l[n] \in Certificate  BY <2>1
  <2> QED  BY <2>2 DEF Certificate
<1>2. ASSUME NEW u \in S PROVE \E l \in lists : \E n \in DOMAIN l : u = l[n].notAfter
  OBVIOUS
<1>3. findCleanUpDeadlineForCertList(lists) = minTime(S)
  BY DEF findCleanUpDeadlineForCertList
<1> HIDE DEF S
<1>4. S \in SUBSET Nat  BY <1>1, <1>2
<1>5. CASE S = {}
  <2>1. \A l \in lists : l = << >>
    <3> SUFFICES ASSUME NEW l \in lists, l # << >> PROVE FALSE
      OBVIOUS
    <3>1. l \in Seq(Certificate)  OBVIOUS
    <3>2. 1 \in DOMAIN l  BY <3>1
    <3> QED  BY <1>1, <1>5, <3>2
  <2>2. minTime(S) = 0  BY <1>5 DEF minTime, ZeroTime
  <2> QED  BY <1>1, <1>3, <1>5, <2>1, <2>2
<1>6. CASE S # {}
  <2>1. S \in SUBSET Int /\ \A u \in S : 0 <= u  BY <1>4
  <2>2. minTime(S) \in S /\ \A u \in S : minTime(S) <= u
    BY <1>6, <2>1, MinTime
  <2>3. minTime(S) \in Nat  BY <1>4, <2>2
  <2>4. \A l \in lists : \A n \in DOMAIN l : minTime(S) <= l[n].notAfter
    BY <1>1, <2>2
  <2>5. ASSUME \A l \in lists : \A n \in DOMAIN l : t < l[n].notAfter PROVE t < minTime(S)
    BY <1>2, <2>2, <2>5
  <2> QED  BY <1>3, <2>3, <2>4, <2>5
<1> QED  BY <1>5, <1>6

------------------------------------------------------------------------------------
(* What rotation establishes. Times in the past are not after t.                    *)

\* Holds of the stored chain at all times t: the CA signed all the certificates issued,
\* a service's key is the one of the last certificate of its list, and all
\* certificates are valid already.
Consistent(d, t) ==
    /\ d.ca.key # NoKey =>
         /\ d.ca.cert.key = d.ca.key
         /\ \A i \in Issues : \A n \in DOMAIN d.issued[i].certs :
              d.issued[i].certs[n].signer = d.ca.key
    /\ d.ca.cert.notBefore <= t
    /\ \A b \in Bundles : \A n \in DOMAIN d.caCerts[b] :
         d.caCerts[b][n].key # NoKey /\ d.caCerts[b][n].notBefore <= t
    /\ \A i \in Issues :
         /\ \A n \in DOMAIN d.issued[i].certs : d.issued[i].certs[n].notBefore <= t
         /\ d.issued[i].key # NoKey /\ d.issued[i].certs # << >>
              => d.issued[i].certs[Len(d.issued[i].certs)].key = d.issued[i].key

\* Nothing is missing, and every bundle ends with the CA's certificate.
Established(d) ==
    /\ d.ca.key # NoKey
    /\ \A b \in Bundles : /\ d.caCerts[b] # << >>
                          /\ d.caCerts[b][Len(d.caCerts[b])] = d.ca.cert
    /\ \A i \in Issues : d.issued[i].key # NoKey /\ d.issued[i].certs # << >>

\* The CA's certificate, and the last certificate of every issue, are not in their
\* overlap window.
CAFresh(d, t) == t < d.ca.cert.notAfter - CAOverlapInterval

CertsFresh(d, t) ==
    \A i \in Issues :
        t < d.issued[i].certs[Len(d.issued[i].certs)].notAfter - CertOverlapInterval

\* The bundles of e contain the unexpired certificates of those of d.
Retained(d, e, t) ==
    \A b \in Bundles : \A m \in DOMAIN d.caCerts[b] :
        d.caCerts[b][m].notAfter > t
            => \E n \in DOMAIN e.caCerts[b] : e.caCerts[b][n] = d.caCerts[b][m]

\* The bundles of e have nothing but certificates of those of d and the CA's of e.
OnlyCAAdded(d, e) ==
    \A b \in Bundles : \A n \in DOMAIN e.caCerts[b] :
        \/ e.caCerts[b][n] = e.ca.cert
        \/ \E m \in DOMAIN d.caCerts[b] : e.caCerts[b][n] = d.caCerts[b][m]

\* The members of chain data.
LEMMA ChainTypes ==
    ASSUME NEW d \in CertificateChainData
    PROVE  /\ d = [ca |-> d.ca, issued |-> d.issued, caCerts |-> d.caCerts]
           /\ d.ca.key \in Nat
           /\ d.ca.cert \in Certificate
           /\ d.ca = [key |-> d.ca.key, cert |-> d.ca.cert]
           /\ DOMAIN d.issued = Issues
           /\ DOMAIN d.caCerts = Bundles
           /\ \A i \in Issues : /\ d.issued[i].key \in Nat
                                /\ d.issued[i].certs \in Seq(Certificate)
                                /\ d.issued[i] = [key |-> d.issued[i].key, certs |-> d.issued[i].certs]
           /\ \A b \in Bundles : d.caCerts[b] \in Seq(Certificate)
BY DEF CertificateChainData, CA, CertificateIssue

\* The members of a list of certificates.
LEMMA ListTypes ==
    ASSUME NEW l \in Seq(Certificate)
    PROVE  /\ \A n \in DOMAIN l : /\ l[n] \in Certificate
                                  /\ l[n].notBefore \in Nat
                                  /\ l[n].notAfter \in Nat
           /\ l # << >> => 1 \in DOMAIN l /\ Len(l) \in DOMAIN l
<1>1. \A n \in DOMAIN l : l[n] \in Certificate  OBVIOUS
<1>2. l # << >> => 1 \in DOMAIN l /\ Len(l) \in DOMAIN l  OBVIOUS
<1> QED  BY <1>1, <1>2 DEF Certificate

LEMMA BundleTypes ==
    ASSUME NEW d \in CertificateChainData, NEW b \in Bundles
    PROVE  /\ \A n \in DOMAIN d.caCerts[b] : /\ d.caCerts[b][n] \in Certificate
                                             /\ d.caCerts[b][n].notBefore \in Nat
                                             /\ d.caCerts[b][n].notAfter \in Nat
           /\ d.caCerts[b] # << >> =>
                1 \in DOMAIN d.caCerts[b] /\ Len(d.caCerts[b]) \in DOMAIN d.caCerts[b]
<1>1. d.caCerts[b] \in Seq(Certificate)  BY ChainTypes
<1> QED  BY <1>1, ListTypes

LEMMA IssueTypes ==
    ASSUME NEW d \in CertificateChainData, NEW i \in Issues
    PROVE  /\ \A n \in DOMAIN d.issued[i].certs : /\ d.issued[i].certs[n] \in Certificate
                                                  /\ d.issued[i].certs[n].notBefore \in Nat
                                                  /\ d.issued[i].certs[n].notAfter \in Nat
           /\ d.issued[i].certs # << >> =>
                /\ 1 \in DOMAIN d.issued[i].certs
                /\ Len(d.issued[i].certs) \in DOMAIN d.issued[i].certs
<1>1. d.issued[i].certs \in Seq(Certificate)  BY ChainTypes
<1> QED  BY <1>1, ListTypes

\* Decoding keeps the bundles and whatever is complete.
LEMMA NewChain ==
    ASSUME NEW d \in CertificateChainData, NEW t \in Nat, Consistent(d, t)
    PROVE  /\ newChain(d) \in CertificateChainData
           /\ Consistent(newChain(d), t)
           /\ newChain(d).caCerts = d.caCerts
           /\ newChain(d).ca.key = NoKey => newChain(d).ca.cert = NoCert
<1> DEFINE e == newChain(d)
<1>1. NoCert \in Certificate /\ NoKey \in Nat /\ NoCert.notBefore = 0
  BY DEF NoCert, NoKey, ZeroTime, Certificate
<1>2. e.ca \in CA
  <2>1. d.ca \in CA  BY DEF CertificateChainData
  <2>2. [key |-> NoKey, cert |-> NoCert] \in CA  BY <1>1 DEF CA
  <2> QED  BY <2>1, <2>2 DEF newChain
<1>3. ASSUME NEW i \in Issues
      PROVE  /\ e.issued[i] \in CertificateIssue
             /\ \/ e.issued[i].certs = << >>
                \/ e.issued[i] = d.issued[i]
  <2>1. d.issued[i] \in CertificateIssue /\ i \in DOMAIN d.issued
    BY DEF CertificateChainData
  <2>2. [key |-> NoKey, certs |-> << >>] \in CertificateIssue  BY <1>1 DEF CertificateIssue
  <2>3. e.issued[i] = IF d.issued[i].key = NoKey \/ d.issued[i].certs = << >>
                        THEN [key |-> NoKey, certs |-> << >>]
                        ELSE d.issued[i]
    BY <2>1 DEF newChain
  <2> HIDE DEF e
  <2> QED  BY <2>1, <2>2, <2>3
<1>4. e.caCerts = d.caCerts /\ e.issued = [i \in Issues |-> e.issued[i]]
  BY ChainTypes DEF newChain
<1>5. e = [ca |-> e.ca, issued |-> e.issued, caCerts |-> e.caCerts]
  BY DEF newChain
<1>6. e \in CertificateChainData
  <2> HIDE DEF e
  <2>1. e.issued \in [Issues -> CertificateIssue]  BY <1>3, <1>4
  <2>2. e.caCerts \in [Bundles -> Seq(Certificate)]  BY <1>4 DEF CertificateChainData
  <2> QED  BY <1>2, <1>5, <2>1, <2>2 DEF CertificateChainData
<1>7. \/ e.ca = d.ca
      \/ e.ca.key = NoKey /\ e.ca.cert = NoCert
  BY DEF newChain
<1>8. Consistent(e, t)
  <2> HIDE DEF e
  <2> QED  BY <1>1, <1>3, <1>4, <1>7 DEF Consistent
<1>9. e.ca.key = NoKey => e.ca.cert = NoCert
  BY DEF newChain
<1> QED  BY <1>4, <1>6, <1>8, <1>9

\* A new CA is valid from now on and not in its overlap window.
LEMMA NewCAProperties ==
    ASSUME NEW serial \in Nat \ {0}, NEW t \in Nat
    PROVE  LET k == NewCA(serial, t, CARotateInterval)
           IN  /\ k \in CA
               /\ k.key = serial /\ k.cert.key = serial
               /\ k.cert.notBefore <= t
               /\ t < k.cert.notAfter - CAOverlapInterval
<1>1. CARotateInterval \in Nat /\ CAOverlapInterval \in Nat /\ Second \in Nat
      /\ Second <= CARotateInterval - CAOverlapInterval
  BY OptionsAssumption, GranularityAssumption
<1>2. Truncate(t) \in Nat /\ Truncate(t) <= t  BY TruncateBounds
<1>3. /\ Truncate(t + CARotateInterval) \in Nat
      /\ t + CARotateInterval < Truncate(t + CARotateInterval) + Second
  BY <1>1, TruncateBounds
<1> QED  BY <1>1, <1>2, <1>3 DEF NewCA, NewSelfSignedCACert, CA, Certificate

\* A new server certificate is signed by the CA, is valid since the CA is and is not in
\* its overlap window.
LEMMA NewServerKeyPairProperties ==
    ASSUME NEW ca \in CA, NEW serial \in Nat \ {0}, NEW t \in Nat
    PROVE  LET k == NewServerKeyPair(ca, serial, t, CertRotateInterval)
           IN  /\ k.key = serial /\ k.cert.key = serial
               /\ k.cert \in Certificate
               /\ k.cert.signer = ca.key
               /\ k.cert.notBefore = ca.cert.notBefore
               /\ t < k.cert.notAfter - CertOverlapInterval
<1>1. CertRotateInterval \in Nat /\ CertOverlapInterval \in Nat /\ Second \in Nat
      /\ Second <= CertRotateInterval - CertOverlapInterval
  BY OptionsAssumption, GranularityAssumption
<1>2. /\ Truncate(t + CertRotateInterval) \in Nat
      /\ t + CertRotateInterval < Truncate(t + CertRotateInterval) + Second
  BY <1>1, TruncateBounds
<1>3. ca.key \in Nat /\ ca.cert.notBefore \in Nat  BY DEF CA, Certificate
<1> QED  BY <1>1, <1>2, <1>3 DEF NewServerKeyPair, NewSignedCert, Certificate

\* What appending to a list of certificates does.
LEMMA AppendCert ==
    ASSUME NEW certs \in Seq(Certificate), NEW c \in Certificate
    PROVE  LET l == Append(certs, c)
           IN  /\ l \in Seq(Certificate)
               /\ l # << >>
               /\ l[Len(l)] = c
               /\ \A m \in DOMAIN certs : m \in DOMAIN l /\ l[m] = certs[m]
               /\ \A n \in DOMAIN l : l[n] = c \/ (n \in DOMAIN certs /\ l[n] = certs[n])
<1> DEFINE l == Append(certs, c)
<1>1. l \in Seq(Certificate)  OBVIOUS
<1>2. Len(l) = Len(certs) + 1  OBVIOUS
<1>3. l[Len(l)] = c  BY <1>2
<1>4. \A m \in DOMAIN certs : m \in DOMAIN l /\ l[m] = certs[m]  OBVIOUS
<1>5. \A n \in DOMAIN l : l[n] = c \/ (n \in DOMAIN certs /\ l[n] = certs[n])  OBVIOUS
<1>6. l # << >>
  <2> HIDE DEF l
  <2> QED  BY <1>1, <1>2
<1> QED  BY <1>1, <1>3, <1>4, <1>5, <1>6

\* A rotation of the CA establishes a chain, whatever it started from.
LEMMA RotateAll ==
    ASSUME NEW d \in CertificateChainData, NEW serial \in Nat \ {0}, NEW t \in Nat,
           Consistent(d, t)
    PROVE  LET e == rotateAll(d, serial, t)
           IN  /\ e \in CertificateChainData
               /\ Consistent(e, t)
               /\ Established(e)
               /\ CAFresh(e, t)
               /\ CertsFresh(e, t)
               /\ Retained(d, e, t)
               /\ OnlyCAAdded(d, e)
<1> DEFINE e == rotateAll(d, serial, t)
           ca == NewCA(serial, t, CARotateInterval)
           kp == NewServerKeyPair(ca, serial, t, CertRotateInterval)
<1>1. /\ e.ca = ca
      /\ e.issued = [i \in Issues |-> [key |-> kp.key, certs |-> <<kp.cert>>]]
      /\ e.caCerts = [b \in Bundles |-> Append(d.caCerts[b], ca.cert)]
      /\ e = [ca |-> e.ca, issued |-> e.issued, caCerts |-> e.caCerts]
  <2> DEFINE f == setCaKeyPair(d, ca)
  <2>1. DOMAIN d.issued = Issues /\ DOMAIN d.caCerts = Bundles  BY ChainTypes
  <2>2. f = [ca |-> ca, issued |-> d.issued,
             caCerts |-> [b \in Bundles |-> Append(d.caCerts[b], ca.cert)]]
    BY <2>1 DEF setCaKeyPair
  <2>3. e = [f EXCEPT !.issued = [i \in DOMAIN f.issued |->
               setKeyResetCert(f.issued[i], NewServerKeyPair(f.ca, serial, t, CertRotateInterval))]]
    BY DEF rotateAll, rotateCertsWithoutOverlap
  <2> HIDE DEF e, f, ca
  <2>4. f.ca = ca /\ DOMAIN f.issued = Issues  BY <2>1, <2>2
  <2>5. e = [f EXCEPT !.issued = [i \in Issues |-> [key |-> kp.key, certs |-> <<kp.cert>>]]]
    BY <2>3, <2>4 DEF setKeyResetCert
  <2> HIDE DEF kp
  <2> QED  BY <2>2, <2>5
<1>2. /\ ca \in CA
      /\ ca.key = serial /\ ca.cert.key = serial
      /\ ca.cert.notBefore <= t
      /\ t < ca.cert.notAfter - CAOverlapInterval
  BY NewCAProperties
<1>3. /\ kp.key = serial /\ kp.cert.key = serial
      /\ kp.cert \in Certificate
      /\ kp.cert.signer = ca.key
      /\ kp.cert.notBefore = ca.cert.notBefore
      /\ t < kp.cert.notAfter - CertOverlapInterval
  <2> HIDE DEF ca
  <2> QED  BY <1>2, NewServerKeyPairProperties
<1> HIDE DEF e, ca, kp
<1>4. ca.cert \in Certificate /\ serial # NoKey /\ serial \in Nat  BY <1>2 DEF CA, NoKey
<1>5. \A b \in Bundles : d.caCerts[b] \in Seq(Certificate)  BY ChainTypes
<1>6. ASSUME NEW b \in Bundles
      PROVE  /\ e.caCerts[b] \in Seq(Certificate)
             /\ e.caCerts[b] # << >>
             /\ e.caCerts[b][Len(e.caCerts[b])] = ca.cert
             /\ \A m \in DOMAIN d.caCerts[b] :
                  m \in DOMAIN e.caCerts[b] /\ e.caCerts[b][m] = d.caCerts[b][m]
             /\ \A n \in DOMAIN e.caCerts[b] :
                  e.caCerts[b][n] = ca.cert
                    \/ (n \in DOMAIN d.caCerts[b] /\ e.caCerts[b][n] = d.caCerts[b][n])
  <2>1. e.caCerts[b] = Append(d.caCerts[b], ca.cert)  BY <1>1
  <2> QED  BY <2>1, <1>4, <1>5, AppendCert
<1>7. ASSUME NEW i \in Issues
      PROVE  /\ e.issued[i] \in CertificateIssue
             /\ e.issued[i].key = serial
             /\ e.issued[i].certs # << >>
             /\ Len(e.issued[i].certs) = 1
             /\ \A n \in DOMAIN e.issued[i].certs : e.issued[i].certs[n] = kp.cert
             /\ e.issued[i].certs[1] = kp.cert
  <2>1. e.issued[i] = [key |-> serial, certs |-> <<kp.cert>>]  BY <1>1, <1>3
  <2>2. /\ <<kp.cert>> \in Seq(Certificate)
        /\ Len(<<kp.cert>>) = 1 /\ <<kp.cert>>[1] = kp.cert
        /\ DOMAIN <<kp.cert>> = {1}
        /\ <<kp.cert>> # << >>
    BY <1>3
  <2>3. e.issued[i] \in CertificateIssue  BY <1>4, <2>1, <2>2 DEF CertificateIssue
  <2> QED  BY <2>1, <2>2, <2>3
<1>8. e \in CertificateChainData
  <2>1. e.issued \in [Issues -> CertificateIssue]  BY <1>1, <1>7
  <2>2. e.caCerts \in [Bundles -> Seq(Certificate)]  BY <1>1, <1>6
  <2> QED  BY <1>1, <1>2, <2>1, <2>2 DEF CertificateChainData
<1>9. Consistent(e, t)
  <2>1. e.ca.cert.key = e.ca.key /\ e.ca.cert.notBefore <= t  BY <1>1, <1>2
  <2>2. ASSUME NEW b \in Bundles, NEW n \in DOMAIN e.caCerts[b]
        PROVE  e.caCerts[b][n].key # NoKey /\ e.caCerts[b][n].notBefore <= t
    BY <1>2, <1>4, <1>6 DEF Consistent
  <2>3. ASSUME NEW i \in Issues
        PROVE  /\ \A n \in DOMAIN e.issued[i].certs :
                    /\ e.issued[i].certs[n].signer = e.ca.key
                    /\ e.issued[i].certs[n].notBefore <= t
               /\ e.issued[i].certs[Len(e.issued[i].certs)].key = e.issued[i].key
    BY <1>1, <1>2, <1>3, <1>7
  <2> QED  BY <2>1, <2>2, <2>3 DEF Consistent
<1>10. Established(e)
  BY <1>1, <1>2, <1>4, <1>6, <1>7 DEF Established
<1>11. CAFresh(e, t) /\ CertsFresh(e, t)
  BY <1>1, <1>2, <1>3, <1>7 DEF CAFresh, CertsFresh
<1>12. Retained(d, e, t)
  BY <1>6 DEF Retained
<1>13. OnlyCAAdded(d, e)
  BY <1>1, <1>6 DEF OnlyCAAdded
<1> QED  BY <1>8, <1>9, <1>10, <1>11, <1>12, <1>13 DEF e

\* A rotation of the certificates only, under a CA that need not be rotated.
LEMMA RotateCerts ==
    ASSUME NEW d \in CertificateChainData, NEW serial \in Nat \ {0}, NEW t \in Nat,
           Consistent(d, t), Established(d), CAFresh(d, t)
    PROVE  LET e == rotateCertsWithOverlap(d, serial, t)
           IN  /\ e \in CertificateChainData
               /\ Consistent(e, t)
               /\ Established(e)
               /\ CAFresh(e, t)
               /\ CertsFresh(e, t)
               /\ e.caCerts = d.caCerts
<1> DEFINE e == rotateCertsWithOverlap(d, serial, t)
           kp == NewServerKeyPair(d.ca, serial, t, CertRotateInterval)
<1>1. /\ e.ca = d.ca
      /\ e.issued = [i \in Issues |-> [key |-> kp.key, certs |-> Append(d.issued[i].certs, kp.cert)]]
      /\ e.caCerts = d.caCerts
      /\ e = [ca |-> e.ca, issued |-> e.issued, caCerts |-> e.caCerts]
  <2>1. DOMAIN d.issued = Issues  BY ChainTypes
  <2>2. e = [d EXCEPT !.issued =
               [i \in Issues |-> [key |-> kp.key, certs |-> Append(d.issued[i].certs, kp.cert)]]]
    BY <2>1 DEF rotateCertsWithOverlap, setKeyAppendCert
  <2>3. d = [ca |-> d.ca, issued |-> d.issued, caCerts |-> d.caCerts]  BY ChainTypes
  <2> HIDE DEF e, kp
  <2> QED  BY <2>2, <2>3
<1>2. d.ca \in CA  BY DEF CertificateChainData
<1>3. /\ kp.key = serial /\ kp.cert.key = serial
      /\ kp.cert \in Certificate
      /\ kp.cert.signer = d.ca.key
      /\ kp.cert.notBefore = d.ca.cert.notBefore
      /\ t < kp.cert.notAfter - CertOverlapInterval
  BY <1>2, NewServerKeyPairProperties
<1> HIDE DEF e, kp
<1>4. serial # NoKey /\ serial \in Nat  BY DEF NoKey
<1>5. ASSUME NEW i \in Issues
      PROVE  /\ e.issued[i] \in CertificateIssue
             /\ e.issued[i].key = serial
             /\ e.issued[i].certs # << >>
             /\ e.issued[i].certs[Len(e.issued[i].certs)] = kp.cert
             /\ \A n \in DOMAIN e.issued[i].certs :
                  e.issued[i].certs[n] = kp.cert
                    \/ (n \in DOMAIN d.issued[i].certs
                          /\ e.issued[i].certs[n] = d.issued[i].certs[n])
  <2>1. e.issued[i] = [key |-> serial, certs |-> Append(d.issued[i].certs, kp.cert)]
    BY <1>1, <1>3
  <2>2. d.issued[i].certs \in Seq(Certificate)  BY ChainTypes
  <2>3. e.issued[i] \in CertificateIssue  BY <1>3, <1>4, <2>1, <2>2 DEF CertificateIssue
  <2>4. e.issued[i].key = serial /\ e.issued[i].certs = Append(d.issued[i].certs, kp.cert)
    BY <2>1
  <2> DEFINE l == e.issued[i].certs
  <2>5. /\ l # << >>
        /\ l[Len(l)] = kp.cert
        /\ \A n \in DOMAIN l :
             l[n] = kp.cert
               \/ (n \in DOMAIN d.issued[i].certs /\ l[n] = d.issued[i].certs[n])
    <3>1. l = Append(d.issued[i].certs, kp.cert)  BY <2>4
    <3> HIDE DEF l
    <3> QED  BY <1>3, <2>2, <3>1, AppendCert
  <2> QED  BY <2>3, <2>4, <2>5
<1>6. e \in CertificateChainData
  <2>1. e.issued \in [Issues -> CertificateIssue]  BY <1>1, <1>5
  <2> QED  BY <1>1, <1>2, <2>1 DEF CertificateChainData
<1>7. Consistent(e, t)
  <2>1. d.ca.key # NoKey  BY DEF Established
  <2>2. ASSUME NEW i \in Issues, NEW n \in DOMAIN e.issued[i].certs
        PROVE  e.issued[i].certs[n].signer = d.ca.key /\ e.issued[i].certs[n].notBefore <= t
    BY <1>3, <1>5, <2>1 DEF Consistent
  <2>3. \A i \in Issues : e.issued[i].certs[Len(e.issued[i].certs)].key = e.issued[i].key
    BY <1>3, <1>5
  <2> QED  BY <1>1, <2>1, <2>2, <2>3 DEF Consistent
<1>8. Established(e)
  BY <1>1, <1>4, <1>5 DEF Established
<1>9. CAFresh(e, t) /\ CertsFresh(e, t)
  BY <1>1, <1>3, <1>5 DEF CAFresh, CertsFresh
<1> QED  BY <1>1, <1>6, <1>7, <1>8, <1>9 DEF e

\* A chain that verifies outside of the overlap window of its CA is established.
LEMMA NoRotationNeeded ==
    ASSUME NEW d \in CertificateChainData, NEW t \in Nat, Issues # {},
           Consistent(d, t), d.ca.key = NoKey => d.ca.cert = NoCert, ~ mustRotateCA(d, t)
    PROVE  /\ Established(d)
           /\ CAFresh(d, t)
           /\ ~ mustRotateCerts(d, t) => CertsFresh(d, t)
<1>1. Bundles # {} /\ \A i \in Issues : \E b \in Bundles : IssueOf[b] = i
  BY BundlesAssumption
<1>2. BundleLists(d) \in SUBSET Seq(Certificate) /\ BundleLists(d) # {}
      /\ \A b \in Bundles : d.caCerts[b] \in BundleLists(d)
  <2>1. DOMAIN d.caCerts = Bundles /\ \A b \in Bundles : d.caCerts[b] \in Seq(Certificate)
    BY ChainTypes
  <2> QED  BY <1>1, <2>1 DEF BundleLists
<1>3. t < RotationDeadline(BundleLists(d), CAOverlapInterval)
  <2>1. RotationDeadline(BundleLists(d), CAOverlapInterval) \in Int
    BY <1>2, OptionsAssumption, RotationDeadlineOf
  <2> QED  BY <2>1 DEF mustRotateCA, findRotationDeadlineForCA
<1>4. \A b \in Bundles :
        /\ d.caCerts[b] # << >>
        /\ t < d.caCerts[b][Len(d.caCerts[b])].notAfter - CAOverlapInterval
  <2>1. CAOverlapInterval \in Nat  BY OptionsAssumption
  <2>2. \A l \in BundleLists(d) : l # << >> /\ t < l[Len(l)].notAfter - CAOverlapInterval
    BY <1>2, <1>3, <2>1, RotationDeadlineOf
  <2> QED  BY <1>2, <2>2
<1>5. \A b \in Bundles :
        /\ getLastCert(d.caCerts[b]) = d.ca.cert
        /\ d.issued[IssueOf[b]].key # NoKey
        /\ d.issued[IssueOf[b]].certs # << >>
  BY ChainTypes DEF mustRotateCA, verifyTLS, VerifyTLS
<1>6. \A b \in Bundles : d.caCerts[b][Len(d.caCerts[b])] = d.ca.cert
  BY <1>4, <1>5 DEF getLastCert
<1>7. CAFresh(d, t)
  BY <1>1, <1>4, <1>6 DEF CAFresh
<1>8. d.ca.key # NoKey
  <2>1. PICK b \in Bundles : TRUE  BY <1>1
  <2>2. Len(d.caCerts[b]) \in DOMAIN d.caCerts[b]  BY <1>4, ChainTypes
  <2>3. d.ca.cert.key # NoKey  BY <1>6, <2>2 DEF Consistent
  <2>4. NoCert.key = NoKey  BY DEF NoCert
  <2> QED  BY <2>3, <2>4
<1>9. Established(d)
  BY <1>1, <1>4, <1>5, <1>6, <1>8 DEF Established
<1>10. ASSUME ~ mustRotateCerts(d, t) PROVE CertsFresh(d, t)
  <2>1. CertLists(d) \in SUBSET Seq(Certificate) /\ CertLists(d) # {}
        /\ \A i \in Issues : d.issued[i].certs \in CertLists(d)
    <3>1. DOMAIN d.issued = Issues /\ \A i \in Issues : d.issued[i].certs \in Seq(Certificate)
      BY ChainTypes
    <3> QED  BY <3>1 DEF CertLists
  <2>2. t < RotationDeadline(CertLists(d), CertOverlapInterval)
    <3>1. RotationDeadline(CertLists(d), CertOverlapInterval) \in Int
      BY <2>1, OptionsAssumption, RotationDeadlineOf
    <3> QED  BY <1>10, <3>1 DEF mustRotateCerts, findRotationDeadlineForCerts
  <2>3. CertOverlapInterval \in Nat  BY OptionsAssumption
  <2>4. \A l \in CertLists(d) : l # << >> /\ t < l[Len(l)].notAfter - CertOverlapInterval
    BY <2>1, <2>2, <2>3, RotationDeadlineOf
  <2> QED  BY <2>1, <2>4 DEF CertsFresh
<1> QED  BY <1>7, <1>9, <1>10

\* The rotation step of update establishes a chain.
LEMMA Rotate ==
    ASSUME NEW d \in CertificateChainData, NEW serial \in Nat \ {0}, NEW t \in Nat, Issues # {},
           Consistent(d, t), d.ca.key = NoKey => d.ca.cert = NoCert
    PROVE  LET e == rotate(d, serial, t)
           IN  /\ e \in CertificateChainData
               /\ Consistent(e, t)
               /\ Established(e)
               /\ CAFresh(e, t)
               /\ CertsFresh(e, t)
               /\ Retained(d, e, t)
               /\ OnlyCAAdded(d, e)
<1>1. CASE mustRotateCA(d, t)
  BY <1>1, RotateAll DEF rotate
<1>2. CASE ~ mustRotateCA(d, t) /\ mustRotateCerts(d, t)
  <2>1. Established(d) /\ CAFresh(d, t)  BY <1>2, NoRotationNeeded
  <2>2. rotate(d, serial, t) = rotateCertsWithOverlap(d, serial, t)  BY <1>2 DEF rotate
  <2> QED  BY <2>1, <2>2, RotateCerts DEF Retained, OnlyCAAdded
<1>3. CASE ~ mustRotateCA(d, t) /\ ~ mustRotateCerts(d, t)
  <2>1. Established(d) /\ CAFresh(d, t) /\ CertsFresh(d, t)  BY <1>3, NoRotationNeeded
  <2>2. rotate(d, serial, t) = d  BY <1>3 DEF rotate
  <2> QED  BY <2>1, <2>2 DEF Retained, OnlyCAAdded
<1> QED  BY <1>1, <1>2, <1>3

------------------------------------------------------------------------------------
(* What cleanup preserves, and what update establishes.                             *)

\* A list whose last certificate is unexpired is left with its unexpired certificates.
LEMMA CleanUpFresh ==
    ASSUME NEW certs \in Seq(Certificate), NEW t \in Nat, NEW o \in Nat,
           certs # << >>, t < certs[Len(certs)].notAfter - o
    PROVE  LET kept == cleanUpCertificateList(certs, t)
           IN  /\ kept \in Seq(Certificate)
               /\ kept # << >>
               /\ kept[Len(kept)] = certs[Len(certs)]
               /\ \A j \in DOMAIN kept : t < kept[j].notAfter
               /\ \A j \in DOMAIN kept : \E m \in DOMAIN certs : kept[j] = certs[m]
               /\ \A m \in DOMAIN certs :
                    certs[m].notAfter > t => \E j \in DOMAIN kept : kept[j] = certs[m]
<1> DEFINE kept == cleanUpCertificateList(certs, t)
<1>1. certs[Len(certs)] \in Certificate  OBVIOUS
<1>2. certs[Len(certs)].notAfter > t  BY <1>1 DEF Certificate
<1>3. /\ kept \in Seq(Certificate)
      /\ \A j \in DOMAIN kept : \E m \in DOMAIN certs : kept[j] = certs[m]
      /\ Len(certs) > 1 => \A j \in DOMAIN kept : kept[j].notAfter > t
      /\ \A m \in DOMAIN certs :
           certs[m].notAfter > t => \E j \in DOMAIN kept : kept[j] = certs[m]
      /\ kept # << >> /\ kept[Len(kept)] = certs[Len(certs)]
  BY <1>2, CleanUpList
<1>4. ASSUME NEW j \in DOMAIN kept PROVE t < kept[j].notAfter
  <2>1. CASE Len(certs) > 1
    <3>1. kept[j] \in Certificate  BY <1>3
    <3> QED  BY <1>3, <2>1, <3>1 DEF Certificate
  <2>2. CASE Len(certs) <= 1
    <3>1. kept = certs  BY <2>2 DEF cleanUpCertificateList
    <3>2. j = Len(certs)  BY <2>2, <3>1
    <3> QED  BY <1>1, <1>2, <3>1, <3>2 DEF Certificate
  <2> QED  BY <2>1, <2>2
<1> QED  BY <1>3, <1>4

LEMMA CleanUpCA ==
    ASSUME NEW d \in CertificateChainData, NEW t \in Nat, Issues # {},
           Consistent(d, t), Established(d), CAFresh(d, t)
    PROVE  LET e == cleanUpCA(d, t)
           IN  /\ e \in CertificateChainData
               /\ Consistent(e, t)
               /\ Established(e)
               /\ e.ca = d.ca
               /\ e.issued = d.issued
               /\ \A b \in Bundles : \A n \in DOMAIN e.caCerts[b] : t < e.caCerts[b][n].notAfter
               /\ Retained(d, e, t)
               /\ OnlyCAAdded(d, e)
<1> DEFINE e == cleanUpCA(d, t)
           L == BundleLists(d)
<1>1. DOMAIN d.caCerts = Bundles /\ \A b \in Bundles : d.caCerts[b] \in Seq(Certificate)
  BY ChainTypes
<1>2. CASE t < findCleanUpDeadlineForCACerts(d)
  <2>1. L \in SUBSET Seq(Certificate) /\ \A b \in Bundles : d.caCerts[b] \in L
    BY <1>1 DEF BundleLists
  <2>2. /\ findCleanUpDeadlineForCACerts(d) \in Nat
        /\ \A l \in L : \A n \in DOMAIN l : findCleanUpDeadlineForCACerts(d) <= l[n].notAfter
    BY <2>1, CleanUpDeadlineOf DEF findCleanUpDeadlineForCACerts
  <2>3. ASSUME NEW b \in Bundles, NEW n \in DOMAIN d.caCerts[b] PROVE t < d.caCerts[b][n].notAfter
    <3>1. d.caCerts[b][n] \in Certificate  BY <1>1
    <3>2. d.caCerts[b][n].notAfter \in Nat  BY <3>1 DEF Certificate
    <3>3. findCleanUpDeadlineForCACerts(d) <= d.caCerts[b][n].notAfter  BY <2>1, <2>2
    <3> QED  BY <1>2, <2>2, <3>2, <3>3
  <2>4. e = d  BY <1>2, <2>2 DEF cleanUpCA
  <2> HIDE DEF e
  <2> QED  BY <2>3, <2>4 DEF Retained, OnlyCAAdded, e
<1>3. CASE ~ (t < findCleanUpDeadlineForCACerts(d))
  <2> DEFINE kept(b) == cleanUpCertificateList(d.caCerts[b], t)
  <2>0. findCleanUpDeadlineForCACerts(d) \in Nat
    <3>1. L \in SUBSET Seq(Certificate)  BY <1>1 DEF BundleLists
    <3> QED  BY <3>1, CleanUpDeadlineOf DEF findCleanUpDeadlineForCACerts
  <2>1. e = [d EXCEPT !.caCerts = [b \in Bundles |-> kept(b)]]
    BY <1>1, <1>3, <2>0 DEF cleanUpCA, cleanUpCACerts
  <2>2. d = [ca |-> d.ca, issued |-> d.issued, caCerts |-> d.caCerts]  BY ChainTypes
  <2> HIDE DEF e
  <2>3. /\ e.ca = d.ca /\ e.issued = d.issued /\ e.caCerts = [b \in Bundles |-> kept(b)]
        /\ e = [ca |-> e.ca, issued |-> e.issued, caCerts |-> e.caCerts]
    BY <2>1, <2>2
  <2>4. ASSUME NEW b \in Bundles
        PROVE  /\ e.caCerts[b] \in Seq(Certificate)
               /\ e.caCerts[b] # << >>
               /\ e.caCerts[b][Len(e.caCerts[b])] = d.ca.cert
               /\ \A n \in DOMAIN e.caCerts[b] :
                    /\ t < e.caCerts[b][n].notAfter
                    /\ \E m \in DOMAIN d.caCerts[b] : e.caCerts[b][n] = d.caCerts[b][m]
               /\ \A m \in DOMAIN d.caCerts[b] :
                    d.caCerts[b][m].notAfter > t
                      => \E n \in DOMAIN e.caCerts[b] : e.caCerts[b][n] = d.caCerts[b][m]
    <3>1. e.caCerts[b] = kept(b)  BY <2>3
    <3>2. /\ d.caCerts[b] # << >>
          /\ d.caCerts[b][Len(d.caCerts[b])] = d.ca.cert
          /\ t < d.caCerts[b][Len(d.caCerts[b])].notAfter - CAOverlapInterval
      BY DEF Established, CAFresh
    <3>3. CAOverlapInterval \in Nat  BY OptionsAssumption
    <3>4. d.caCerts[b] \in Seq(Certificate)  BY <1>1
    <3>5. /\ kept(b) \in Seq(Certificate)
          /\ kept(b) # << >>
          /\ kept(b)[Len(kept(b))] = d.caCerts[b][Len(d.caCerts[b])]
          /\ \A j \in DOMAIN kept(b) : t < kept(b)[j].notAfter
          /\ \A j \in DOMAIN kept(b) : \E m \in DOMAIN d.caCerts[b] :
               kept(b)[j] = d.caCerts[b][m]
          /\ \A m \in DOMAIN d.caCerts[b] :
               d.caCerts[b][m].notAfter > t => \E j \in DOMAIN kept(b) : kept(b)[j] = d.caCerts[b][m]
      BY <3>2, <3>3, <3>4, CleanUpFresh
    <3> HIDE DEF kept
    <3> QED  BY <3>1, <3>2, <3>5
  <2>5. e \in CertificateChainData
    <3>1. e.caCerts \in [Bundles -> Seq(Certificate)]  BY <2>3, <2>4
    <3> QED  BY <2>3, <3>1 DEF CertificateChainData
  <2>6. Consistent(e, t)
    <3>1. ASSUME NEW b \in Bundles, NEW n \in DOMAIN e.caCerts[b]
          PROVE  e.caCerts[b][n].key # NoKey /\ e.caCerts[b][n].notBefore <= t
      BY <2>4 DEF Consistent
    <3> QED  BY <2>3, <3>1 DEF Consistent
  <2>7. Established(e)
    BY <2>3, <2>4 DEF Established
  <2>8. Retained(d, e, t)
    BY <2>4 DEF Retained
  <2>9. OnlyCAAdded(d, e)
    BY <2>4 DEF OnlyCAAdded
  <2> QED  BY <2>3, <2>4, <2>5, <2>6, <2>7, <2>8, <2>9 DEF e
<1> QED  BY <1>2, <1>3

LEMMA CleanUpIssued ==
    ASSUME NEW d \in CertificateChainData, NEW t \in Nat, Issues # {},
           Consistent(d, t), Established(d), CertsFresh(d, t)
    PROVE  LET e == cleanUpIssued(d, t)
           IN  /\ e \in CertificateChainData
               /\ Consistent(e, t)
               /\ Established(e)
               /\ e.ca = d.ca
               /\ e.caCerts = d.caCerts
               /\ \A i \in Issues :
                    /\ e.issued[i].certs[Len(e.issued[i].certs)]
                         = d.issued[i].certs[Len(d.issued[i].certs)]
                    /\ \A n \in DOMAIN e.issued[i].certs : t < e.issued[i].certs[n].notAfter
<1> DEFINE e == cleanUpIssued(d, t)
           L == CertLists(d)
<1>1. DOMAIN d.issued = Issues /\ \A i \in Issues : d.issued[i].certs \in Seq(Certificate)
  BY ChainTypes
<1>2. L \in SUBSET Seq(Certificate) /\ \A i \in Issues : d.issued[i].certs \in L
  BY <1>1 DEF CertLists
<1>3. /\ findCleanUpDeadlineForCerts(d) \in Nat
      /\ \A l \in L : \A n \in DOMAIN l : findCleanUpDeadlineForCerts(d) <= l[n].notAfter
  BY <1>2, CleanUpDeadlineOf DEF findCleanUpDeadlineForCerts
<1>4. CASE t < findCleanUpDeadlineForCerts(d)
  <2>1. ASSUME NEW i \in Issues, NEW n \in DOMAIN d.issued[i].certs
        PROVE  t < d.issued[i].certs[n].notAfter
    <3>1. d.issued[i].certs[n] \in Certificate  BY <1>1
    <3>2. d.issued[i].certs[n].notAfter \in Nat  BY <3>1 DEF Certificate
    <3>3. findCleanUpDeadlineForCerts(d) <= d.issued[i].certs[n].notAfter  BY <1>2, <1>3
    <3> QED  BY <1>3, <1>4, <3>2, <3>3
  <2>2. e = d  BY <1>3, <1>4 DEF cleanUpIssued
  <2> HIDE DEF e
  <2> QED  BY <2>1, <2>2 DEF e
<1>5. CASE ~ (t < findCleanUpDeadlineForCerts(d))
  <2> DEFINE kept(i) == cleanUpCertificateList(d.issued[i].certs, t)
  <2>1. e = [d EXCEPT !.issued = [i \in Issues |-> [key |-> d.issued[i].key, certs |-> kept(i)]]]
    BY <1>1, <1>3, <1>5 DEF cleanUpIssued, cleanUpCerts
  <2>2. d = [ca |-> d.ca, issued |-> d.issued, caCerts |-> d.caCerts]  BY ChainTypes
  <2> HIDE DEF e
  <2>3. /\ e.ca = d.ca /\ e.caCerts = d.caCerts
        /\ e.issued = [i \in Issues |-> [key |-> d.issued[i].key, certs |-> kept(i)]]
        /\ e = [ca |-> e.ca, issued |-> e.issued, caCerts |-> e.caCerts]
    BY <2>1, <2>2
  <2>4. ASSUME NEW i \in Issues
        PROVE  /\ e.issued[i] \in CertificateIssue
               /\ e.issued[i].key = d.issued[i].key
               /\ e.issued[i].certs # << >>
               /\ e.issued[i].certs[Len(e.issued[i].certs)]
                    = d.issued[i].certs[Len(d.issued[i].certs)]
               /\ \A n \in DOMAIN e.issued[i].certs :
                    /\ t < e.issued[i].certs[n].notAfter
                    /\ \E m \in DOMAIN d.issued[i].certs :
                         e.issued[i].certs[n] = d.issued[i].certs[m]
    <3>1. e.issued[i] = [key |-> d.issued[i].key, certs |-> kept(i)]  BY <2>3
    <3>2. /\ d.issued[i].certs # << >>
          /\ t < d.issued[i].certs[Len(d.issued[i].certs)].notAfter - CertOverlapInterval
      BY DEF Established, CertsFresh
    <3>3. CertOverlapInterval \in Nat  BY OptionsAssumption
    <3>4. d.issued[i].certs \in Seq(Certificate) /\ d.issued[i].key \in Nat  BY ChainTypes
    <3>5. /\ kept(i) \in Seq(Certificate)
          /\ kept(i) # << >>
          /\ kept(i)[Len(kept(i))] = d.issued[i].certs[Len(d.issued[i].certs)]
          /\ \A j \in DOMAIN kept(i) : t < kept(i)[j].notAfter
          /\ \A j \in DOMAIN kept(i) : \E m \in DOMAIN d.issued[i].certs :
               kept(i)[j] = d.issued[i].certs[m]
      BY <3>2, <3>3, <3>4, CleanUpFresh
    <3> HIDE DEF kept
    <3>6. e.issued[i] \in CertificateIssue  BY <3>1, <3>4, <3>5 DEF CertificateIssue
    <3> QED  BY <3>1, <3>5, <3>6
  <2>5. e \in CertificateChainData
    <3>1. e.issued \in [Issues -> CertificateIssue]  BY <2>3, <2>4
    <3> QED  BY <2>3, <3>1 DEF CertificateChainData
  <2>6. Consistent(e, t)
    <3>1. d.ca.key # NoKey  BY DEF Established
    <3>2. ASSUME NEW i \in Issues, NEW n \in DOMAIN e.issued[i].certs
          PROVE  e.issued[i].certs[n].signer = d.ca.key /\ e.issued[i].certs[n].notBefore <= t
      BY <2>4, <3>1 DEF Consistent
    <3>3. \A i \in Issues : e.issued[i].certs[Len(e.issued[i].certs)].key = e.issued[i].key
      BY <2>4 DEF Consistent, Established
    <3> QED  BY <2>3, <3>1, <3>2, <3>3 DEF Consistent
  <2>7. Established(e)
    BY <2>3, <2>4 DEF Established
  <2> QED  BY <2>3, <2>4, <2>5, <2>6, <2>7 DEF e
<1> QED  BY <1>4, <1>5

\* The time w is not after any of the deadlines of d.
NotOverdue(d, w) ==
    /\ w <= d.ca.cert.notAfter - CAOverlapInterval
    /\ \A b \in Bundles : \A n \in DOMAIN d.caCerts[b] : w <= d.caCerts[b][n].notAfter
    /\ \A i \in Issues :
         /\ w <= d.issued[i].certs[Len(d.issued[i].certs)].notAfter - CertOverlapInterval
         /\ \A n \in DOMAIN d.issued[i].certs : w <= d.issued[i].certs[n].notAfter

\* The deadlines of an established chain that is fresh and cleaned up lie in the future.
LEMMA Deadlines ==
    ASSUME NEW d \in CertificateChainData, NEW t \in Nat, Issues # {},
           Established(d), CAFresh(d, t), CertsFresh(d, t),
           \A b \in Bundles : \A n \in DOMAIN d.caCerts[b] : t < d.caCerts[b][n].notAfter,
           \A i \in Issues : \A n \in DOMAIN d.issued[i].certs : t < d.issued[i].certs[n].notAfter
    PROVE  LET w == minTime({findRotationDeadlineForCA(d), findRotationDeadlineForCerts(d),
                             findCleanUpDeadlineForCACerts(d), findCleanUpDeadlineForCerts(d)})
           IN  /\ w \in Nat
               /\ t < w
               /\ NotOverdue(d, w)
               /\ t < findRotationDeadlineForCA(d)
               /\ t < findRotationDeadlineForCerts(d)
               /\ t < findCleanUpDeadlineForCACerts(d)
               /\ t < findCleanUpDeadlineForCerts(d)
<1> DEFINE B == BundleLists(d)
           C == CertLists(d)
           dB == findRotationDeadlineForCA(d)
           dC == findRotationDeadlineForCerts(d)
           uB == findCleanUpDeadlineForCACerts(d)
           uC == findCleanUpDeadlineForCerts(d)
           w == minTime({dB, dC, uB, uC})
<1>1. /\ DOMAIN d.caCerts = Bundles /\ \A b \in Bundles : d.caCerts[b] \in Seq(Certificate)
      /\ DOMAIN d.issued = Issues /\ \A i \in Issues : d.issued[i].certs \in Seq(Certificate)
      /\ Bundles # {}
  BY ChainTypes, BundlesAssumption
<1>2. /\ B \in SUBSET Seq(Certificate) /\ B # {} /\ << >> \notin B
      /\ \A b \in Bundles : d.caCerts[b] \in B
      /\ \A l \in B : \E b \in Bundles : l = d.caCerts[b]
  BY <1>1 DEF BundleLists, Established
<1>3. /\ C \in SUBSET Seq(Certificate) /\ C # {} /\ << >> \notin C
      /\ \A i \in Issues : d.issued[i].certs \in C
      /\ \A l \in C : \E i \in Issues : l = d.issued[i].certs
  BY <1>1 DEF CertLists, Established
<1>4. CAOverlapInterval \in Nat /\ CertOverlapInterval \in Nat  BY OptionsAssumption
<1>5. dB \in Int /\ t < dB /\ \A l \in B : dB <= l[Len(l)].notAfter - CAOverlapInterval
  <2>1. \A l \in B : l # << >> /\ t < l[Len(l)].notAfter - CAOverlapInterval
    BY <1>2 DEF CAFresh, Established
  <2> QED  BY <1>2, <1>4, <2>1, RotationDeadlineOf DEF findRotationDeadlineForCA
<1>6. dC \in Int /\ t < dC /\ \A l \in C : dC <= l[Len(l)].notAfter - CertOverlapInterval
  <2>1. \A l \in C : l # << >> /\ t < l[Len(l)].notAfter - CertOverlapInterval
    BY <1>3 DEF CertsFresh
  <2> QED  BY <1>3, <1>4, <2>1, RotationDeadlineOf DEF findRotationDeadlineForCerts
<1>7. uB \in Nat /\ t < uB /\ \A l \in B : \A n \in DOMAIN l : uB <= l[n].notAfter
  <2>1. \E l \in B : l # << >>  BY <1>2
  <2>2. \A l \in B : \A n \in DOMAIN l : t < l[n].notAfter  BY <1>2
  <2> HIDE DEF B
  <2> QED  BY <1>2, <2>1, <2>2, CleanUpDeadlineOf DEF findCleanUpDeadlineForCACerts, B
<1>8. uC \in Nat /\ t < uC /\ \A l \in C : \A n \in DOMAIN l : uC <= l[n].notAfter
  <2>1. \E l \in C : l # << >>  BY <1>3
  <2>2. \A l \in C : \A n \in DOMAIN l : t < l[n].notAfter  BY <1>3
  <2> HIDE DEF C
  <2> QED  BY <1>3, <2>1, <2>2, CleanUpDeadlineOf DEF findCleanUpDeadlineForCerts, C
<1> HIDE DEF B, C, dB, dC, uB, uC
<1>9. w \in Nat /\ t < w /\ w <= dB /\ w <= dC /\ w <= uB /\ w <= uC
  <2> DEFINE S == {dB, dC, uB, uC}
  <2>1. S \in SUBSET Int /\ S # {} /\ \A u \in S : 0 <= u  BY <1>5, <1>6, <1>7, <1>8
  <2>2. minTime(S) \in S /\ \A u \in S : minTime(S) <= u
    <3>1. PICK lo \in Int : \A u \in S : lo <= u
      BY <2>1
    <3> HIDE DEF S
    <3> QED  BY <2>1, <3>1, MinTime
  <2> QED  BY <1>5, <1>6, <1>7, <1>8, <2>2
<1> HIDE DEF w
<1>10. NotOverdue(d, w)
  <2>1. ASSUME NEW b \in Bundles
        PROVE  /\ w <= d.ca.cert.notAfter - CAOverlapInterval
               /\ \A n \in DOMAIN d.caCerts[b] : w <= d.caCerts[b][n].notAfter
    <3>1. d.caCerts[b] \in B  BY <1>2
    <3>2. d.caCerts[b][Len(d.caCerts[b])] = d.ca.cert  BY DEF Established
    <3>3. d.ca.cert.notAfter \in Nat  BY ChainTypes DEF Certificate
    <3>4. dB <= d.ca.cert.notAfter - CAOverlapInterval  BY <1>5, <3>1, <3>2
    <3>5. ASSUME NEW n \in DOMAIN d.caCerts[b] PROVE w <= d.caCerts[b][n].notAfter
      <4>1. d.caCerts[b][n] \in Certificate  BY <1>1
      <4>3. d.caCerts[b][n].notAfter \in Nat  BY <4>1 DEF Certificate
      <4>2. uB <= d.caCerts[b][n].notAfter  BY <1>7, <3>1
      <4> QED  BY <1>7, <1>9, <4>2, <4>3
    <3> QED  BY <1>4, <1>5, <1>9, <3>3, <3>4, <3>5
  <2>2. ASSUME NEW i \in Issues
        PROVE  /\ w <= d.issued[i].certs[Len(d.issued[i].certs)].notAfter - CertOverlapInterval
               /\ \A n \in DOMAIN d.issued[i].certs : w <= d.issued[i].certs[n].notAfter
    <3> DEFINE l == d.issued[i].certs
    <3>1. l \in C /\ l \in Seq(Certificate) /\ l # << >>  BY <1>1, <1>3
    <3> HIDE DEF l
    <3>2. \A n \in DOMAIN l : l[n].notAfter \in Nat
      <4>1. \A n \in DOMAIN l : l[n] \in Certificate  BY <3>1
      <4> QED  BY <4>1 DEF Certificate
    <3>3. Len(l) \in DOMAIN l  BY <3>1
    <3>4. dC <= l[Len(l)].notAfter - CertOverlapInterval  BY <1>6, <3>1
    <3>5. \A n \in DOMAIN l : uC <= l[n].notAfter  BY <1>8, <3>1
    <3>6. w <= l[Len(l)].notAfter - CertOverlapInterval  BY <1>4, <1>6, <1>9, <3>2, <3>3, <3>4
    <3>7. \A n \in DOMAIN l : w <= l[n].notAfter  BY <1>8, <1>9, <3>2, <3>5
    <3> QED  BY <3>6, <3>7 DEF l
  <2> QED  BY <1>1, <2>1, <2>2 DEF NotOverdue
<1> QED  BY <1>5, <1>6, <1>7, <1>8, <1>9, <1>10 DEF w, dB, dC, uB, uC

\* The rotation deadlines only depend on the last certificates.
LEMMA SameDeadlines ==
    ASSUME NEW d \in CertificateChainData, NEW e \in CertificateChainData,
           Established(d), Established(e), d.ca = e.ca,
           \A i \in Issues : d.issued[i].certs[Len(d.issued[i].certs)]
                             = e.issued[i].certs[Len(e.issued[i].certs)]
    PROVE  /\ findRotationDeadlineForCA(d) = findRotationDeadlineForCA(e)
           /\ findRotationDeadlineForCerts(d) = findRotationDeadlineForCerts(e)
<1> DEFINE S(lists, o) == {nextRotationDeadlineForCert(getLastCert(l), o) : l \in lists}
<1>1. ASSUME NEW x \in CertificateChainData, Established(x)
      PROVE  /\ findRotationDeadlineForCA(x) = minTime(S(BundleLists(x), CAOverlapInterval))
             /\ findRotationDeadlineForCerts(x) = minTime(S(CertLists(x), CertOverlapInterval))
             /\ S(BundleLists(x), CAOverlapInterval)
                  = {nextRotationDeadlineForCert(x.ca.cert, CAOverlapInterval) : b \in Bundles}
             /\ S(CertLists(x), CertOverlapInterval)
                  = {nextRotationDeadlineForCert(x.issued[i].certs[Len(x.issued[i].certs)],
                                                 CertOverlapInterval) : i \in Issues}
  <2>1. DOMAIN x.caCerts = Bundles /\ DOMAIN x.issued = Issues  BY ChainTypes
  <2>2. << >> \notin BundleLists(x)  BY <1>1, <2>1 DEF BundleLists, Established
  <2>3. << >> \notin CertLists(x)  BY <1>1, <2>1 DEF CertLists, Established
  <2>4. findRotationDeadlineForCA(x) = minTime(S(BundleLists(x), CAOverlapInterval))
    BY <2>2 DEF findRotationDeadlineForCA, RotationDeadline
  <2>5. findRotationDeadlineForCerts(x) = minTime(S(CertLists(x), CertOverlapInterval))
    BY <2>3 DEF findRotationDeadlineForCerts, RotationDeadline
  <2>6. \A b \in Bundles : getLastCert(x.caCerts[b]) = x.ca.cert
    BY <1>1 DEF Established, getLastCert
  <2>7. \A i \in Issues : getLastCert(x.issued[i].certs)
                           = x.issued[i].certs[Len(x.issued[i].certs)]
    BY <1>1 DEF Established, getLastCert
  <2>8. S(BundleLists(x), CAOverlapInterval)
          = {nextRotationDeadlineForCert(x.ca.cert, CAOverlapInterval) : b \in Bundles}
    BY <2>1, <2>6 DEF BundleLists
  <2>9. S(CertLists(x), CertOverlapInterval)
          = {nextRotationDeadlineForCert(x.issued[i].certs[Len(x.issued[i].certs)],
                                         CertOverlapInterval) : i \in Issues}
    BY <2>1, <2>7 DEF CertLists
  <2> QED  BY <2>4, <2>5, <2>8, <2>9
<1>2. {nextRotationDeadlineForCert(d.issued[i].certs[Len(d.issued[i].certs)],
                                   CertOverlapInterval) : i \in Issues}
        = {nextRotationDeadlineForCert(e.issued[i].certs[Len(e.issued[i].certs)],
                                       CertOverlapInterval) : i \in Issues}
  OBVIOUS
<1> DEFINE K(x) == {nextRotationDeadlineForCert(x.ca.cert, CAOverlapInterval) : b \in Bundles}
           I(x) == {nextRotationDeadlineForCert(x.issued[i].certs[Len(x.issued[i].certs)],
                                                CertOverlapInterval) : i \in Issues}
<1> HIDE DEF S
<1>3. findRotationDeadlineForCA(d) = minTime(K(d)) /\ findRotationDeadlineForCerts(d) = minTime(I(d))
  BY <1>1
<1>4. findRotationDeadlineForCA(e) = minTime(K(e)) /\ findRotationDeadlineForCerts(e) = minTime(I(e))
  BY <1>1
<1>5. K(d) = K(e) /\ I(d) = I(e)
  BY <1>2
<1> HIDE DEF K, I
<1> QED  BY <1>3, <1>4, <1>5

\* Update: from any consistent chain it makes an established one, keeps all unexpired
\* CA certificates, adds none but the CA's, and asks to be called again in the future but
\* before anything in the new chain expires or enters its overlap window.
THEOREM UpdateEstablishes ==
    ASSUME NEW d \in CertificateChainData, NEW serial \in Nat \ {0}, NEW t \in Nat, Issues # {},
           Consistent(d, t)
    PROVE  LET r == Update(d, serial, t)
           IN  /\ r.data \in CertificateChainData
               /\ Consistent(r.data, t)
               /\ Established(r.data)
               /\ r.updateAt \in Nat
               /\ t < r.updateAt
               /\ NotOverdue(r.data, r.updateAt)
               /\ Retained(d, r.data, t)
               /\ OnlyCAAdded(d, r.data)
<1> DEFINE c == newChain(d)
           e == rotate(c, serial, t)
           f == cleanUpCA(e, t)
           g == cleanUpIssued(f, t)
           r == Update(d, serial, t)
<1>1. /\ c \in CertificateChainData /\ Consistent(c, t) /\ c.caCerts = d.caCerts
      /\ c.ca.key = NoKey => c.ca.cert = NoCert
  BY NewChain
<1>2. /\ e \in CertificateChainData /\ Consistent(e, t) /\ Established(e)
      /\ CAFresh(e, t) /\ CertsFresh(e, t) /\ Retained(c, e, t)
      /\ OnlyCAAdded(c, e)
  <2> HIDE DEF c
  <2> QED  BY <1>1, Rotate
<1>3. /\ f \in CertificateChainData /\ Consistent(f, t) /\ Established(f)
      /\ f.ca = e.ca /\ f.issued = e.issued
      /\ \A b \in Bundles : \A n \in DOMAIN f.caCerts[b] : t < f.caCerts[b][n].notAfter
      /\ Retained(e, f, t) /\ OnlyCAAdded(e, f)
  <2> HIDE DEF e
  <2> QED  BY <1>2, CleanUpCA
<1>4. CertsFresh(f, t) /\ CAFresh(f, t)
  <2> HIDE DEF e, f
  <2> QED  BY <1>2, <1>3 DEF CertsFresh, CAFresh
<1>5. /\ g \in CertificateChainData /\ Consistent(g, t) /\ Established(g)
      /\ g.ca = f.ca /\ g.caCerts = f.caCerts
      /\ \A i \in Issues :
           /\ g.issued[i].certs[Len(g.issued[i].certs)] = f.issued[i].certs[Len(f.issued[i].certs)]
           /\ \A n \in DOMAIN g.issued[i].certs : t < g.issued[i].certs[n].notAfter
  <2> HIDE DEF f
  <2> QED  BY <1>3, <1>4, CleanUpIssued
<1>6. r = [data |-> g, updateAt |-> minTime({findRotationDeadlineForCA(e),
                                             findRotationDeadlineForCerts(e),
                                             findCleanUpDeadlineForCACerts(g),
                                             findCleanUpDeadlineForCerts(g)})]
  BY DEF Update, update
<1> HIDE DEF c, e, f, g, r
<1>7. CAFresh(g, t) /\ CertsFresh(g, t)
  BY <1>4, <1>5 DEF CAFresh, CertsFresh
<1>8. \A b \in Bundles : \A n \in DOMAIN g.caCerts[b] : t < g.caCerts[b][n].notAfter
  BY <1>3, <1>5
<1>9. Retained(d, g, t)
  <2>1. Retained(c, f, t)
    <3> SUFFICES ASSUME NEW b \in Bundles, NEW m \in DOMAIN c.caCerts[b],
                        c.caCerts[b][m].notAfter > t
                 PROVE  \E n \in DOMAIN f.caCerts[b] : f.caCerts[b][n] = c.caCerts[b][m]
      BY DEF Retained
    <3>1. PICK k \in DOMAIN e.caCerts[b] : e.caCerts[b][k] = c.caCerts[b][m]
      BY <1>2 DEF Retained
    <3> QED  BY <1>3, <3>1 DEF Retained
  <2> QED  BY <1>1, <1>5, <2>1 DEF Retained
<1>10. /\ findRotationDeadlineForCA(e) = findRotationDeadlineForCA(g)
       /\ findRotationDeadlineForCerts(e) = findRotationDeadlineForCerts(g)
  BY <1>2, <1>3, <1>5, SameDeadlines
<1>11. r.updateAt \in Nat /\ t < r.updateAt /\ NotOverdue(g, r.updateAt)
  BY <1>5, <1>6, <1>7, <1>8, <1>10, Deadlines
<1>12. r.data = g  BY <1>6
<1>13. OnlyCAAdded(d, g)
  <2> SUFFICES ASSUME NEW b \in Bundles, NEW n \in DOMAIN f.caCerts[b]
               PROVE  \/ f.caCerts[b][n] = e.ca.cert
                      \/ \E m \in DOMAIN c.caCerts[b] : f.caCerts[b][n] = c.caCerts[b][m]
    BY <1>1, <1>3, <1>5 DEF OnlyCAAdded
  <2>1. CASE f.caCerts[b][n] = f.ca.cert  BY <1>3, <2>1
  <2>2. CASE \E k \in DOMAIN e.caCerts[b] : f.caCerts[b][n] = e.caCerts[b][k]
    BY <1>2, <2>2 DEF OnlyCAAdded
  <2> QED  BY <1>3, <2>1, <2>2 DEF OnlyCAAdded
<1> QED  BY <1>5, <1>9, <1>11, <1>12, <1>13 DEF r

------------------------------------------------------------------------------------
(* What an established chain means to the next Update and to Verify.                *)

\* A consistent chain remains so.
LEMMA ConsistentLater ==
    ASSUME NEW d \in CertificateChainData, NEW t \in Nat, NEW u \in Nat, t <= u, Consistent(d, t)
    PROVE  Consistent(d, u)
<1>1. d.ca.cert.notBefore \in Nat  BY ChainTypes DEF Certificate
<1>2. ASSUME NEW b \in Bundles, NEW n \in DOMAIN d.caCerts[b] PROVE d.caCerts[b][n].notBefore \in Nat
  BY BundleTypes
<1>3. ASSUME NEW i \in Issues, NEW n \in DOMAIN d.issued[i].certs
      PROVE  d.issued[i].certs[n].notBefore \in Nat
  BY IssueTypes
<1> QED  BY <1>1, <1>2, <1>3 DEF Consistent

\* An established chain decodes to itself.
LEMMA NewChainIdentity ==
    ASSUME NEW d \in CertificateChainData, NEW t \in Nat, Consistent(d, t), Established(d)
    PROVE  newChain(d) = d
<1>1. d.ca.cert # NoCert
  <2>1. d.ca.cert.key # NoKey  BY DEF Consistent, Established
  <2> QED  BY <2>1 DEF NoCert
<1>2. newChain(d).ca = d.ca  BY <1>1 DEF newChain, Established
<1>3. newChain(d).issued = [i \in Issues |-> d.issued[i]]
  BY ChainTypes DEF newChain, Established
<1>4. d.issued = [i \in Issues |-> d.issued[i]]  BY DEF CertificateChainData
<1>5. /\ newChain(d) = [ca |-> newChain(d).ca, issued |-> newChain(d).issued,
                        caCerts |-> d.caCerts]
      /\ d = [ca |-> d.ca, issued |-> d.issued, caCerts |-> d.caCerts]
  BY ChainTypes DEF newChain
<1> QED  BY <1>2, <1>3, <1>4, <1>5

\* An established chain verifies until the first of its deadlines.
LEMMA EstablishedVerifies ==
    ASSUME NEW d \in CertificateChainData, NEW t \in Nat, NEW w \in Nat, t <= w,
           Consistent(d, t), Established(d), NotOverdue(d, w)
    PROVE  verifyTLS(d, t) /\ Verify(d, t)
<1>1. CAOverlapInterval \in Nat  BY OptionsAssumption
<1>2. d.ca.cert.notAfter \in Nat /\ d.ca.cert.notBefore \in Nat  BY ChainTypes DEF Certificate
<1>3. ValidAt(d.ca.cert, t)  BY <1>1, <1>2 DEF ValidAt, NotOverdue, Consistent
<1>4. ASSUME NEW b \in Bundles
      PROVE  /\ getLastCert(d.caCerts[b]) = d.ca.cert
             /\ VerifyTLS(d.issued[IssueOf[b]], d.caCerts[b], t)
  <2> DEFINE i == IssueOf[b]
             c == d.issued[i].certs[1]
  <2>1. i \in Issues  BY BundlesAssumption
  <2> HIDE DEF i
  <2>2. d.issued[i].key # NoKey /\ d.issued[i].certs # << >>  BY <2>1 DEF Established
  <2>3. 1 \in DOMAIN d.issued[i].certs  BY <2>1, <2>2, IssueTypes
  <2>4. c.notAfter \in Nat /\ c.notBefore \in Nat  BY <2>1, <2>3, IssueTypes
  <2>5. c.signer = d.ca.key /\ c.notBefore <= t  BY <2>1, <2>3 DEF Consistent, Established
  <2>6. w <= c.notAfter  BY <2>1, <2>3 DEF NotOverdue
  <2>7. ValidAt(c, t)
    <3> HIDE DEF c
    <3> QED  BY <2>4, <2>5, <2>6 DEF ValidAt
  <2>8. Len(d.caCerts[b]) \in DOMAIN d.caCerts[b] /\ d.caCerts[b][Len(d.caCerts[b])] = d.ca.cert
    BY BundleTypes DEF Established
  <2>9. d.ca.cert.key = d.ca.key  BY DEF Consistent, Established
  <2>10. VerifyCertificate(c, d.caCerts[b], t)
    <3> HIDE DEF c
    <3> QED  BY <1>3, <2>5, <2>7, <2>8, <2>9 DEF VerifyCertificate
  <2>11. VerifyTLS(d.issued[i], d.caCerts[b], t)  BY <2>2, <2>10 DEF VerifyTLS
  <2>12. getLastCert(d.caCerts[b]) = d.ca.cert  BY <2>8 DEF getLastCert, Established
  <2> QED  BY <2>11, <2>12 DEF i
<1>5. verifyTLS(d, t)  BY <1>4, ChainTypes DEF verifyTLS
<1> QED  BY <1>5, NewChainIdentity DEF Verify

\* Before the first of its deadlines Update leaves an established chain alone.
THEOREM EstablishedSettled ==
    ASSUME NEW d \in CertificateChainData, NEW serial \in Nat, NEW t \in Nat, NEW w \in Nat, t < w,
           Issues # {}, Consistent(d, t), Established(d), NotOverdue(d, w)
    PROVE  /\ ~ mustRotateCA(newChain(d), t)
           /\ ~ mustRotateCerts(newChain(d), t)
           /\ Update(d, serial, t).data = d
<1>1. CAOverlapInterval \in Nat /\ CertOverlapInterval \in Nat  BY OptionsAssumption
<1>2. CAFresh(d, t)
  <2>1. d.ca.cert.notAfter \in Nat  BY ChainTypes DEF Certificate
  <2> QED  BY <1>1, <2>1 DEF CAFresh, NotOverdue
<1>3. ASSUME NEW b \in Bundles, NEW n \in DOMAIN d.caCerts[b] PROVE t < d.caCerts[b][n].notAfter
  <2>1. d.caCerts[b][n].notAfter \in Nat  BY BundleTypes
  <2> QED  BY <2>1 DEF NotOverdue
<1>4. ASSUME NEW i \in Issues, NEW n \in DOMAIN d.issued[i].certs
      PROVE  d.issued[i].certs[n].notAfter \in Nat /\ t < d.issued[i].certs[n].notAfter
  <2>1. d.issued[i].certs[n].notAfter \in Nat  BY IssueTypes
  <2> QED  BY <2>1 DEF NotOverdue
<1>5. CertsFresh(d, t)
  <2> SUFFICES ASSUME NEW i \in Issues
               PROVE  t < d.issued[i].certs[Len(d.issued[i].certs)].notAfter - CertOverlapInterval
    BY DEF CertsFresh
  <2>1. Len(d.issued[i].certs) \in DOMAIN d.issued[i].certs  BY IssueTypes DEF Established
  <2> DEFINE a == d.issued[i].certs[Len(d.issued[i].certs)].notAfter
  <2>2. a \in Nat  BY <1>4, <2>1
  <2>3. w <= a - CertOverlapInterval  BY DEF NotOverdue
  <2> HIDE DEF a
  <2>4. t < a - CertOverlapInterval  BY <1>1, <2>2, <2>3
  <2> QED  BY <2>4 DEF a
<1>6. /\ t < findRotationDeadlineForCA(d)
      /\ t < findRotationDeadlineForCerts(d)
      /\ t < findCleanUpDeadlineForCACerts(d)
      /\ t < findCleanUpDeadlineForCerts(d)
  BY <1>2, <1>3, <1>4, <1>5, Deadlines
<1>7. /\ findRotationDeadlineForCA(d) \in Int /\ findRotationDeadlineForCerts(d) \in Int
      /\ findCleanUpDeadlineForCACerts(d) \in Int /\ findCleanUpDeadlineForCerts(d) \in Int
  <2>1. BundleLists(d) \in SUBSET Seq(Certificate)
    <3>1. DOMAIN d.caCerts = Bundles /\ \A b \in Bundles : d.caCerts[b] \in Seq(Certificate)
      BY ChainTypes
    <3> QED  BY <3>1 DEF BundleLists
  <2>2. CertLists(d) \in SUBSET Seq(Certificate)
    <3>1. DOMAIN d.issued = Issues /\ \A i \in Issues : d.issued[i].certs \in Seq(Certificate)
      BY ChainTypes
    <3> QED  BY <3>1 DEF CertLists
  <2>3. findRotationDeadlineForCA(d) \in Int
    BY <1>1, <2>1, RotationDeadlineOf DEF findRotationDeadlineForCA
  <2>4. findRotationDeadlineForCerts(d) \in Int
    BY <1>1, <2>2, RotationDeadlineOf DEF findRotationDeadlineForCerts
  <2>5. findCleanUpDeadlineForCACerts(d) \in Int
    BY <2>1, CleanUpDeadlineOf DEF findCleanUpDeadlineForCACerts
  <2>6. findCleanUpDeadlineForCerts(d) \in Int
    BY <2>2, CleanUpDeadlineOf DEF findCleanUpDeadlineForCerts
  <2> QED  BY <2>3, <2>4, <2>5, <2>6
<1>8. newChain(d) = d  BY NewChainIdentity
<1>9. ~ mustRotateCA(d, t) /\ ~ mustRotateCerts(d, t)
  <2>1. verifyTLS(d, t)  BY EstablishedVerifies
  <2> QED  BY <1>6, <1>7, <2>1 DEF mustRotateCA, mustRotateCerts
<1>10. rotate(d, serial, t) = d  BY <1>9 DEF rotate
<1>11. cleanUpIssued(cleanUpCA(d, t), t) = d  BY <1>6, <1>7 DEF cleanUpCA, cleanUpIssued
<1> QED  BY <1>8, <1>9, <1>10, <1>11 DEF Update, update
====
