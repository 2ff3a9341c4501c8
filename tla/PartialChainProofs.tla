----------------------------- MODULE PartialChainProofs -----------------------------
(* Facts about Update for the chains that a manager reads: they may have the        *)
(* webhooks of some configurations only, and their parts may come from different    *)
(* rotations, because every object is read from a cache of its own. Nothing is      *)
(* assumed of such a chain but its types.                                           *)
EXTENDS CertificateChainProofs

\* The data of some bundles and of their services.
PartialChain(d) ==
    /\ d = [ca |-> d.ca, issued |-> d.issued, caCerts |-> d.caCerts]
    /\ d.ca \in CA
    /\ DOMAIN d.caCerts \subseteq Bundles
    /\ DOMAIN d.issued = {IssueOf[b] : b \in DOMAIN d.caCerts}
    /\ d.issued = [i \in DOMAIN d.issued |-> d.issued[i]]
    /\ d.caCerts = [b \in DOMAIN d.caCerts |-> d.caCerts[b]]
    /\ \A b \in DOMAIN d.caCerts : d.caCerts[b] \in Seq(Certificate)
    /\ \A i \in DOMAIN d.issued : d.issued[i] \in CertificateIssue

\* The chain of one bundle verifies at time t, and its CA is not in the overlap window,
\* except perhaps at its first moment.
Settled(ca, issue, bundle, t) ==
    /\ ca.key # NoKey /\ ca.cert # NoCert
    /\ bundle # << >>
    /\ bundle[Len(bundle)] = ca.cert
    /\ t + CAOverlapInterval <= ca.cert.notAfter
    /\ VerifyTLS(issue, bundle, t)

\* e has the bundles of d, and of each of them the unexpired certificates. What it has
\* besides is the certificate of its CA, which is valid already.
BundlesKept(d, e, t) ==
    /\ DOMAIN e.caCerts = DOMAIN d.caCerts
    /\ \A b \in DOMAIN d.caCerts :
         /\ \A m \in DOMAIN d.caCerts[b] :
              d.caCerts[b][m].notAfter > t
                => \E n \in DOMAIN e.caCerts[b] : e.caCerts[b][n] = d.caCerts[b][m]
         /\ \A n \in DOMAIN e.caCerts[b] :
              \/ \E m \in DOMAIN d.caCerts[b] : e.caCerts[b][n] = d.caCerts[b][m]
              \/ e.caCerts[b][n] = e.ca.cert /\ e.ca.cert.notBefore <= t

Rotates(d, t) == mustRotateCA(newChain(d), t) \/ mustRotateCerts(newChain(d), t)

------------------------------------------------------------------------------------
\* Decoding keeps the bundles, and key pairs that are complete.
LEMMA PartialNewChain ==
    ASSUME NEW d, PartialChain(d)
    PROVE  /\ PartialChain(newChain(d))
           /\ newChain(d).caCerts = d.caCerts
           /\ DOMAIN newChain(d).issued = DOMAIN d.issued
           /\ newChain(d).ca \in {d.ca, [key |-> NoKey, cert |-> NoCert]}
           /\ \A i \in DOMAIN d.issued :
                newChain(d).issued[i] \in {d.issued[i], [key |-> NoKey, certs |-> << >>]}
<1> DEFINE e == newChain(d)
<1>1. NoCert \in Certificate /\ NoKey \in Nat
  BY DEF NoCert, NoKey, ZeroTime, Certificate
<1>2. [key |-> NoKey, cert |-> NoCert] \in CA /\ [key |-> NoKey, certs |-> << >>] \in CertificateIssue
  BY <1>1 DEF CA, CertificateIssue
<1>3. /\ e = [ca |-> e.ca, issued |-> e.issued, caCerts |-> e.caCerts]
      /\ e.caCerts = d.caCerts
      /\ DOMAIN e.issued = DOMAIN d.issued
      /\ e.issued = [i \in DOMAIN e.issued |-> e.issued[i]]
      /\ e.ca \in {d.ca, [key |-> NoKey, cert |-> NoCert]}
      /\ \A i \in DOMAIN d.issued :
           e.issued[i] \in {d.issued[i], [key |-> NoKey, certs |-> << >>]}
  BY DEF newChain
<1> HIDE DEF e
<1>4. PartialChain(e)
  BY <1>2, <1>3 DEF PartialChain
<1> QED  BY <1>3, <1>4 DEF e

\* e is d with another CA, which all bundles get, and another server certificate.
Replaced(d, e, ca, keyPair) ==
    /\ e.ca = ca
    /\ DOMAIN e.issued = DOMAIN d.issued
    /\ DOMAIN e.caCerts = DOMAIN d.caCerts
    /\ \A i \in DOMAIN d.issued : e.issued[i] = [key |-> keyPair.key, certs |-> <<keyPair.cert>>]
    /\ \A b \in DOMAIN d.caCerts : e.caCerts[b] = Append(d.caCerts[b], ca.cert)

\* A rotation of everything: a new CA, which all bundles get, and new keys.
LEMMA PartialRotateAll ==
    ASSUME NEW d, PartialChain(d), NEW k \in Nat \ {0}, NEW t \in Nat
    PROVE  LET e == rotateAll(d, k, t)
           IN  /\ PartialChain(e)
               /\ e.ca.key = k
               /\ \A i \in DOMAIN e.issued : e.issued[i].key = k
               /\ BundlesKept(d, e, t)
               /\ Replaced(d, e, NewCA(k, t, CARotateInterval),
                           NewServerKeyPair(NewCA(k, t, CARotateInterval), k, t, CertRotateInterval))
<1> DEFINE e == rotateAll(d, k, t)
           ca == NewCA(k, t, CARotateInterval)
           kp == NewServerKeyPair(ca, k, t, CertRotateInterval)
           I == DOMAIN d.issued
           B == DOMAIN d.caCerts
<1>1. /\ e.ca = ca
      /\ e.issued = [i \in I |-> [key |-> kp.key, certs |-> <<kp.cert>>]]
      /\ e.caCerts = [b \in B |-> Append(d.caCerts[b], ca.cert)]
      /\ e = [ca |-> e.ca, issued |-> e.issued, caCerts |-> e.caCerts]
  <2> DEFINE f == setCaKeyPair(d, ca)
  <2>1. f = [ca |-> ca, issued |-> d.issued,
             caCerts |-> [b \in B |-> Append(d.caCerts[b], ca.cert)]]
    BY DEF setCaKeyPair
  <2>2. e = [f EXCEPT !.issued = [i \in DOMAIN f.issued |->
               setKeyResetCert(f.issued[i], NewServerKeyPair(f.ca, k, t, CertRotateInterval))]]
    BY DEF rotateAll, rotateCertsWithoutOverlap
  <2> HIDE DEF e, f, ca
  <2>3. f.ca = ca /\ DOMAIN f.issued = I  BY <2>1
  <2>4. e = [f EXCEPT !.issued = [i \in I |-> [key |-> kp.key, certs |-> <<kp.cert>>]]]
    BY <2>2, <2>3 DEF setKeyResetCert
  <2> HIDE DEF kp
  <2> QED  BY <2>1, <2>4
<1>2. ca \in CA /\ ca.key = k /\ ca.cert.notBefore <= t
  BY NewCAProperties
<1>3. kp.key = k /\ kp.cert \in Certificate
  <2> HIDE DEF ca
  <2> QED  BY <1>2, NewServerKeyPairProperties
<1> HIDE DEF e, ca, kp
<1>4. ca.cert \in Certificate  BY <1>2 DEF CA
<1>5. ASSUME NEW b \in B
      PROVE  /\ e.caCerts[b] \in Seq(Certificate)
             /\ \A m \in DOMAIN d.caCerts[b] :
                  m \in DOMAIN e.caCerts[b] /\ e.caCerts[b][m] = d.caCerts[b][m]
             /\ \A n \in DOMAIN e.caCerts[b] :
                  \/ e.caCerts[b][n] = ca.cert
                  \/ n \in DOMAIN d.caCerts[b] /\ e.caCerts[b][n] = d.caCerts[b][n]
  <2>1. e.caCerts[b] = Append(d.caCerts[b], ca.cert)  BY <1>1
  <2>2. d.caCerts[b] \in Seq(Certificate)  BY DEF PartialChain
  <2> QED  BY <2>1, <2>2, <1>4, AppendCert
<1>6. ASSUME NEW i \in I PROVE e.issued[i] \in CertificateIssue /\ e.issued[i].key = k
  <2>1. e.issued[i] = [key |-> k, certs |-> <<kp.cert>>]  BY <1>1, <1>3
  <2>2. <<kp.cert>> \in Seq(Certificate)  BY <1>3
  <2> QED  BY <2>1, <2>2 DEF CertificateIssue
<1>7. DOMAIN e.issued = I /\ DOMAIN e.caCerts = B  BY <1>1
<1>8. PartialChain(e)
  <2>1. e.issued = [i \in DOMAIN e.issued |-> e.issued[i]]
        /\ e.caCerts = [b \in DOMAIN e.caCerts |-> e.caCerts[b]]
    BY <1>1
  <2> QED  BY <1>1, <1>2, <1>5, <1>6, <1>7, <2>1 DEF PartialChain
<1>9. BundlesKept(d, e, t)
  BY <1>1, <1>2, <1>5, <1>7 DEF BundlesKept
<1>10. Replaced(d, e, ca, kp)  BY <1>1, <1>7 DEF Replaced
<1> QED  BY <1>1, <1>2, <1>6, <1>7, <1>8, <1>9, <1>10 DEF e, ca, kp

\* A rotation of the issued certificates leaves the CA and the bundles alone.
LEMMA PartialRotateCerts ==
    ASSUME NEW d, PartialChain(d), NEW k \in Nat \ {0}, NEW t \in Nat
    PROVE  LET e == rotateCertsWithOverlap(d, k, t)
           IN  /\ PartialChain(e)
               /\ e.ca = d.ca
               /\ e.caCerts = d.caCerts
               /\ \A i \in DOMAIN e.issued : e.issued[i].key = k
<1> DEFINE e == rotateCertsWithOverlap(d, k, t)
           kp == NewServerKeyPair(d.ca, k, t, CertRotateInterval)
           I == DOMAIN d.issued
<1>1. /\ e.ca = d.ca
      /\ e.issued = [i \in I |-> [key |-> kp.key, certs |-> Append(d.issued[i].certs, kp.cert)]]
      /\ e.caCerts = d.caCerts
      /\ e = [ca |-> e.ca, issued |-> e.issued, caCerts |-> e.caCerts]
  <2>1. e = [d EXCEPT !.issued =
               [i \in I |-> [key |-> kp.key, certs |-> Append(d.issued[i].certs, kp.cert)]]]
    BY DEF rotateCertsWithOverlap, setKeyAppendCert
  <2>2. d = [ca |-> d.ca, issued |-> d.issued, caCerts |-> d.caCerts]  BY DEF PartialChain
  <2> HIDE DEF e, kp
  <2> QED  BY <2>1, <2>2
<1>2. d.ca \in CA  BY DEF PartialChain
<1>3. kp.key = k /\ kp.cert \in Certificate
  BY <1>2, NewServerKeyPairProperties
<1> HIDE DEF e, kp
<1>4. ASSUME NEW i \in I PROVE e.issued[i] \in CertificateIssue /\ e.issued[i].key = k
  <2>1. e.issued[i] = [key |-> k, certs |-> Append(d.issued[i].certs, kp.cert)]
    BY <1>1, <1>3
  <2>2. d.issued[i].certs \in Seq(Certificate)  BY DEF PartialChain, CertificateIssue
  <2>3. Append(d.issued[i].certs, kp.cert) \in Seq(Certificate)  BY <1>3, <2>2
  <2> QED  BY <2>1, <2>3 DEF CertificateIssue
<1>5. DOMAIN e.issued = I /\ e.issued = [i \in DOMAIN e.issued |-> e.issued[i]]  BY <1>1
<1>6. PartialChain(e)
  BY <1>1, <1>4, <1>5 DEF PartialChain
<1> QED  BY <1>1, <1>4, <1>5, <1>6 DEF e

\* A clean-up takes only expired certificates out of bundles and lists.
LEMMA PartialCleanUp ==
    ASSUME NEW d, PartialChain(d), NEW t \in Nat
    PROVE  LET e == cleanUpIssued(cleanUpCA(d, t), t)
           IN  /\ PartialChain(e)
               /\ e.ca = d.ca
               /\ DOMAIN e.issued = DOMAIN d.issued
               /\ \A i \in DOMAIN d.issued : e.issued[i].key = d.issued[i].key
               /\ BundlesKept(d, e, t)
<1> DEFINE f == cleanUpCA(d, t)
           e == cleanUpIssued(f, t)
           keptCAs(b) == cleanUpCertificateList(d.caCerts[b], t)
           keptCerts(i) == cleanUpCertificateList(d.issued[i].certs, t)
           I == DOMAIN d.issued
           B == DOMAIN d.caCerts
<1>1. d = [ca |-> d.ca, issued |-> d.issued, caCerts |-> d.caCerts]
      /\ d.caCerts = [b \in B |-> d.caCerts[b]] /\ d.issued = [i \in I |-> d.issued[i]]
  BY DEF PartialChain
<1>2. ASSUME NEW b \in B
      PROVE  /\ d.caCerts[b] \in Seq(Certificate)
             /\ keptCAs(b) \in Seq(Certificate)
             /\ \A j \in DOMAIN keptCAs(b) : \E m \in DOMAIN d.caCerts[b] :
                  keptCAs(b)[j] = d.caCerts[b][m]
             /\ \A m \in DOMAIN d.caCerts[b] : d.caCerts[b][m].notAfter > t
                  => \E j \in DOMAIN keptCAs(b) : keptCAs(b)[j] = d.caCerts[b][m]
  <2>1. d.caCerts[b] \in Seq(Certificate)  BY DEF PartialChain
  <2> QED  BY <2>1, CleanUpList
<1>3. ASSUME NEW i \in I
      PROVE  d.issued[i] \in CertificateIssue /\ keptCerts(i) \in Seq(Certificate)
  <2>1. d.issued[i] \in CertificateIssue /\ d.issued[i].certs \in Seq(Certificate)
    BY DEF PartialChain, CertificateIssue
  <2> QED  BY <2>1, CleanUpList
<1>4. /\ f.ca = d.ca /\ f.issued = d.issued
      /\ f = [ca |-> f.ca, issued |-> f.issued, caCerts |-> f.caCerts]
      /\ f.caCerts = d.caCerts \/ f.caCerts = [b \in B |-> keptCAs(b)]
  BY <1>1 DEF cleanUpCA, cleanUpCACerts
<1> HIDE DEF f
<1>5. /\ e.ca = d.ca /\ e.caCerts = f.caCerts
      /\ e = [ca |-> e.ca, issued |-> e.issued, caCerts |-> e.caCerts]
      /\ e.issued = d.issued
           \/ e.issued = [i \in I |-> [key |-> d.issued[i].key, certs |-> keptCerts(i)]]
  BY <1>4 DEF cleanUpIssued, cleanUpCerts
<1> HIDE DEF e, keptCAs, keptCerts
<1>6. /\ DOMAIN e.caCerts = B /\ DOMAIN e.issued = I
      /\ e.caCerts = [b \in DOMAIN e.caCerts |-> e.caCerts[b]]
      /\ e.issued = [i \in DOMAIN e.issued |-> e.issued[i]]
  BY <1>1, <1>4, <1>5
<1>7. ASSUME NEW b \in B
      PROVE  /\ e.caCerts[b] \in Seq(Certificate)
             /\ \A j \in DOMAIN e.caCerts[b] : \E m \in DOMAIN d.caCerts[b] :
                  e.caCerts[b][j] = d.caCerts[b][m]
             /\ \A m \in DOMAIN d.caCerts[b] : d.caCerts[b][m].notAfter > t
                  => \E j \in DOMAIN e.caCerts[b] : e.caCerts[b][j] = d.caCerts[b][m]
  <2>1. e.caCerts[b] \in {d.caCerts[b], keptCAs(b)}  BY <1>4, <1>5
  <2> QED  BY <1>2, <2>1
<1>8. ASSUME NEW i \in I
      PROVE  e.issued[i] \in CertificateIssue /\ e.issued[i].key = d.issued[i].key
  <2>1. e.issued[i] \in {d.issued[i], [key |-> d.issued[i].key, certs |-> keptCerts(i)]}
    BY <1>5
  <2> QED  BY <1>3, <2>1 DEF CertificateIssue
<1>9. PartialChain(e)
  BY <1>4, <1>5, <1>6, <1>7, <1>8 DEF PartialChain
<1>10. BundlesKept(d, e, t)
  BY <1>6, <1>7 DEF BundlesKept
<1> QED  BY <1>5, <1>6, <1>8, <1>9, <1>10 DEF e, f

\* The lists of a chain are lists of certificates.
LEMMA PartialLists ==
    ASSUME NEW d, PartialChain(d)
    PROVE  /\ BundleLists(d) \in SUBSET Seq(Certificate)
           /\ CertLists(d) \in SUBSET Seq(Certificate)
           /\ \A b \in DOMAIN d.caCerts : d.caCerts[b] \in BundleLists(d)
           /\ \A i \in DOMAIN d.issued : d.issued[i].certs \in CertLists(d)
BY DEF PartialChain, BundleLists, CertLists, CertificateIssue

\* Update is to be called again at the earliest of its deadlines.
LEMMA PartialUpdateAt ==
    ASSUME NEW d, PartialChain(d), NEW e, PartialChain(e),
           NEW u, u = minTime({findRotationDeadlineForCA(d), findRotationDeadlineForCerts(d),
                               findCleanUpDeadlineForCACerts(e), findCleanUpDeadlineForCerts(e)})
    PROVE  /\ u \in Int
           /\ u <= findRotationDeadlineForCA(d)
           /\ u <= findCleanUpDeadlineForCACerts(e)
           /\ u <= findCleanUpDeadlineForCerts(e)
<1> DEFINE w == findRotationDeadlineForCA(d)
           x == findRotationDeadlineForCerts(d)
           y == findCleanUpDeadlineForCACerts(e)
           z == findCleanUpDeadlineForCerts(e)
<1>1. w \in Int /\ x \in Int
  <2>1. CAOverlapInterval \in Nat /\ CertOverlapInterval \in Nat  BY OptionsAssumption
  <2>2. BundleLists(d) \in SUBSET Seq(Certificate) /\ CertLists(d) \in SUBSET Seq(Certificate)
    BY PartialLists
  <2>3. 0 \in Nat  OBVIOUS
  <2> QED  BY <2>1, <2>2, <2>3, RotationDeadlineOf
           DEF findRotationDeadlineForCA, findRotationDeadlineForCerts
<1>2. y \in Nat /\ z \in Nat
  <2>1. BundleLists(e) \in SUBSET Seq(Certificate) /\ CertLists(e) \in SUBSET Seq(Certificate)
    BY PartialLists
  <2>2. 0 \in Nat  OBVIOUS
  <2> QED  BY <2>1, <2>2, CleanUpDeadlineOf
           DEF findCleanUpDeadlineForCACerts, findCleanUpDeadlineForCerts
<1> DEFINE S == {w, x, y, z}
<1>3. u = minTime(S)  OBVIOUS
<1> HIDE DEF w, x, y, z
<1>4. PICK lo \in Int : lo <= w /\ lo <= x /\ lo <= y /\ lo <= z
  <2>1. \E a \in Int : a <= w /\ a <= x  BY <1>1
  <2>2. PICK a \in Int : a <= w /\ a <= x  BY <2>1
  <2>3. CASE a >= 0
    <3>1. 0 \in Int /\ 0 <= w /\ 0 <= x /\ 0 <= y /\ 0 <= z  BY <1>1, <1>2, <2>2, <2>3
    <3> QED  BY <3>1
  <2>4. CASE a < 0
    <3>1. a <= y /\ a <= z  BY <1>2, <2>4
    <3> QED  BY <2>2, <3>1
  <2> QED  BY <2>3, <2>4
<1>5. S \in SUBSET Int /\ S # {} /\ \A v \in S : lo <= v  BY <1>1, <1>2, <1>4
<1>6. w \in S /\ y \in S /\ z \in S  OBVIOUS
<1> HIDE DEF S
<1>7. minTime(S) \in S /\ \A v \in S : minTime(S) <= v  BY <1>5, MinTime
<1> QED  BY <1>3, <1>5, <1>6, <1>7 DEF w, y, z

\* Update of d decodes it to f, rotates that to g, and cleans up to e.
Parts(d, k, t, f, g, e, updateAt) ==
    /\ PartialChain(f) /\ PartialChain(g) /\ PartialChain(e)
    /\ BundlesKept(f, g, t) /\ BundlesKept(g, e, t)
    /\ e.ca = g.ca
    /\ DOMAIN g.issued = DOMAIN d.issued /\ DOMAIN e.issued = DOMAIN d.issued
    /\ \A i \in DOMAIN d.issued : e.issued[i].key = g.issued[i].key
    /\ \/ Rotates(d, t) /\ g.ca.key = k /\ \A i \in DOMAIN d.issued : g.issued[i].key = k
       \/ Rotates(d, t) /\ g.ca = f.ca /\ \A i \in DOMAIN d.issued : g.issued[i].key = k
       \/ ~ Rotates(d, t) /\ g = f
    /\ updateAt \in Int
    /\ updateAt <= findRotationDeadlineForCA(g)
    /\ updateAt <= findCleanUpDeadlineForCACerts(e)
    /\ updateAt <= findCleanUpDeadlineForCerts(e)

\* The parts of Update: the decoded chain, the rotated one and the cleaned one.
LEMMA UpdateParts ==
    ASSUME NEW d, PartialChain(d), NEW k \in Nat \ {0}, NEW t \in Nat
    PROVE  Parts(d, k, t, newChain(d), rotate(newChain(d), k, t), Update(d, k, t).data,
                 Update(d, k, t).updateAt)
<1> DEFINE f == newChain(d)
           g == rotate(f, k, t)
           e == Update(d, k, t).data
           u == Update(d, k, t).updateAt
<1>1. PartialChain(f) /\ DOMAIN f.issued = DOMAIN d.issued  BY PartialNewChain
<1>2. /\ e = cleanUpIssued(cleanUpCA(g, t), t)
      /\ u = minTime({findRotationDeadlineForCA(g), findRotationDeadlineForCerts(g),
                      findCleanUpDeadlineForCACerts(e), findCleanUpDeadlineForCerts(e)})
  BY DEF Update, update
<1>3. Rotates(d, t) <=> (mustRotateCA(f, t) \/ mustRotateCerts(f, t))
  BY DEF Rotates
<1>4. /\ mustRotateCA(f, t) => g = rotateAll(f, k, t)
      /\ ~ mustRotateCA(f, t) /\ mustRotateCerts(f, t) => g = rotateCertsWithOverlap(f, k, t)
      /\ ~ mustRotateCA(f, t) /\ ~ mustRotateCerts(f, t) => g = f
  BY DEF rotate
<1> HIDE DEF f, g, e, u
<1>5. BundlesKept(f, f, t)  BY DEF BundlesKept
<1>6. /\ PartialChain(g)
      /\ BundlesKept(f, g, t)
      /\ DOMAIN g.issued = DOMAIN d.issued
      /\ \/ Rotates(d, t) /\ g.ca.key = k /\ \A i \in DOMAIN d.issued : g.issued[i].key = k
         \/ Rotates(d, t) /\ g.ca = f.ca /\ \A i \in DOMAIN d.issued : g.issued[i].key = k
         \/ ~ Rotates(d, t) /\ g = f
  <2>1. CASE mustRotateCA(f, t)
    <3>1. /\ PartialChain(g) /\ g.ca.key = k /\ BundlesKept(f, g, t)
          /\ \A i \in DOMAIN g.issued : g.issued[i].key = k
      BY <1>1, <1>4, <2>1, PartialRotateAll
    <3>2. DOMAIN g.issued = DOMAIN f.issued
      BY <1>1, <3>1 DEF BundlesKept, PartialChain
    <3> QED  BY <1>1, <1>3, <2>1, <3>1, <3>2
  <2>2. CASE ~ mustRotateCA(f, t) /\ mustRotateCerts(f, t)
    <3>1. /\ PartialChain(g) /\ g.ca = f.ca /\ g.caCerts = f.caCerts
          /\ \A i \in DOMAIN g.issued : g.issued[i].key = k
      BY <1>1, <1>4, <2>2, PartialRotateCerts
    <3>2. DOMAIN g.issued = DOMAIN f.issued
      BY <1>1, <3>1 DEF PartialChain
    <3>3. BundlesKept(f, g, t)  BY <3>1, <1>5 DEF BundlesKept
    <3> QED  BY <1>1, <1>3, <2>2, <3>1, <3>2, <3>3
  <2>3. CASE ~ mustRotateCA(f, t) /\ ~ mustRotateCerts(f, t)
    BY <1>1, <1>3, <1>4, <1>5, <2>3
  <2> QED  BY <2>1, <2>2, <2>3
<1>7. /\ PartialChain(e) /\ e.ca = g.ca
      /\ DOMAIN e.issued = DOMAIN g.issued
      /\ \A i \in DOMAIN g.issued : e.issued[i].key = g.issued[i].key
      /\ BundlesKept(g, e, t)
  BY <1>2, <1>6, PartialCleanUp
<1>8. /\ u \in Int
      /\ u <= findRotationDeadlineForCA(g)
      /\ u <= findCleanUpDeadlineForCACerts(e)
      /\ u <= findCleanUpDeadlineForCerts(e)
  BY <1>2, <1>6, <1>7, PartialUpdateAt
<1>9. Parts(d, k, t, f, g, e, u)  BY <1>1, <1>6, <1>7, <1>8 DEF Parts
<1> QED  BY <1>9 DEF f, g, e, u

\* Update neither takes an unexpired CA out of a bundle nor adds more than one, whatever
\* mixture of old and new objects it is given.
THEOREM UpdateKeepsBundles ==
    ASSUME NEW d, PartialChain(d), NEW k \in Nat \ {0}, NEW t \in Nat
    PROVE  BundlesKept(d, Update(d, k, t).data, t)
<1> DEFINE f == newChain(d)
           g == rotate(f, k, t)
           e == Update(d, k, t).data
<1>1. f.caCerts = d.caCerts  BY PartialNewChain
<1>2. BundlesKept(f, g, t) /\ BundlesKept(g, e, t) /\ e.ca = g.ca
  BY UpdateParts DEF Parts
<1> HIDE DEF f, g, e
<1>3. DOMAIN e.caCerts = DOMAIN d.caCerts /\ DOMAIN g.caCerts = DOMAIN d.caCerts
  BY <1>1, <1>2 DEF BundlesKept
<1>4. ASSUME NEW b \in DOMAIN d.caCerts, NEW m \in DOMAIN d.caCerts[b], d.caCerts[b][m].notAfter > t
      PROVE  \E n \in DOMAIN e.caCerts[b] : e.caCerts[b][n] = d.caCerts[b][m]
  <2>1. PICK n \in DOMAIN g.caCerts[b] : g.caCerts[b][n] = d.caCerts[b][m]
    BY <1>1, <1>2, <1>4 DEF BundlesKept
  <2> QED  BY <1>2, <1>3, <1>4, <2>1 DEF BundlesKept
<1>5. ASSUME NEW b \in DOMAIN d.caCerts, NEW n \in DOMAIN e.caCerts[b]
      PROVE  \/ \E m \in DOMAIN d.caCerts[b] : e.caCerts[b][n] = d.caCerts[b][m]
             \/ e.caCerts[b][n] = e.ca.cert /\ e.ca.cert.notBefore <= t
  <2>1. \/ \E m \in DOMAIN g.caCerts[b] : e.caCerts[b][n] = g.caCerts[b][m]
        \/ e.caCerts[b][n] = e.ca.cert /\ e.ca.cert.notBefore <= t
    BY <1>2, <1>3 DEF BundlesKept
  <2>2. \A m \in DOMAIN g.caCerts[b] :
          \/ \E l \in DOMAIN d.caCerts[b] : g.caCerts[b][m] = d.caCerts[b][l]
          \/ g.caCerts[b][m] = g.ca.cert /\ g.ca.cert.notBefore <= t
    BY <1>1, <1>2 DEF BundlesKept
  <2> QED  BY <1>2, <2>1, <2>2
<1>6. BundlesKept(d, e, t)
  BY <1>3, <1>4, <1>5 DEF BundlesKept
<1> QED  BY <1>6 DEF e

\* The keys in the result of Update: when those in the chain are from earlier rotations,
\* then there are new ones exactly after a rotation.
LEMMA UpdateKeys ==
    ASSUME NEW d, PartialChain(d), NEW k \in Nat \ {0}, NEW t \in Nat,
           d.ca.key < k, \A i \in DOMAIN d.issued : d.issued[i].key < k
    PROVE  LET e == Update(d, k, t).data
           IN  /\ e.ca.key <= k
               /\ \A i \in DOMAIN e.issued : e.issued[i].key <= k
               /\ ~ Rotates(d, t) => /\ e.ca.key < k
                                     /\ \A i \in DOMAIN e.issued : e.issued[i].key < k
<1> DEFINE f == newChain(d)
           g == rotate(f, k, t)
           e == Update(d, k, t).data
<1>0. Parts(d, k, t, f, g, e, Update(d, k, t).updateAt)  BY UpdateParts
<1>1. PartialChain(f) /\ PartialChain(g)  BY <1>0 DEF Parts
<1>2. f.ca.key < k
  <2>1. f.ca \in {d.ca, [key |-> NoKey, cert |-> NoCert]}  BY PartialNewChain
  <2> HIDE DEF f
  <2> QED  BY <2>1 DEF NoKey
<1>3. ASSUME NEW i \in DOMAIN d.issued PROVE f.issued[i].key < k
  <2>1. f.issued[i] \in {d.issued[i], [key |-> NoKey, certs |-> << >>]}  BY PartialNewChain
  <2> HIDE DEF f
  <2> QED  BY <2>1 DEF NoKey
<1>4. /\ e.ca = g.ca
      /\ DOMAIN e.issued = DOMAIN d.issued
      /\ \A i \in DOMAIN d.issued : e.issued[i].key = g.issued[i].key
      /\ \/ Rotates(d, t) /\ g.ca.key = k /\ \A i \in DOMAIN d.issued : g.issued[i].key = k
         \/ Rotates(d, t) /\ g.ca = f.ca /\ \A i \in DOMAIN d.issued : g.issued[i].key = k
         \/ ~ Rotates(d, t) /\ g = f
  <2> HIDE DEF f, g, e
  <2> QED  BY <1>0 DEF Parts
<1>5. f.ca.key \in Nat /\ \A i \in DOMAIN d.issued : f.issued[i].key \in Nat
  <2>1. DOMAIN f.issued = DOMAIN d.issued  BY PartialNewChain
  <2> HIDE DEF f
  <2> QED  BY <1>1, <2>1 DEF PartialChain, CA, CertificateIssue
<1> HIDE DEF f, g, e
<1>6. e.ca.key <= k /\ (~ Rotates(d, t) => e.ca.key < k)
  BY <1>2, <1>4, <1>5
<1>7. ASSUME NEW i \in DOMAIN e.issued
      PROVE  e.issued[i].key <= k /\ (~ Rotates(d, t) => e.issued[i].key < k)
  BY <1>3, <1>4, <1>5
<1> QED  BY <1>6, <1>7 DEF e

\* A webhook whose bundle, service secret and CA Update leaves as they are is in order
\* until Update is to be called again, whatever Update had to do for other webhooks.
THEOREM UpdateUnchanged ==
    ASSUME NEW d, PartialChain(d), NEW k \in Nat \ {0}, NEW t \in Nat,
           NEW b \in DOMAIN d.caCerts,
           Update(d, k, t).data.ca.key # k,
           Update(d, k, t).data.issued[IssueOf[b]].key # k,
           Update(d, k, t).data.caCerts[b] = d.caCerts[b],
           d.issued[IssueOf[b]] \in {Update(d, k, t).data.issued[IssueOf[b]],
                                     [key |-> NoKey, certs |-> << >>]},
           NEW u \in t..Update(d, k, t).updateAt
    PROVE  LET e == Update(d, k, t).data
           IN  Settled(e.ca, e.issued[IssueOf[b]], e.caCerts[b], u)
<1> DEFINE f == newChain(d)
           g == rotate(f, k, t)
           e == Update(d, k, t).data
           i == IssueOf[b]
           l == e.caCerts[b]
           v == Update(d, k, t).updateAt
<1>1. /\ PartialChain(f) /\ PartialChain(e) /\ e.ca = g.ca
      /\ DOMAIN e.issued = DOMAIN d.issued
      /\ \A j \in DOMAIN d.issued : e.issued[j].key = g.issued[j].key
      /\ \/ Rotates(d, t) /\ g.ca.key = k /\ \A j \in DOMAIN d.issued : g.issued[j].key = k
         \/ Rotates(d, t) /\ g.ca = f.ca /\ \A j \in DOMAIN d.issued : g.issued[j].key = k
         \/ ~ Rotates(d, t) /\ g = f
      /\ v \in Int
      /\ v <= findRotationDeadlineForCA(g)
      /\ v <= findCleanUpDeadlineForCACerts(e)
      /\ v <= findCleanUpDeadlineForCerts(e)
  <2>1. Parts(d, k, t, f, g, e, v)  BY UpdateParts
  <2> HIDE DEF e, f, g, v
  <2> QED  BY <2>1 DEF Parts
<1>2. i \in DOMAIN d.issued  BY DEF PartialChain
<1>3. /\ f.caCerts = d.caCerts
      /\ f.issued[i] \in {d.issued[i], [key |-> NoKey, certs |-> << >>]}
      /\ DOMAIN f.issued = DOMAIN d.issued
  BY <1>2, PartialNewChain
<1>4. f.ca.key # NoKey \/ f.ca.cert = NoCert
  BY DEF newChain
<1>5. ~ Rotates(d, t) /\ g = f
  <2>1. e.ca.key # k /\ e.issued[i].key # k  OBVIOUS
  <2> HIDE DEF f, g, e, i, v
  <2> QED  BY <1>1, <1>2, <2>1
<1>6. ~ mustRotateCA(f, t)  BY <1>5 DEF Rotates
<1>7. u \in t..v /\ l = d.caCerts[b] /\ d.issued[i] \in {e.issued[i], [key |-> NoKey, certs |-> << >>]}
  OBVIOUS
<1>8. e.caCerts[b] = l  OBVIOUS
<1> HIDE DEF f, g, e, l, v
<1>9. /\ getLastCert(l) = f.ca.cert
      /\ VerifyTLS(f.issued[i], l, t)
      /\ ~ (t >= findRotationDeadlineForCA(f))
  BY <1>3, <1>6, <1>7 DEF mustRotateCA, verifyTLS
<1>10. e.issued[i] = f.issued[i]
  BY <1>3, <1>7, <1>9 DEF VerifyTLS
<1> HIDE DEF i
<1>11. /\ l \in BundleLists(f) /\ BundleLists(f) \in SUBSET Seq(Certificate)
       /\ l \in Seq(Certificate)
  BY <1>1, <1>3, <1>7, PartialLists
<1>12. /\ l \in BundleLists(e) /\ BundleLists(e) \in SUBSET Seq(Certificate)
       /\ e.issued[i].certs \in CertLists(e) /\ CertLists(e) \in SUBSET Seq(Certificate)
  <2>1. b \in DOMAIN e.caCerts
    <3>1. DOMAIN e.caCerts = DOMAIN d.caCerts  BY UpdateKeepsBundles DEF BundlesKept, e
    <3> QED  BY <3>1
  <2> QED  BY <1>1, <1>2, <1>8, <2>1, PartialLists
<1>13. /\ l # << >>
       /\ v <= l[Len(l)].notAfter - CAOverlapInterval
       /\ t < l[Len(l)].notAfter - CAOverlapInterval
       /\ CAOverlapInterval \in Nat
  <2> DEFINE x == findRotationDeadlineForCA(f)
             L == BundleLists(f)
  <2>1. CAOverlapInterval \in Nat  BY OptionsAssumption
  <2>2. x = RotationDeadline(L, CAOverlapInterval)  BY DEF findRotationDeadlineForCA
  <2>3. l \in L /\ L \in SUBSET Seq(Certificate)  BY <1>11
  <2>4. v <= x /\ ~ (t >= x)  BY <1>1, <1>5, <1>9
  <2> HIDE DEF x, L
  <2>5. /\ x \in Int
        /\ << >> \notin L => \A m \in L : x <= m[Len(m)].notAfter - CAOverlapInterval
        /\ L # {} => (t < x <=> \A m \in L : m # << >> /\ t < m[Len(m)].notAfter - CAOverlapInterval)
    BY <2>1, <2>2, <2>3, RotationDeadlineOf
  <2>6. t < x  BY <2>4, <2>5
  <2>7. \A m \in L : m # << >> /\ t < m[Len(m)].notAfter - CAOverlapInterval  BY <2>3, <2>5, <2>6
  <2>8. x <= l[Len(l)].notAfter - CAOverlapInterval  BY <2>3, <2>5, <2>7
  <2>9. l[Len(l)].notAfter \in Nat  BY <1>11, <2>3, <2>7, ListTypes
  <2> QED  BY <1>1, <2>1, <2>3, <2>4, <2>5, <2>7, <2>8, <2>9
<1>14. /\ \A n \in DOMAIN l : l[n].notBefore \in Nat /\ l[n].notAfter \in Nat /\ v <= l[n].notAfter
       /\ Len(l) \in DOMAIN l
  <2>1. /\ findCleanUpDeadlineForCACerts(e) \in Nat
        /\ \A n \in DOMAIN l : findCleanUpDeadlineForCACerts(e) <= l[n].notAfter
    BY <1>12, CleanUpDeadlineOf DEF findCleanUpDeadlineForCACerts
  <2> QED  BY <1>1, <1>11, <1>13, <2>1, ListTypes
<1>15. \A n \in DOMAIN e.issued[i].certs :
         /\ e.issued[i].certs[n].notBefore \in Nat /\ e.issued[i].certs[n].notAfter \in Nat
         /\ v <= e.issued[i].certs[n].notAfter
  <2>1. /\ findCleanUpDeadlineForCerts(e) \in Nat
        /\ \A n \in DOMAIN e.issued[i].certs :
             findCleanUpDeadlineForCerts(e) <= e.issued[i].certs[n].notAfter
    BY <1>12, CleanUpDeadlineOf DEF findCleanUpDeadlineForCerts
  <2>2. e.issued[i].certs \in Seq(Certificate)  BY <1>12
  <2> QED  BY <1>1, <2>1, <2>2, ListTypes
<1>16. u \in Int /\ t <= u /\ u <= v  BY <1>1, <1>7
<1>17. f.ca.cert = l[Len(l)] /\ e.ca = f.ca  BY <1>1, <1>5, <1>9, <1>13 DEF getLastCert
<1>18. u + CAOverlapInterval <= e.ca.cert.notAfter
  BY <1>1, <1>13, <1>14, <1>16, <1>17
<1>19. e.ca.cert # NoCert
  <2>1. l[Len(l)].notAfter > 0  BY <1>13, <1>14
  <2> QED  BY <1>17, <2>1 DEF NoCert, ZeroTime
<1>20. VerifyTLS(e.issued[i], l, u)
  <2> DEFINE s == e.issued[i]
  <2>1. s.key # NoKey /\ s.certs # << >> /\ VerifyCertificate(s.certs[1], l, t)
    BY <1>9, <1>10 DEF VerifyTLS
  <2>2. 1 \in DOMAIN s.certs
    <3>1. s.certs \in Seq(Certificate)  BY <1>12
    <3> QED  BY <2>1, <3>1, ListTypes
  <2>3. ValidAt(s.certs[1], u)
    <3>1. s.certs[1].notBefore <= t  BY <2>1 DEF VerifyCertificate, ValidAt
    <3>2. s.certs[1].notBefore \in Nat /\ s.certs[1].notAfter \in Nat /\ v <= s.certs[1].notAfter
      BY <1>15, <2>2
    <3> QED  BY <1>1, <1>16, <3>1, <3>2 DEF ValidAt
  <2>4. PICK n \in DOMAIN l : l[n].key = s.certs[1].signer /\ ValidAt(l[n], t)
    BY <2>1 DEF VerifyCertificate
  <2>5. ValidAt(l[n], u)
    BY <1>1, <1>14, <1>16, <2>4 DEF ValidAt
  <2> QED  BY <2>1, <2>3, <2>4, <2>5 DEF VerifyTLS, VerifyCertificate
<1>21. Settled(e.ca, e.issued[i], l, u)
  BY <1>4, <1>13, <1>17, <1>18, <1>19, <1>20 DEF Settled
<1> QED  BY <1>8, <1>21 DEF e, i

------------------------------------------------------------------------------------
(* Chains whose certificates are all fresh: an update leaves them in order.        *)

\* The certificates of a list are valid at time t and not yet to be replaced.
FreshList(list, overlap, t) ==
    \A n \in DOMAIN list : list[n].notBefore <= t /\ t + overlap < list[n].notAfter

FreshChain(d, t) ==
    /\ \A b \in DOMAIN d.caCerts : FreshList(d.caCerts[b], CAOverlapInterval, t)
    /\ \A i \in DOMAIN d.issued : FreshList(d.issued[i].certs, CertOverlapInterval, t)

\* All its webhooks are in order.
SettledChain(d, t) ==
    \A b \in DOMAIN d.caCerts : Settled(d.ca, d.issued[IssueOf[b]], d.caCerts[b], t)

\* A rotation of everything repairs a chain whose certificates are fresh.
LEMMA FreshRotateAll ==
    ASSUME NEW d, PartialChain(d), NEW k \in Nat \ {0}, NEW t \in Nat, FreshChain(d, t)
    PROVE  LET e == rotateAll(d, k, t)
           IN  FreshChain(e, t) /\ SettledChain(e, t)
<1> DEFINE e == rotateAll(d, k, t)
           ca == NewCA(k, t, CARotateInterval)
           kp == NewServerKeyPair(ca, k, t, CertRotateInterval)
<1>1. Replaced(d, e, ca, kp)  BY PartialRotateAll
<1>2. CAOverlapInterval \in Nat /\ CertOverlapInterval \in Nat  BY OptionsAssumption
<1>3. /\ ca \in CA /\ ca.key = k /\ ca.cert.key = k /\ kp.key = k /\ kp.cert.signer = k
      /\ ca.cert.notBefore <= t /\ t < ca.cert.notAfter - CAOverlapInterval
      /\ kp.cert.notBefore <= t /\ t < kp.cert.notAfter - CertOverlapInterval
      /\ kp.cert \in Certificate
  <2>1. /\ ca \in CA /\ ca.key = k /\ ca.cert.key = k
        /\ ca.cert.notBefore <= t /\ t < ca.cert.notAfter - CAOverlapInterval
    BY NewCAProperties
  <2> HIDE DEF ca
  <2> QED  BY <2>1, NewServerKeyPairProperties
<1> HIDE DEF e, ca, kp
<1>4. /\ ca.cert.notBefore <= t /\ t + CAOverlapInterval < ca.cert.notAfter
      /\ kp.cert.notBefore <= t /\ t + CertOverlapInterval < kp.cert.notAfter
      /\ ca.cert.notAfter \in Nat /\ kp.cert.notAfter \in Nat
  BY <1>2, <1>3 DEF CA, Certificate
<1>5. ASSUME NEW b \in DOMAIN d.caCerts
      PROVE  /\ e.caCerts[b] \in Seq(Certificate) /\ e.caCerts[b] # << >>
             /\ e.caCerts[b][Len(e.caCerts[b])] = ca.cert
             /\ Len(e.caCerts[b]) \in DOMAIN e.caCerts[b]
             /\ FreshList(e.caCerts[b], CAOverlapInterval, t)
  <2> DEFINE l == d.caCerts[b]
             x == ca.cert
             m == Append(l, x)
  <2>1. e.caCerts[b] = m  BY <1>1 DEF Replaced
  <2>2. l \in Seq(Certificate)  BY DEF PartialChain
  <2>3. x \in Certificate  BY <1>3 DEF CA
  <2>4. FreshList(l, CAOverlapInterval, t)  BY DEF FreshChain
  <2>5. x.notBefore <= t /\ t + CAOverlapInterval < x.notAfter  BY <1>4
  <2> HIDE DEF l, x
  <2>6. /\ m \in Seq(Certificate) /\ Len(m) = Len(l) + 1 /\ m[Len(m)] = x /\ m # << >>
        /\ \A n \in DOMAIN m : (n \in DOMAIN l /\ m[n] = l[n]) \/ m[n] = x
        /\ Len(m) \in DOMAIN m
    BY <2>2, <2>3
  <2> HIDE DEF m
  <2>7. FreshList(m, CAOverlapInterval, t)
    BY <2>4, <2>5, <2>6 DEF FreshList
  <2> QED  BY <2>1, <2>6, <2>7 DEF x
<1>6. ASSUME NEW i \in DOMAIN d.issued
      PROVE  /\ e.issued[i].key = k /\ e.issued[i].certs # << >> /\ e.issued[i].certs[1] = kp.cert
             /\ FreshList(e.issued[i].certs, CertOverlapInterval, t)
  <2>1. e.issued[i].key = k /\ e.issued[i].certs = <<kp.cert>>  BY <1>1, <1>3 DEF Replaced
  <2>2. <<kp.cert>> # << >> /\ <<kp.cert>>[1] = kp.cert
        /\ \A n \in DOMAIN <<kp.cert>> : <<kp.cert>>[n] = kp.cert
    OBVIOUS
  <2>3. FreshList(<<kp.cert>>, CertOverlapInterval, t)  BY <1>4, <2>2 DEF FreshList
  <2> QED  BY <2>1, <2>2, <2>3
<1>7. DOMAIN e.issued = DOMAIN d.issued /\ DOMAIN e.caCerts = DOMAIN d.caCerts  BY <1>1 DEF Replaced
<1>8. FreshChain(e, t)  BY <1>5, <1>6, <1>7 DEF FreshChain
<1>9. ASSUME NEW b \in DOMAIN e.caCerts
      PROVE  Settled(e.ca, e.issued[IssueOf[b]], e.caCerts[b], t)
  <2>1. IssueOf[b] \in DOMAIN d.issued /\ b \in DOMAIN d.caCerts  BY <1>7 DEF PartialChain
  <2>2. ca.key # NoKey /\ ca.cert # NoCert
    BY <1>2, <1>3, <1>4 DEF NoKey, NoCert, ZeroTime
  <2>3. ValidAt(ca.cert, t) /\ ValidAt(kp.cert, t)  BY <1>2, <1>4 DEF ValidAt
  <2>4. VerifyTLS(e.issued[IssueOf[b]], e.caCerts[b], t)
    BY <1>3, <1>5, <1>6, <2>1, <2>3 DEF VerifyTLS, VerifyCertificate, NoKey
  <2>5. t + CAOverlapInterval <= ca.cert.notAfter  BY <1>2, <1>4
  <2> QED  BY <1>1, <1>5, <2>1, <2>2, <2>4, <2>5 DEF Settled, Replaced
<1>10. SettledChain(e, t)  BY <1>9 DEF SettledChain
<1> QED  BY <1>8, <1>10 DEF e

\* No clean-up is due in a chain that is in order and whose certificates are fresh.
LEMMA FreshNotCleaned ==
    ASSUME NEW d, PartialChain(d), NEW t \in Nat, FreshChain(d, t), SettledChain(d, t),
           NEW b \in DOMAIN d.caCerts
    PROVE  cleanUpIssued(cleanUpCA(d, t), t) = d
<1>1. /\ BundleLists(d) \in SUBSET Seq(Certificate) /\ CertLists(d) \in SUBSET Seq(Certificate)
      /\ d.caCerts[b] \in BundleLists(d)
      /\ d.issued[IssueOf[b]].certs \in CertLists(d)
  BY PartialLists DEF PartialChain
<1>2. d.caCerts[b] # << >> /\ d.issued[IssueOf[b]].certs # << >>
  BY DEF SettledChain, Settled, VerifyTLS
<1>3. CAOverlapInterval \in Nat /\ CertOverlapInterval \in Nat  BY OptionsAssumption
<1>4. ASSUME NEW l \in BundleLists(d), NEW n \in DOMAIN l PROVE t < l[n].notAfter
  <2>1. FreshList(l, CAOverlapInterval, t)  BY DEF FreshChain, BundleLists
  <2>2. l[n].notAfter \in Nat  BY <1>1, ListTypes
  <2> QED  BY <1>3, <2>1, <2>2 DEF FreshList
<1>5. ASSUME NEW l \in CertLists(d), NEW n \in DOMAIN l PROVE t < l[n].notAfter
  <2>1. FreshList(l, CertOverlapInterval, t)  BY DEF FreshChain, CertLists
  <2>2. l[n].notAfter \in Nat  BY <1>1, ListTypes
  <2> QED  BY <1>3, <2>1, <2>2 DEF FreshList
<1>6. t < findCleanUpDeadlineForCACerts(d) /\ findCleanUpDeadlineForCACerts(d) \in Nat
  BY <1>1, <1>2, <1>4, CleanUpDeadlineOf DEF findCleanUpDeadlineForCACerts
<1>7. t < findCleanUpDeadlineForCerts(d) /\ findCleanUpDeadlineForCerts(d) \in Nat
  BY <1>1, <1>2, <1>5, CleanUpDeadlineOf DEF findCleanUpDeadlineForCerts
<1>8. cleanUpCA(d, t) = d  BY <1>6 DEF cleanUpCA
<1> QED  BY <1>7, <1>8 DEF cleanUpIssued

\* When the certificates of a chain are fresh, Update rotates only what is not in order,
\* and what it returns is in order.
LEMMA FreshUpdate ==
    ASSUME NEW d, PartialChain(d), NEW k \in Nat \ {0}, NEW t \in Nat, FreshChain(d, t),
           NEW c \in DOMAIN d.caCerts
    PROVE  LET e == Update(d, k, t).data
           IN  /\ SettledChain(e, t)
               /\ FreshChain(e, t)
               /\ SettledChain(d, t) => ~ Rotates(d, t)
<1> DEFINE f == newChain(d)
           g == rotate(f, k, t)
           e == Update(d, k, t).data
<1>1. /\ PartialChain(f) /\ f.caCerts = d.caCerts /\ DOMAIN f.issued = DOMAIN d.issued
      /\ f.ca \in {d.ca, [key |-> NoKey, cert |-> NoCert]}
      /\ \A i \in DOMAIN d.issued : f.issued[i] \in {d.issued[i], [key |-> NoKey, certs |-> << >>]}
  BY PartialNewChain
<1>2. e = cleanUpIssued(cleanUpCA(g, t), t)  BY DEF Update, update
<1>3. /\ mustRotateCA(f, t) => g = rotateAll(f, k, t)
      /\ ~ mustRotateCA(f, t) /\ ~ mustRotateCerts(f, t) => g = f
      /\ Rotates(d, t) <=> mustRotateCA(f, t) \/ mustRotateCerts(f, t)
  BY DEF rotate, Rotates
<1>4. f.ca.key # NoKey \/ f.ca.cert = NoCert  BY DEF newChain
<1>5. /\ d.ca.key # NoKey /\ d.ca.cert # NoCert => f.ca = d.ca
      /\ \A i \in DOMAIN d.issued :
           d.issued[i].key # NoKey /\ d.issued[i].certs # << >> => f.issued[i] = d.issued[i]
  BY DEF newChain
<1> HIDE DEF e, f, g
<1>6. FreshChain(f, t)
  <2>1. ASSUME NEW i \in DOMAIN f.issued PROVE FreshList(f.issued[i].certs, CertOverlapInterval, t)
    <3>1. CASE f.issued[i] = d.issued[i]  BY <1>1, <3>1 DEF FreshChain
    <3>2. CASE f.issued[i] = [key |-> NoKey, certs |-> << >>]
      <4>1. f.issued[i].certs = << >>  BY <3>2
      <4> QED  BY <4>1 DEF FreshList
    <3> QED  BY <1>1, <3>1, <3>2
  <2> QED  BY <1>1, <2>1 DEF FreshChain
<1>7. verifyTLS(f, t) => SettledChain(f, t) /\ ~ mustRotateCA(f, t) /\ ~ mustRotateCerts(f, t)
  <2> SUFFICES ASSUME verifyTLS(f, t)
               PROVE  SettledChain(f, t) /\ ~ mustRotateCA(f, t) /\ ~ mustRotateCerts(f, t)
    OBVIOUS
  <2>1. CAOverlapInterval \in Nat /\ CertOverlapInterval \in Nat  BY OptionsAssumption
  <2>2. ASSUME NEW b \in DOMAIN f.caCerts
        PROVE  /\ f.caCerts[b] # << >> /\ f.caCerts[b][Len(f.caCerts[b])] = f.ca.cert
               /\ t + CAOverlapInterval < f.ca.cert.notAfter /\ f.ca.cert.notAfter \in Nat
               /\ VerifyTLS(f.issued[IssueOf[b]], f.caCerts[b], t)
    <3>1. VerifyTLS(f.issued[IssueOf[b]], f.caCerts[b], t) /\ getLastCert(f.caCerts[b]) = f.ca.cert
      BY DEF verifyTLS
    <3>2. f.caCerts[b] \in Seq(Certificate)  BY <1>1 DEF PartialChain
    <3>3. f.caCerts[b] # << >>  BY <3>1 DEF VerifyTLS, VerifyCertificate
    <3>4. Len(f.caCerts[b]) \in DOMAIN f.caCerts[b]  BY <3>2, <3>3, ListTypes
    <3>5. f.caCerts[b][Len(f.caCerts[b])] = f.ca.cert  BY <3>1, <3>3 DEF getLastCert
    <3>6. t + CAOverlapInterval < f.ca.cert.notAfter
      BY <1>6, <3>4, <3>5 DEF FreshChain, FreshList
    <3> QED  BY <3>1, <3>2, <3>3, <3>4, <3>5, <3>6, ListTypes
  <2>3. SettledChain(f, t)
    <3> SUFFICES ASSUME NEW b \in DOMAIN f.caCerts
                 PROVE  Settled(f.ca, f.issued[IssueOf[b]], f.caCerts[b], t)
      BY DEF SettledChain
    <3>1. f.ca.cert # NoCert  BY <2>1, <2>2 DEF NoCert, ZeroTime
    <3>2. t + CAOverlapInterval <= f.ca.cert.notAfter  BY <2>1, <2>2
    <3> QED  BY <1>4, <2>2, <3>1, <3>2 DEF Settled
  <2>4. ~ (t >= findRotationDeadlineForCA(f))
    <3>1. BundleLists(f) \in SUBSET Seq(Certificate) /\ f.caCerts[c] \in BundleLists(f)
      BY <1>1, PartialLists
    <3>2. ASSUME NEW l \in BundleLists(f)
          PROVE  l # << >> /\ t < l[Len(l)].notAfter - CAOverlapInterval
      <4>1. PICK b \in DOMAIN f.caCerts : l = f.caCerts[b]  BY DEF BundleLists
      <4> QED  BY <2>1, <2>2, <4>1
    <3>3. /\ t < RotationDeadline(BundleLists(f), CAOverlapInterval)
          /\ RotationDeadline(BundleLists(f), CAOverlapInterval) \in Int
      BY <2>1, <3>1, <3>2, RotationDeadlineOf
    <3> QED  BY <3>3 DEF findRotationDeadlineForCA
  <2>5. ~ (t >= findRotationDeadlineForCerts(f))
    <3>1. CertLists(f) \in SUBSET Seq(Certificate) /\ f.issued[IssueOf[c]].certs \in CertLists(f)
      BY <1>1, PartialLists DEF PartialChain
    <3>2. ASSUME NEW l \in CertLists(f)
          PROVE  l # << >> /\ t < l[Len(l)].notAfter - CertOverlapInterval
      <4>1. PICK i \in DOMAIN f.issued : l = f.issued[i].certs  BY DEF CertLists
      <4>2. PICK b \in DOMAIN f.caCerts : i = IssueOf[b]  BY <1>1 DEF PartialChain
      <4>3. l # << >>  BY <2>2, <4>1, <4>2 DEF VerifyTLS
      <4>4. l \in Seq(Certificate)  BY <3>1
      <4>5. Len(l) \in DOMAIN l /\ l[Len(l)].notAfter \in Nat  BY <4>3, <4>4, ListTypes
      <4>6. t + CertOverlapInterval < l[Len(l)].notAfter
        BY <1>6, <4>1, <4>5 DEF FreshChain, FreshList
      <4> QED  BY <2>1, <4>3, <4>5, <4>6
    <3>3. /\ t < RotationDeadline(CertLists(f), CertOverlapInterval)
          /\ RotationDeadline(CertLists(f), CertOverlapInterval) \in Int
      BY <2>1, <3>1, <3>2, RotationDeadlineOf
    <3> QED  BY <3>3 DEF findRotationDeadlineForCerts
  <2> QED  BY <2>3, <2>4, <2>5 DEF mustRotateCA, mustRotateCerts
<1>8. SettledChain(d, t) => verifyTLS(f, t)
  <2> SUFFICES ASSUME SettledChain(d, t), NEW b \in DOMAIN f.caCerts
               PROVE  /\ getLastCert(f.caCerts[b]) = f.ca.cert
                      /\ VerifyTLS(f.issued[IssueOf[b]], f.caCerts[b], t)
    BY DEF verifyTLS
  <2>1. Settled(d.ca, d.issued[IssueOf[b]], d.caCerts[b], t)  BY <1>1 DEF SettledChain
  <2>2. IssueOf[b] \in DOMAIN d.issued  BY <1>1 DEF PartialChain
  <2>3. f.ca = d.ca /\ f.issued[IssueOf[b]] = d.issued[IssueOf[b]]
    BY <1>5, <2>1, <2>2 DEF Settled, VerifyTLS
  <2> QED  BY <1>1, <2>1, <2>3 DEF Settled, getLastCert
<1>9. /\ PartialChain(g) /\ FreshChain(g, t) /\ SettledChain(g, t)
      /\ DOMAIN g.caCerts = DOMAIN d.caCerts
  <2>1. CASE verifyTLS(f, t)  BY <1>1, <1>3, <1>6, <1>7, <2>1
  <2>2. CASE ~ verifyTLS(f, t)
    <3>1. g = rotateAll(f, k, t)  BY <1>3, <2>2 DEF mustRotateCA
    <3>2. FreshChain(g, t) /\ SettledChain(g, t)  BY <1>1, <1>6, <3>1, FreshRotateAll
    <3>3. PartialChain(g) /\ BundlesKept(f, g, t)  BY <1>1, <3>1, PartialRotateAll
    <3> QED  BY <1>1, <3>2, <3>3 DEF BundlesKept
  <2> QED  BY <2>1, <2>2
<1>10. e = g  BY <1>2, <1>9, FreshNotCleaned
<1>11. SettledChain(d, t) => ~ Rotates(d, t)  BY <1>3, <1>7, <1>8
<1>12. SettledChain(e, t) /\ FreshChain(e, t)  BY <1>9, <1>10
<1> QED  BY <1>11, <1>12 DEF e
====
