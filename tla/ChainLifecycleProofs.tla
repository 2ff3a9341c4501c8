---------------------------- MODULE ChainLifecycleProofs ----------------------------
(* Proofs about ChainLifecycle, for every value of its constants with an issue.     *)
EXTENDS ChainLifecycle, CertificateChainProofs

\* The bundles of an issue hold the unexpired CAs of the certificates served for it.
ServedTrusted ==
    \A b \in Bundles : \A s \in served[IssueOf[b]] :
        /\ s.cert.signer = s.ca.key
        /\ s.ca.notBefore <= now
        /\ now < s.ca.notAfter => \E n \in DOMAIN chain.caCerts[b] : chain.caCerts[b][n] = s.ca

\* The inductive invariant. What a reconcile establishes lasts until somebody
\* interferes, and the time has not passed the next reconcile by more than the lateness.
Inv ==
    /\ TypeOK
    /\ Consistent(chain, now)
    /\ intact => Established(chain) /\ NotOverdue(chain, wakeAt)
    /\ now <= wakeAt + MaxLateness
    /\ ServedTrusted

USE DEF vars

LEMMA InitInv == Init => Inv
<1> SUFFICES ASSUME Init PROVE Inv
  OBVIOUS
<1>1. /\ EmptyChain.ca = [key |-> NoKey, cert |-> NoCert]
      /\ \A i \in Issues : EmptyChain.issued[i].key = NoKey /\ EmptyChain.issued[i].certs = << >>
      /\ \A b \in Bundles : EmptyChain.caCerts[b] = << >>
  BY DEF EmptyChain
<1>2. NoCert \in Certificate /\ NoKey \in Nat /\ NoCert.notBefore = 0 /\ << >> \in Seq(Certificate)
  BY DEF NoCert, NoKey, ZeroTime, Certificate
<1>3. EmptyChain \in CertificateChainData
  <2>1. [key |-> NoKey, certs |-> << >>] \in CertificateIssue  BY <1>2 DEF CertificateIssue
  <2>2. [key |-> NoKey, cert |-> NoCert] \in CA  BY <1>2 DEF CA
  <2> QED  BY <1>2, <2>1, <2>2 DEF EmptyChain, CertificateChainData
<1>4. TypeOK
  <2>1. now \in Nat /\ serial \in Nat /\ wakeAt \in Nat /\ faults \in 0..MaxFaults
    BY TimeAssumption DEF Init
  <2>2. intact \in BOOLEAN  BY DEF Init
  <2>3. served \in [Issues -> SUBSET [cert : Certificate, ca : Certificate]]  BY DEF Init
  <2>4. chain \in CertificateChainData  BY <1>3 DEF Init
  <2> QED  BY <2>1, <2>2, <2>3, <2>4 DEF TypeOK
<1>5. Consistent(EmptyChain, StartTime)
  BY <1>1, <1>2, TimeAssumption DEF Consistent
<1>6. ServedTrusted
  BY BundlesAssumption DEF Init, ServedTrusted
<1> QED  BY <1>4, <1>5, <1>6, TimeAssumption DEF Init, Inv

\* Reconcile: theorem UpdateEstablishes, and the certificates it publishes are trusted.
LEMMA ReconcileInv ==
    ASSUME Issues # {}, Inv, Reconcile
    PROVE  /\ Inv'
           /\ intact'
           /\ wakeAt' > now
<1> DEFINE r == Update(chain, serial + 1, now)
<1>1. /\ chain \in CertificateChainData /\ serial \in Nat /\ now \in Nat /\ wakeAt \in Nat
      /\ faults \in 0..MaxFaults /\ Consistent(chain, now)
      /\ served \in [Issues -> SUBSET [cert : Certificate, ca : Certificate]]
  BY DEF Inv, TypeOK
<1>2. /\ r.data \in CertificateChainData
      /\ Consistent(r.data, now)
      /\ Established(r.data)
      /\ r.updateAt \in Nat
      /\ now < r.updateAt
      /\ NotOverdue(r.data, r.updateAt)
      /\ Retained(chain, r.data, now)
  <2>1. serial + 1 \in Nat \ {0}  BY <1>1
  <2> QED  BY <1>1, <2>1, UpdateEstablishes
<1>3. /\ chain' = r.data
      /\ serial' \in Nat
      /\ wakeAt' = RequeueAt(r.updateAt)
      /\ intact' = TRUE
      /\ served' = [i \in Issues |-> served[i] \cup Published(r.data, i)]
      /\ now' = now /\ faults' = faults
  BY <1>1 DEF Reconcile
<1> HIDE DEF r
<1>4. wakeAt' = r.updateAt  BY <1>1, <1>2, <1>3 DEF RequeueAt
<1>5. \A i \in Issues : \A s \in Published(r.data, i) :
        /\ s \in [cert : Certificate, ca : Certificate]
        /\ s.ca = r.data.ca.cert
        /\ \E n \in DOMAIN r.data.issued[i].certs : s.cert = r.data.issued[i].certs[n]
  <2> SUFFICES ASSUME NEW i \in Issues, NEW n \in DOMAIN r.data.issued[i].certs
               PROVE  [cert |-> r.data.issued[i].certs[n], ca |-> r.data.ca.cert]
                        \in [cert : Certificate, ca : Certificate]
    BY DEF Published
  <2>1. r.data.issued[i].certs[n] \in Certificate  BY <1>2, IssueTypes
  <2>2. r.data.ca.cert \in Certificate  BY <1>2, ChainTypes
  <2> QED  BY <2>1, <2>2
<1>6. TypeOK'
  <2>1. served' \in [Issues -> SUBSET [cert : Certificate, ca : Certificate]]
    BY <1>1, <1>3, <1>5
  <2>2. intact' \in BOOLEAN  BY <1>3
  <2>3. /\ now' \in Nat /\ serial' \in Nat /\ wakeAt' \in Nat /\ faults' \in 0..MaxFaults
        /\ chain' \in CertificateChainData
    BY <1>1, <1>2, <1>3, <1>4
  <2> QED  BY <2>1, <2>2, <2>3 DEF TypeOK
<1>7. Consistent(chain', now') /\ Established(chain') /\ NotOverdue(chain', wakeAt')
  BY <1>2, <1>3, <1>4
<1>8. now' <= wakeAt' + MaxLateness
  BY <1>1, <1>2, <1>3, <1>4, TimeAssumption
<1>9. ServedTrusted'
  <2> SUFFICES ASSUME NEW b \in Bundles, NEW s \in served'[IssueOf[b]]
               PROVE  /\ s.cert.signer = s.ca.key
                      /\ s.ca.notBefore <= now
                      /\ now < s.ca.notAfter
                           => \E n \in DOMAIN r.data.caCerts[b] : r.data.caCerts[b][n] = s.ca
    BY <1>3 DEF ServedTrusted
  <2>1. IssueOf[b] \in Issues  BY BundlesAssumption
  <2>2. CASE s \in served[IssueOf[b]]
    <3>1. /\ s.cert.signer = s.ca.key
          /\ s.ca.notBefore <= now
          /\ now < s.ca.notAfter => \E n \in DOMAIN chain.caCerts[b] : chain.caCerts[b][n] = s.ca
      BY <2>2 DEF Inv, ServedTrusted
    <3>2. ASSUME now < s.ca.notAfter
          PROVE  \E n \in DOMAIN r.data.caCerts[b] : r.data.caCerts[b][n] = s.ca
      <4>1. PICK n \in DOMAIN chain.caCerts[b] : chain.caCerts[b][n] = s.ca  BY <3>1, <3>2
      <4>2. chain.caCerts[b][n].notAfter \in Nat  BY <1>1, BundleTypes
      <4>3. chain.caCerts[b][n].notAfter > now  BY <1>1, <3>2, <4>1, <4>2
      <4> QED  BY <1>2, <4>1, <4>3 DEF Retained
    <3> QED  BY <3>1, <3>2
  <2>3. CASE s \in Published(r.data, IssueOf[b])
    <3>1. PICK n \in DOMAIN r.data.issued[IssueOf[b]].certs :
                 s.cert = r.data.issued[IssueOf[b]].certs[n]
      BY <1>5, <2>1, <2>3
    <3>2. s.ca = r.data.ca.cert  BY <1>5, <2>1, <2>3
    <3>3. s.cert.signer = r.data.ca.key /\ r.data.ca.cert.key = r.data.ca.key
      BY <1>2, <2>1, <3>1 DEF Consistent, Established
    <3>4. s.ca.notBefore <= now  BY <1>2, <3>2 DEF Consistent
    <3>5. \E m \in DOMAIN r.data.caCerts[b] : r.data.caCerts[b][m] = s.ca
      <4>1. Len(r.data.caCerts[b]) \in DOMAIN r.data.caCerts[b]
        BY <1>2, BundleTypes DEF Established
      <4> QED  BY <1>2, <3>2, <4>1 DEF Established
    <3> QED  BY <3>2, <3>3, <3>4, <3>5
  <2> QED  BY <1>3, <2>1, <2>2, <2>3
<1> QED  BY <1>1, <1>2, <1>3, <1>4, <1>6, <1>7, <1>8, <1>9 DEF Inv

\* Tick: only bounds on the time are disturbed.
LEMMA TickInv ==
    ASSUME Inv, Tick
    PROVE  Inv'
<1>1. /\ chain \in CertificateChainData /\ now \in Nat /\ wakeAt \in Nat
      /\ served \in [Issues -> SUBSET [cert : Certificate, ca : Certificate]]
  BY DEF Inv, TypeOK
<1>2. /\ now' = now + 1 /\ now < wakeAt + MaxLateness
      /\ chain' = chain /\ serial' = serial /\ wakeAt' = wakeAt /\ intact' = intact
      /\ faults' = faults /\ served' = served
  BY DEF Tick
<1>3. TypeOK'
  <2>1. now' \in Nat  BY <1>1, <1>2
  <2> QED  BY <1>2, <2>1 DEF Inv, TypeOK
<1>4. Consistent(chain', now')
  <2>1. Consistent(chain, now) /\ now + 1 \in Nat /\ now <= now + 1  BY <1>1 DEF Inv
  <2> QED  BY <1>1, <1>2, <2>1, ConsistentLater
<1>5. intact' => Established(chain') /\ NotOverdue(chain', wakeAt')
  BY <1>2 DEF Inv
<1>6. now' <= wakeAt' + MaxLateness  BY <1>1, <1>2, TimeAssumption
<1>7. ServedTrusted'
  <2> SUFFICES ASSUME NEW b \in Bundles, NEW s \in served[IssueOf[b]]
               PROVE  /\ s.cert.signer = s.ca.key
                      /\ s.ca.notBefore <= now + 1
                      /\ now + 1 < s.ca.notAfter
                           => \E n \in DOMAIN chain.caCerts[b] : chain.caCerts[b][n] = s.ca
    BY <1>2 DEF ServedTrusted
  <2>1. s.ca.notBefore \in Nat /\ s.ca.notAfter \in Nat
    BY <1>1, BundlesAssumption DEF Certificate
  <2> QED  BY <1>1, <2>1 DEF Inv, ServedTrusted
<1> QED  BY <1>3, <1>4, <1>5, <1>6, <1>7 DEF Inv

\* Interference: it is enough that the chain stays consistent and the history true.
LEMMA InterfereInv ==
    ASSUME Inv, Interfere,
           chain' \in CertificateChainData, Consistent(chain', now),
           served' \in [Issues -> SUBSET [cert : Certificate, ca : Certificate]],
           ServedTrusted'
    PROVE  Inv'
<1>1. /\ now \in Nat /\ wakeAt \in Nat /\ serial \in Nat /\ faults \in 0..MaxFaults
      /\ now <= wakeAt + MaxLateness
  BY DEF Inv, TypeOK
<1>2. /\ faults < MaxFaults /\ faults' = faults + 1 /\ intact' = FALSE
      /\ wakeAt' = (IF wakeAt > now THEN now ELSE wakeAt)
      /\ now' = now /\ serial' = serial
  BY DEF Interfere
<1>3. faults' \in 0..MaxFaults /\ wakeAt' \in Nat /\ now' <= wakeAt' + MaxLateness
  BY <1>1, <1>2, TimeAssumption
<1>4. intact' \in BOOLEAN  BY <1>2
<1>5. TypeOK'  BY <1>1, <1>2, <1>3, <1>4 DEF TypeOK
<1> QED  BY <1>2, <1>3, <1>5 DEF Inv

LEMMA LoseCAInv ==
    ASSUME Inv, LoseCA
    PROVE  Inv'
<1>1. chain \in CertificateChainData /\ now \in Nat /\ Consistent(chain, now)  BY DEF Inv, TypeOK
<1>2. PICK cert \in {NoCert, chain.ca.cert} :
             chain' = [chain EXCEPT !.ca = [key |-> NoKey, cert |-> cert]]
  BY DEF LoseCA
<1>3. NoCert \in Certificate /\ NoCert.notBefore = 0 /\ NoKey \in Nat
  BY DEF NoCert, NoKey, ZeroTime, Certificate
<1>4. cert \in Certificate  BY <1>1, <1>2, <1>3, ChainTypes
<1>5. chain = [ca |-> chain.ca, issued |-> chain.issued, caCerts |-> chain.caCerts]
  BY <1>1, ChainTypes
<1>6. /\ chain' = [ca |-> chain'.ca, issued |-> chain.issued, caCerts |-> chain.caCerts]
      /\ chain'.ca = [key |-> NoKey, cert |-> cert]
      /\ chain'.issued = chain.issued /\ chain'.caCerts = chain.caCerts
  BY <1>2, <1>5
<1>7. chain' \in CertificateChainData
  <2>1. chain'.ca \in CA  BY <1>3, <1>4, <1>6 DEF CA
  <2> QED  BY <1>1, <1>6, <2>1 DEF CertificateChainData
<1>8. Consistent(chain', now)
  <2>1. cert.notBefore <= now  BY <1>1, <1>2, <1>3 DEF Consistent
  <2> QED  BY <1>1, <1>6, <2>1 DEF Consistent
<1>9. served' = served /\ now' = now /\ Interfere
  <2>1. served' = served /\ Interfere  BY DEF LoseCA
  <2> QED  BY <2>1 DEF Interfere
<1>10. ServedTrusted'  BY <1>6, <1>9 DEF Inv, ServedTrusted
<1>11. served' \in [Issues -> SUBSET [cert : Certificate, ca : Certificate]]
  BY <1>9 DEF Inv, TypeOK
<1> QED  BY <1>7, <1>8, <1>9, <1>10, <1>11, InterfereInv

LEMMA LoseServiceInv ==
    ASSUME Inv, NEW i \in Issues, LoseService(i)
    PROVE  Inv'
<1>1. chain \in CertificateChainData /\ now \in Nat /\ Consistent(chain, now)  BY DEF Inv, TypeOK
<1>2. PICK key \in {NoKey, chain.issued[i].key}, certs \in {<< >>, chain.issued[i].certs} :
             /\ key = NoKey \/ certs = << >>
             /\ chain' = [chain EXCEPT !.issued[i] = [key |-> key, certs |-> certs]]
  BY DEF LoseService
<1>3. [key |-> key, certs |-> certs] \in CertificateIssue
  <2>1. chain.issued[i].key \in Nat /\ chain.issued[i].certs \in Seq(Certificate)
    BY <1>1, ChainTypes
  <2>2. << >> \in Seq(Certificate)  OBVIOUS
  <2>3. NoKey \in Nat  BY DEF NoKey
  <2>4. certs \in Seq(Certificate)  BY <1>2, <2>1, <2>2
  <2>5. key \in Nat  BY <1>2, <2>1, <2>3
  <2> QED  BY <2>4, <2>5 DEF CertificateIssue
<1>4. chain = [ca |-> chain.ca, issued |-> chain.issued, caCerts |-> chain.caCerts]
      /\ chain.issued \in [Issues -> CertificateIssue]
  BY <1>1, ChainTypes DEF CertificateChainData
<1>5. /\ chain' = [ca |-> chain.ca, issued |-> chain'.issued, caCerts |-> chain.caCerts]
      /\ chain'.issued = [chain.issued EXCEPT ![i] = [key |-> key, certs |-> certs]]
      /\ chain'.ca = chain.ca /\ chain'.caCerts = chain.caCerts
  BY <1>2, <1>4
<1>6. chain'.issued \in [Issues -> CertificateIssue]  BY <1>3, <1>4, <1>5
<1>7. chain' \in CertificateChainData
  BY <1>1, <1>5, <1>6 DEF CertificateChainData
<1>8. ASSUME NEW j \in Issues
      PROVE  \/ chain'.issued[j] = chain.issued[j]
             \/ /\ chain'.issued[j].key = NoKey \/ chain'.issued[j].certs = << >>
                /\ chain'.issued[j].certs = << >> \/ chain'.issued[j].certs = chain.issued[j].certs
  BY <1>2, <1>4, <1>5
<1>9. Consistent(chain', now)
  BY <1>1, <1>5, <1>8 DEF Consistent
<1>10. served' = served /\ now' = now /\ Interfere  BY DEF LoseService, Interfere
<1>11. ServedTrusted'  BY <1>5, <1>10 DEF Inv, ServedTrusted
<1>12. served' \in [Issues -> SUBSET [cert : Certificate, ca : Certificate]]
  BY <1>10 DEF Inv, TypeOK
<1> QED  BY <1>7, <1>9, <1>10, <1>11, <1>12, InterfereInv

LEMMA LoseBundleInv ==
    ASSUME Inv, NEW b \in Bundles, LoseBundle(b)
    PROVE  Inv'
<1> DEFINE old == chain.caCerts[b]
<1>1. chain \in CertificateChainData /\ now \in Nat /\ Consistent(chain, now)
      /\ served \in [Issues -> SUBSET [cert : Certificate, ca : Certificate]]
  BY DEF Inv, TypeOK
<1>2. PICK bundle \in {<< >>, SubSeq(old, 1, Len(old) - 1)} :
             chain' = [chain EXCEPT !.caCerts[b] = bundle]
  BY DEF LoseBundle
<1>3. old \in Seq(Certificate)  BY <1>1, ChainTypes
<1>4. /\ bundle \in Seq(Certificate)
      /\ \A n \in DOMAIN bundle : n \in DOMAIN old /\ bundle[n] = old[n]
  <2>1. CASE bundle = << >>  BY <2>1
  <2>2. CASE bundle = SubSeq(old, 1, Len(old) - 1)
    <3> HIDE DEF old
    <3> QED  BY <1>3, <2>2
  <2> QED  BY <1>2, <2>1, <2>2
<1>5. chain = [ca |-> chain.ca, issued |-> chain.issued, caCerts |-> chain.caCerts]
      /\ chain.caCerts \in [Bundles -> Seq(Certificate)]
  BY <1>1, ChainTypes DEF CertificateChainData
<1>6. /\ chain' = [ca |-> chain.ca, issued |-> chain.issued, caCerts |-> chain'.caCerts]
      /\ chain'.caCerts = [chain.caCerts EXCEPT ![b] = bundle]
      /\ chain'.ca = chain.ca /\ chain'.issued = chain.issued
  BY <1>2, <1>5
<1>7. chain'.caCerts \in [Bundles -> Seq(Certificate)]  BY <1>4, <1>5, <1>6
<1>8. chain' \in CertificateChainData
  BY <1>1, <1>6, <1>7 DEF CertificateChainData
<1>9. ASSUME NEW c \in Bundles, NEW n \in DOMAIN chain'.caCerts[c]
      PROVE  n \in DOMAIN chain.caCerts[c] /\ chain'.caCerts[c][n] = chain.caCerts[c][n]
  BY <1>4, <1>5, <1>6
<1>10. Consistent(chain', now)
  BY <1>1, <1>6, <1>9 DEF Consistent
<1>11. /\ served' = [served EXCEPT ![IssueOf[b]] = {}]
       /\ now' = now /\ Interfere
  BY DEF LoseBundle, Interfere
<1>12. served' \in [Issues -> SUBSET [cert : Certificate, ca : Certificate]]
  BY <1>1, <1>11
<1>13. ServedTrusted'
  <2> SUFFICES ASSUME NEW c \in Bundles, NEW s \in served'[IssueOf[c]]
               PROVE  /\ s.cert.signer = s.ca.key
                      /\ s.ca.notBefore <= now
                      /\ now < s.ca.notAfter
                           => \E n \in DOMAIN chain'.caCerts[c] : chain'.caCerts[c][n] = s.ca
    BY <1>11 DEF ServedTrusted
  <2>1. IssueOf[c] \in Issues  BY BundlesAssumption
  <2>2. IssueOf[c] # IssueOf[b] /\ s \in served[IssueOf[c]]
    BY <1>1, <1>11, <2>1
  <2>3. chain'.caCerts[c] = chain.caCerts[c]  BY <1>5, <1>6, <2>2
  <2> QED  BY <2>2, <2>3 DEF Inv, ServedTrusted
<1> QED  BY <1>8, <1>10, <1>11, <1>12, <1>13, InterfereInv

LEMMA StepInv ==
    ASSUME Issues # {}, Inv, [Next]_vars
    PROVE  Inv'
<1>1. CASE Reconcile  BY <1>1, ReconcileInv
<1>2. CASE Tick  BY <1>2, TickInv
<1>3. CASE LoseCA  BY <1>3, LoseCAInv
<1>4. CASE \E i \in Issues : LoseService(i)  BY <1>4, LoseServiceInv
<1>5. CASE \E b \in Bundles : LoseBundle(b)  BY <1>5, LoseBundleInv
<1>6. CASE UNCHANGED vars
  BY <1>6 DEF Inv, TypeOK, ServedTrusted
<1> QED  BY <1>1, <1>2, <1>3, <1>4, <1>5, <1>6 DEF Next

\* The invariant holds of every behaviour.
THEOREM Invariant ==
    ASSUME Issues # {}
    PROVE  Spec => []Inv
<1>1. Inv /\ [Next]_vars => Inv'  BY StepInv
<1> QED  BY <1>1, InitInv, PTL DEF Spec

\* Reconciling and interfering keep the stored chain well typed.
THEOREM TypeCorrect ==
    ASSUME Issues # {}
    PROVE  Spec => []TypeOK
<1>1. Inv => TypeOK  BY DEF Inv
<1> QED  BY <1>1, Invariant, PTL

\* What a reconcile leaves verifies: chain.Update repairs whatever of the CA, the services'
\* key pairs and the bundles is missing.
THEOREM Repairs ==
    ASSUME Issues # {}
    PROVE  Spec => ReconcileRepairs
<1>1. Inv /\ [Next]_vars => [Reconcile => Verify(chain', now)]_vars
  <2> SUFFICES ASSUME Inv, Reconcile PROVE Verify(chain', now)
    OBVIOUS
  <2>1. Inv' /\ intact' /\ wakeAt' > now  BY ReconcileInv
  <2>2. now' = now  BY DEF Reconcile
  <2>3. /\ chain' \in CertificateChainData /\ now \in Nat /\ wakeAt' \in Nat /\ now <= wakeAt'
        /\ Consistent(chain', now) /\ Established(chain') /\ NotOverdue(chain', wakeAt')
    BY <2>1, <2>2 DEF Inv, TypeOK
  <2> QED  BY <2>3, EstablishedVerifies
<1> QED  BY <1>1, Invariant, PTL DEF Spec, ReconcileRepairs

\* A second reconcile at the same time changes nothing and the next one is due later:
\* the controller does not rotate in a loop on the events of its own writes.
THEOREM Settles ==
    ASSUME Issues # {}
    PROVE  Spec => ReconcileSettles
<1>1. Inv /\ [Next]_vars =>
        [Reconcile => /\ wakeAt' > now
                      /\ ~ Rotates(chain', now)
                      /\ Update(chain', serial', now).data = chain']_vars
  <2> SUFFICES ASSUME Inv, Reconcile
               PROVE  /\ wakeAt' > now
                      /\ ~ Rotates(chain', now)
                      /\ Update(chain', serial', now).data = chain'
    OBVIOUS
  <2>1. Inv' /\ intact' /\ wakeAt' > now  BY ReconcileInv
  <2>2. now' = now  BY DEF Reconcile
  <2>3. /\ chain' \in CertificateChainData /\ now \in Nat /\ wakeAt' \in Nat /\ serial' \in Nat
        /\ Consistent(chain', now) /\ Established(chain') /\ NotOverdue(chain', wakeAt')
    BY <2>1, <2>2 DEF Inv, TypeOK
  <2>4. now < wakeAt'  BY <2>1, <2>3
  <2> QED  BY <2>1, <2>3, <2>4, EstablishedSettled DEF Rotates
<1> QED  BY <1>1, Invariant, PTL DEF Spec, ReconcileSettles

\* A certificate that was published for a service stays trusted by the CA bundles until
\* it or its CA expires, whatever is rotated and however late reconciles are.
THEOREM OldTrusted ==
    ASSUME Issues # {}
    PROVE  Spec => []OldCertificatesStayTrusted
<1>1. Inv => OldCertificatesStayTrusted
  <2> SUFFICES ASSUME Inv, NEW b \in Bundles, NEW s \in served[IssueOf[b]],
                      ValidAt(s.cert, now), now < s.ca.notAfter
               PROVE  VerifyCertificate(s.cert, chain.caCerts[b], now)
    BY DEF OldCertificatesStayTrusted
  <2>1. s \in [cert : Certificate, ca : Certificate] /\ now \in Nat
    BY BundlesAssumption DEF Inv, TypeOK
  <2>2. s.ca.notAfter \in Nat /\ s.ca.notBefore \in Nat  BY <2>1 DEF Certificate
  <2>3. s.cert.signer = s.ca.key /\ s.ca.notBefore <= now  BY DEF Inv, ServedTrusted
  <2>4. PICK n \in DOMAIN chain.caCerts[b] : chain.caCerts[b][n] = s.ca
    BY DEF Inv, ServedTrusted
  <2>5. ValidAt(s.ca, now)  BY <2>1, <2>2, <2>3 DEF ValidAt
  <2> QED  BY <2>3, <2>4, <2>5 DEF VerifyCertificate
<1> QED  BY <1>1, Invariant, PTL

\* As long as nobody interferes and reconciles are at most the overlaps late, the
\* certificate of every service's key is valid and trusted by the service's bundles.
THEOREM CurrentTrusted ==
    ASSUME Issues # {}, MaxLateness <= CAOverlapInterval, MaxLateness <= CertOverlapInterval
    PROVE  Spec => []CurrentCertificateTrusted
<1>1. Inv => CurrentCertificateTrusted
  <2> SUFFICES ASSUME Inv, intact, NEW b \in Bundles
               PROVE  /\ Current(IssueOf[b]).key = chain.issued[IssueOf[b]].key
                      /\ VerifyCertificate(Current(IssueOf[b]), chain.caCerts[b], now)
    BY DEF CurrentCertificateTrusted
  <2> DEFINE i == IssueOf[b]
             c == chain.issued[i].certs[Len(chain.issued[i].certs)]
             k == Len(chain.caCerts[b])
  <2>1. /\ chain \in CertificateChainData /\ now \in Nat /\ wakeAt \in Nat
        /\ Consistent(chain, now) /\ Established(chain) /\ NotOverdue(chain, wakeAt)
        /\ now <= wakeAt + MaxLateness
    BY DEF Inv, TypeOK
  <2>2. i \in Issues  BY BundlesAssumption
  <2> HIDE DEF i
  <2>3. chain.issued[i].key # NoKey /\ chain.issued[i].certs # << >>
    BY <2>1, <2>2 DEF Established
  <2>4. Len(chain.issued[i].certs) \in DOMAIN chain.issued[i].certs
    BY <2>1, <2>2, <2>3, IssueTypes
  <2>5. c.notAfter \in Nat /\ c.notBefore \in Nat  BY <2>1, <2>2, <2>4, IssueTypes
  <2>6. /\ c.signer = chain.ca.key /\ chain.ca.cert.key = chain.ca.key
        /\ c.notBefore <= now /\ chain.ca.cert.notBefore <= now
        /\ c.key = chain.issued[i].key
    BY <2>1, <2>2, <2>3, <2>4 DEF Consistent, Established
  <2>7. wakeAt <= c.notAfter - CertOverlapInterval
        /\ wakeAt <= chain.ca.cert.notAfter - CAOverlapInterval
    BY <2>1, <2>2 DEF NotOverdue
  <2>8. chain.ca.cert.notAfter \in Nat /\ chain.ca.cert.notBefore \in Nat
    BY <2>1, ChainTypes DEF Certificate
  <2>9. k \in DOMAIN chain.caCerts[b] /\ chain.caCerts[b][k] = chain.ca.cert
    BY <2>1, BundleTypes DEF Established
  <2>10. Current(i) = c  BY <2>3 DEF Current, getLastCert
  <2> HIDE DEF c, k
  <2>11. ValidAt(c, now)
    BY <2>1, <2>5, <2>6, <2>7, OptionsAssumption, TimeAssumption DEF ValidAt
  <2>12. ValidAt(chain.ca.cert, now)
    BY <2>1, <2>6, <2>7, <2>8, OptionsAssumption, TimeAssumption DEF ValidAt
  <2>13. VerifyCertificate(c, chain.caCerts[b], now)
    BY <2>6, <2>9, <2>11, <2>12 DEF VerifyCertificate
  <2> QED  BY <2>6, <2>10, <2>13 DEF i
<1> QED  BY <1>1, Invariant, PTL

\* When reconciles are never late the chain of an undisturbed cluster verifies at every
\* moment, as chain.Verify checks it.
THEOREM PunctualVerifies ==
    ASSUME Issues # {}, MaxLateness = 0
    PROVE  Spec => []ChainVerifies
<1>1. Inv => ChainVerifies
  <2> SUFFICES ASSUME Inv, intact PROVE Verify(chain, now)
    BY DEF ChainVerifies
  <2>1. /\ chain \in CertificateChainData /\ now \in Nat /\ wakeAt \in Nat
        /\ Consistent(chain, now) /\ Established(chain) /\ NotOverdue(chain, wakeAt)
        /\ now <= wakeAt + MaxLateness
    BY DEF Inv, TypeOK
  <2>2. now <= wakeAt  BY <2>1
  <2> QED  BY <2>1, <2>2, EstablishedVerifies
<1> QED  BY <1>1, Invariant, PTL

\* When reconciles are never late the CA is replaced only when its overlap begins, or
\* because somebody interfered.
THEOREM PunctualCARotation ==
    ASSUME Issues # {}, MaxLateness = 0
    PROVE  Spec => CARotatedOnlyWhenDue
<1> DEFINE due == nextRotationDeadlineForCert(chain.ca.cert, CAOverlapInterval)
<1>1. Inv /\ [Next]_vars =>
        [Reconcile /\ chain'.ca # chain.ca => ~ intact \/ now >= due]_vars
  <2> SUFFICES ASSUME Inv, Reconcile, intact, ~ (now >= due) PROVE chain'.ca = chain.ca
    OBVIOUS
  <2>1. /\ chain \in CertificateChainData /\ now \in Nat /\ wakeAt \in Nat /\ serial \in Nat
        /\ Consistent(chain, now) /\ Established(chain) /\ NotOverdue(chain, wakeAt)
        /\ now <= wakeAt
    BY DEF Inv, TypeOK
  <2>2. newChain(chain) = chain  BY <2>1, NewChainIdentity
  <2>3. verifyTLS(chain, now)  BY <2>1, EstablishedVerifies
  <2>4. now < findRotationDeadlineForCA(chain)
    <3>1. /\ BundleLists(chain) \in SUBSET Seq(Certificate)
          /\ \A l \in BundleLists(chain) : l # << >> /\ l[Len(l)] = chain.ca.cert
      <4>1. DOMAIN chain.caCerts = Bundles
            /\ \A b \in Bundles : chain.caCerts[b] \in Seq(Certificate)
        BY <2>1, ChainTypes
      <4> QED  BY <2>1, <4>1 DEF BundleLists, Established
    <3>2. BundleLists(chain) # {}
      <4>1. PICK b \in Bundles : TRUE  BY BundlesAssumption
      <4>2. b \in DOMAIN chain.caCerts  BY <2>1, ChainTypes
      <4> QED  BY <4>2 DEF BundleLists
    <3>3. now < chain.ca.cert.notAfter - CAOverlapInterval
      <4>1. chain.ca.cert.notAfter \in Nat /\ chain.ca.cert.notBefore \in Nat
        BY <2>1, ChainTypes DEF Certificate
      <4> QED  BY <2>1, <4>1, OptionsAssumption DEF nextRotationDeadlineForCert
    <3>4. CAOverlapInterval \in Nat  BY OptionsAssumption
    <3>5. \A l \in BundleLists(chain) :
            l # << >> /\ now < l[Len(l)].notAfter - CAOverlapInterval
      BY <3>1, <3>3
    <3> QED  BY <2>1, <3>1, <3>2, <3>4, <3>5, RotationDeadlineOf DEF findRotationDeadlineForCA
  <2>5. ~ mustRotateCA(chain, now)
    <3>1. findRotationDeadlineForCA(chain) \in Int
      <4>1. DOMAIN chain.caCerts = Bundles
            /\ \A b \in Bundles : chain.caCerts[b] \in Seq(Certificate)
        BY <2>1, ChainTypes
      <4>2. BundleLists(chain) \in SUBSET Seq(Certificate)  BY <4>1 DEF BundleLists
      <4>3. CAOverlapInterval \in Nat  BY OptionsAssumption
      <4> QED  BY <2>1, <4>2, <4>3, RotationDeadlineOf DEF findRotationDeadlineForCA
    <3> QED  BY <2>1, <2>3, <2>4, <3>1 DEF mustRotateCA
  <2> DEFINE r == rotate(chain, serial + 1, now)
             e == cleanUpCA(r, now)
  <2>6. chain = [ca |-> chain.ca, issued |-> chain.issued, caCerts |-> chain.caCerts]
    BY <2>1, ChainTypes
  <2>7. r.ca = chain.ca /\ r = [ca |-> r.ca, issued |-> r.issued, caCerts |-> r.caCerts]
    BY <2>5, <2>6 DEF rotate, rotateCertsWithOverlap
  <2>8. chain' = cleanUpIssued(e, now)
    BY <2>2 DEF Reconcile, Update, update
  <2> HIDE DEF r
  <2>9. e.ca = r.ca /\ e = [ca |-> e.ca, issued |-> e.issued, caCerts |-> e.caCerts]
    BY <2>7 DEF cleanUpCA, cleanUpCACerts
  <2> HIDE DEF e
  <2>10. chain'.ca = e.ca  BY <2>8, <2>9 DEF cleanUpIssued, cleanUpCerts
  <2> QED  BY <2>7, <2>9, <2>10
<1> QED  BY <1>1, Invariant, PTL DEF Spec, CARotatedOnlyWhenDue

------------------------------------------------------------------------------------
(* Refinement: the life of the chain implements Trust.                              *)

\* The CAs in the bundle of a webhook, as Trust sees them.
TrustedCAs(d, b) == {d.caCerts[b][n] : n \in DOMAIN d.caCerts[b]}

\* A reconcile is a publication: it keeps what is unexpired, adds only the CA and
\* leaves that in every bundle.
LEMMA ReconcilePublishes ==
    ASSUME Issues # {}, Inv, Reconcile
    PROVE  ClientTrust!Publish
<1> DEFINE r == Update(chain, serial + 1, now)
<1>1. /\ chain \in CertificateChainData /\ serial \in Nat /\ now \in Nat
      /\ Consistent(chain, now)
  BY DEF Inv, TypeOK
<1>2. /\ r.data \in CertificateChainData /\ Consistent(r.data, now) /\ Established(r.data)
      /\ r.updateAt \in Nat /\ now < r.updateAt /\ NotOverdue(r.data, r.updateAt)
      /\ Retained(chain, r.data, now) /\ OnlyCAAdded(chain, r.data)
  <2>1. serial + 1 \in Nat \ {0}  BY <1>1
  <2> QED  BY <1>1, <2>1, UpdateEstablishes
<1>3. chain' = r.data /\ now' = now /\ faults' = faults  BY DEF Reconcile
<1> HIDE DEF r
<1>4. ASSUME NEW b \in Bundles
      PROVE  /\ \A ca \in TrustedCAs(chain, b) : ca.notAfter > now => ca \in TrustedCAs(chain', b)
             /\ \A ca \in TrustedCAs(chain', b) \ TrustedCAs(chain, b) : ca = r.data.ca.cert
             /\ r.data.ca.cert \in TrustedCAs(chain', b)
  <2>1. \A ca \in TrustedCAs(chain, b) : ca.notAfter > now => ca \in TrustedCAs(chain', b)
    BY <1>2, <1>3 DEF Retained, TrustedCAs
  <2>2. \A ca \in TrustedCAs(chain', b) \ TrustedCAs(chain, b) : ca = r.data.ca.cert
    BY <1>2, <1>3 DEF OnlyCAAdded, TrustedCAs
  <2>3. r.data.ca.cert \in TrustedCAs(chain', b)
    <3>1. Len(r.data.caCerts[b]) \in DOMAIN r.data.caCerts[b]
      BY <1>2, BundleTypes DEF Established
    <3> QED  BY <1>2, <1>3, <3>1 DEF Established, TrustedCAs
  <2> QED  BY <2>1, <2>2, <2>3
<1>5. r.data.ca.cert.notBefore <= now  BY <1>2 DEF Consistent
<1>6. r.data.ca.cert.notAfter > now
  <2>1. r.data.ca.cert.notAfter \in Nat /\ CAOverlapInterval \in Nat
    BY <1>2, ChainTypes, OptionsAssumption DEF Certificate
  <2> QED  BY <1>1, <1>2, <2>1 DEF NotOverdue
<1> DEFINE old == [b \in Bundles |-> TrustedCAs(chain, b)]
           new == [b \in Bundles |-> TrustedCAs(chain', b)]
           added == UNION {new[b] \ old[b] : b \in DOMAIN old}
<1>7. \A ca \in added : ca = r.data.ca.cert  BY <1>4
<1>8. \A b \in Bundles : {ca \in old[b] : ca.notAfter > now} \subseteq new[b]  BY <1>4
<1>9. \A b \in Bundles : r.data.ca.cert \in {ca \in new[b] : ca.notAfter > now'}
  BY <1>3, <1>4, <1>6
<1> HIDE DEF added, old, new
<1>10. DOMAIN old = Bundles /\ DOMAIN new = Bundles  BY DEF old, new
<1>11. /\ DOMAIN new = DOMAIN old
       /\ \A b \in DOMAIN old : {ca \in old[b] : ca.notAfter > now} \subseteq new[b]
       /\ \A ca \in added : ca.notBefore <= now
       /\ \A ca1, ca2 \in added : ca1 = ca2
       /\ \A b \in DOMAIN new : chain'.ca.cert \in {ca \in new[b] : ca.notAfter > now'}
  BY <1>3, <1>5, <1>7, <1>8, <1>9, <1>10
<1> QED
  BY <1>3, <1>11 DEF ClientTrust!Publish, ClientTrust!SettledRightly, ClientTrust!Unexpired,
                     added, old, new, TrustedCAs

\* An interference that adds nothing to a bundle is one that Trust allows for.
LEMMA InterfereDisturbs ==
    ASSUME Interfere,
           \A b \in Bundles : TrustedCAs(chain', b) \subseteq TrustedCAs(chain, b)
    PROVE  ClientTrust!Disturb
<1>1. faults' = faults + 1 /\ intact' = FALSE /\ now' = now  BY DEF Interfere
<1> QED
  BY <1>1 DEF ClientTrust!Disturb, ClientTrust!SettledRightly, TrustedCAs

\* Every step of the chain's life is a step of Trust.
LEMMA StepTrust ==
    ASSUME Issues # {}, Inv, [Next]_vars
    PROVE  [ClientTrust!Next]_(ClientTrust!vars)
<1>1. chain \in CertificateChainData /\ now \in Nat  BY DEF Inv, TypeOK
<1>2. chain = [ca |-> chain.ca, issued |-> chain.issued, caCerts |-> chain.caCerts]
      /\ chain.caCerts \in [Bundles -> Seq(Certificate)]
  BY <1>1, ChainTypes DEF CertificateChainData
<1>3. CASE Reconcile  BY <1>3, ReconcilePublishes DEF ClientTrust!Next
<1>4. CASE Tick
  BY <1>1, <1>4 DEF Tick, ClientTrust!Next, ClientTrust!Pass
<1>5. CASE LoseCA
  <2>1. chain'.caCerts = chain.caCerts  BY <1>2, <1>5 DEF LoseCA
  <2>2. Interfere  BY <1>5 DEF LoseCA
  <2> QED  BY <2>1, <2>2, InterfereDisturbs DEF TrustedCAs, ClientTrust!Next
<1>6. CASE \E i \in Issues : LoseService(i)
  <2>1. chain'.caCerts = chain.caCerts  BY <1>2, <1>6 DEF LoseService
  <2>2. Interfere  BY <1>6 DEF LoseService
  <2> QED  BY <2>1, <2>2, InterfereDisturbs DEF TrustedCAs, ClientTrust!Next
<1>7. CASE \E b \in Bundles : LoseBundle(b)
  <2>1. PICK b \in Bundles : LoseBundle(b)  BY <1>7
  <2> DEFINE old == chain.caCerts[b]
  <2>2. PICK bundle \in {<< >>, SubSeq(old, 1, Len(old) - 1)} :
               chain' = [chain EXCEPT !.caCerts[b] = bundle]
    BY <2>1 DEF LoseBundle
  <2>3. old \in Seq(Certificate)  BY <1>2
  <2>4. \A n \in DOMAIN bundle : n \in DOMAIN old /\ bundle[n] = old[n]
    <3>1. CASE bundle = << >>  BY <3>1
    <3>2. CASE bundle = SubSeq(old, 1, Len(old) - 1)
      <4> HIDE DEF old
      <4> QED  BY <2>3, <3>2
    <3> QED  BY <2>2, <3>1, <3>2
  <2>5. chain'.caCerts = [chain.caCerts EXCEPT ![b] = bundle]  BY <1>2, <2>2
  <2>6. ASSUME NEW c \in Bundles PROVE TrustedCAs(chain', c) \subseteq TrustedCAs(chain, c)
    BY <1>2, <2>4, <2>5 DEF TrustedCAs
  <2>7. Interfere  BY <2>1 DEF LoseBundle
  <2> QED  BY <2>6, <2>7, InterfereDisturbs DEF ClientTrust!Next
<1>8. CASE UNCHANGED vars
  BY <1>8 DEF ClientTrust!vars
<1> QED  BY <1>3, <1>4, <1>5, <1>6, <1>7, <1>8 DEF Next

\* For any services, intervals and lateness, the life of the chain keeps the promise of
\* Trust: no unexpired CA is taken from a client by Update, all get the same new CA, and
\* an undisturbed chain has its CA in all bundles.
THEOREM TrustKept ==
    ASSUME Issues # {}
    PROVE  Spec => ImplementsTrust
<1>1. Init => ClientTrust!Init
  <2> SUFFICES ASSUME Init PROVE ClientTrust!Init
    OBVIOUS
  <2>1. now \in Nat /\ faults = 0 /\ intact = FALSE  BY TimeAssumption DEF Init
  <2>2. \A b \in Bundles : chain.caCerts[b] = << >>  BY DEF Init, EmptyChain
  <2> QED  BY <2>1, <2>2 DEF ClientTrust!Init
<1>2. Inv /\ [Next]_vars => [ClientTrust!Next]_(ClientTrust!vars)  BY StepTrust
<1> QED  BY <1>1, <1>2, Invariant, PTL DEF Spec, ImplementsTrust, ClientTrust!Spec

------------------------------------------------------------------------------------
(* The lengths of lists: how far the expiry dates in a list are apart.              *)

\* Certificates of the list that are k places apart expire at least k - f gaps apart: f of
\* the rotations between them did not wait for the overlap window.
Spread(l, gap, f) ==
    \A n, m \in DOMAIN l : n <= m => (m - n - f) * gap <= l[m].notAfter - l[n].notAfter

\* No certificate expires later than one that is issued for the duration at time t.
Dated(l, t, duration) == \A n \in DOMAIN l : l[n].notAfter <= Truncate(t + duration)

\* The expiry dates are less than the life of a certificate apart.
Span(l, duration) == \A n, m \in DOMAIN l : l[m].notAfter - l[n].notAfter < duration

LEMMA ProductsGrow ==
    ASSUME NEW x \in Int, NEW y \in Int, x <= y, NEW gap \in Nat
    PROVE  x * gap <= y * gap
<1>1. y - x \in Nat  OBVIOUS
<1>2. \A u \in Nat : u * gap \in Nat  OBVIOUS
<1>3. (y - x) * gap \in Nat  BY <1>1, <1>2
<1>4. (y - x) * gap = y * gap - x * gap  OBVIOUS
<1>5. x * gap \in Int /\ y * gap \in Int  OBVIOUS
<1> QED  BY <1>3, <1>4, <1>5

\* A later date is not truncated to an earlier one.
LEMMA TruncateGrows ==
    ASSUME NEW t \in Nat, NEW u \in Nat, t <= u
    PROVE  Truncate(t) <= Truncate(u)
<1>1. Second \in Nat \ {0}  BY GranularityAssumption
<1> DEFINE p == t \div Second
           q == u \div Second
<1>2. p \in Int /\ q \in Int  BY <1>1
<1>3. t % Second \in 0..(Second - 1) /\ u % Second \in 0..(Second - 1)  BY <1>1
<1>4. t = Second * p + (t % Second)  BY <1>1
<1>5. u = Second * q + (u % Second)  BY <1>1
<1> HIDE DEF p, q
<1>6. Second * p = p * Second /\ Second * q = q * Second /\ p * Second \in Int /\ q * Second \in Int
  BY <1>1, <1>2
<1>7. Truncate(t) = p * Second /\ Truncate(u) = q * Second
  BY <1>1, <1>3, <1>4, <1>5, <1>6 DEF Truncate
<1>8. p <= q
  <2> SUFFICES ASSUME q + 1 <= p PROVE FALSE
    BY <1>2
  <2>1. (q + 1) * Second <= p * Second
    <3>1. q + 1 \in Int /\ Second \in Nat  BY <1>1, <1>2
    <3> QED  BY <1>2, <3>1, ProductsGrow
  <2>2. (q + 1) * Second = q * Second + Second  BY <1>1, <1>2
  <2> QED  BY <1>1, <1>3, <1>4, <1>5, <1>6, <2>1, <2>2
<1>9. Second \in Nat  BY <1>1
<1> QED  BY <1>2, <1>7, <1>8, <1>9, ProductsGrow

LEMMA SpreadGrows ==
    ASSUME NEW l \in Seq(Certificate), NEW gap \in Nat, NEW f \in Int, NEW g \in Int, f <= g,
           Spread(l, gap, f)
    PROVE  Spread(l, gap, g)
<1> SUFFICES ASSUME NEW n \in DOMAIN l, NEW m \in DOMAIN l, n <= m
             PROVE  (m - n - g) * gap <= l[m].notAfter - l[n].notAfter
  BY DEF Spread
<1>1. n \in Int /\ m \in Int  OBVIOUS
<1>2. l[n].notAfter \in Nat /\ l[m].notAfter \in Nat  BY ListTypes
<1>3. (m - n - f) * gap <= l[m].notAfter - l[n].notAfter  BY DEF Spread
<1>4. (m - n - g) * gap <= (m - n - f) * gap
  <2>1. m - n - g \in Int /\ m - n - f \in Int /\ m - n - g <= m - n - f  BY <1>1
  <2> QED  BY <2>1, ProductsGrow
<1>5. (m - n - g) * gap \in Int /\ (m - n - f) * gap \in Int  BY <1>1
<1> QED  BY <1>2, <1>3, <1>4, <1>5

\* A certificate that is added after a regular rotation, and one that is added at any time.
LEMMA SpreadAppend ==
    ASSUME NEW l \in Seq(Certificate), NEW c \in Certificate, NEW gap \in Nat, NEW f \in Nat,
           \/ /\ Spread(l, gap, f)
              /\ l # << >> => l[Len(l)].notAfter + gap <= c.notAfter
           \/ /\ Spread(l, gap, f - 1)
              /\ l # << >> => l[Len(l)].notAfter <= c.notAfter
    PROVE  Spread(Append(l, c), gap, f)
<1> DEFINE a == Append(l, c)
<1>1. /\ a \in Seq(Certificate) /\ Len(a) = Len(l) + 1 /\ Len(l) \in Nat
      /\ DOMAIN a = 1..(Len(l) + 1) /\ DOMAIN l = 1..Len(l)
      /\ a[Len(l) + 1] = c /\ \A n \in DOMAIN l : a[n] = l[n]
  OBVIOUS
<1> HIDE DEF a
<1> SUFFICES ASSUME NEW n \in DOMAIN a, NEW m \in DOMAIN a, n <= m
             PROVE  (m - n - f) * gap <= a[m].notAfter - a[n].notAfter
  BY DEF Spread, a
<1>2. n \in Int /\ m \in Int  BY <1>1
<1>3. Spread(l, gap, f)
  <2>1. f - 1 \in Int /\ f - 1 <= f /\ f \in Int  OBVIOUS
  <2> QED  BY <2>1, SpreadGrows
<1>4. CASE m \in DOMAIN l
  <2>1. n \in DOMAIN l  BY <1>1, <1>2, <1>4
  <2> QED  BY <1>1, <1>3, <1>4, <2>1 DEF Spread
<1>5. CASE m \notin DOMAIN l /\ n \notin DOMAIN l
  <2>1. n = Len(l) + 1 /\ m = Len(l) + 1  BY <1>1, <1>5
  <2>2. m - n - f <= 0 /\ m - n - f \in Int  BY <1>2, <2>1
  <2>3. (m - n - f) * gap <= 0 * gap  BY <2>2, ProductsGrow
  <2>4. 0 * gap = 0  OBVIOUS
  <2>5. a[m].notAfter - a[n].notAfter = 0
    <3>1. c.notAfter \in Nat  BY DEF Certificate
    <3> QED  BY <1>1, <2>1, <3>1
  <2> QED  BY <2>3, <2>4, <2>5
<1>6. CASE m \notin DOMAIN l /\ n \in DOMAIN l
  <2> DEFINE k == Len(l)
             x == l[n].notAfter
             y == l[k].notAfter
  <2>1. m = k + 1 /\ a[m] = c /\ a[n] = l[n] /\ n <= k /\ k \in DOMAIN l /\ l # << >>
    BY <1>1, <1>2, <1>6
  <2>2. x \in Nat /\ y \in Nat /\ c.notAfter \in Nat /\ k \in Int
    <3>1. x \in Nat  BY <1>6, ListTypes
    <3>2. y \in Nat  BY <2>1, ListTypes
    <3>3. c.notAfter \in Nat  BY DEF Certificate
    <3> QED  BY <1>1, <3>1, <3>2, <3>3
  <2>5. a[m].notAfter = c.notAfter /\ a[n].notAfter = x  BY <2>1
  <2>6. DOMAIN l = 1..k /\ n \in Int  BY <1>1, <1>6
  <2>7. Spread(l, gap, f) => (k - n - f) * gap <= y - x  BY <1>6, <2>1 DEF Spread
  <2>8. Spread(l, gap, f - 1) => (k - n - (f - 1)) * gap <= y - x  BY <1>6, <2>1 DEF Spread
  <2>3. CASE Spread(l, gap, f) /\ (l # << >> => y + gap <= c.notAfter)
    <3>1. (k - n - f) * gap <= y - x /\ y + gap <= c.notAfter  BY <2>1, <2>3, <2>7
    <3>2. m - n - f = (k - n - f) + 1 /\ k - n - f \in Int  BY <2>1, <2>2, <2>6
    <3> HIDE DEF k, x, y
    <3>3. ((k - n - f) + 1) * gap = (k - n - f) * gap + gap /\ (k - n - f) * gap \in Int
      <4>1. \A u \in Int : (u + 1) * gap = u * gap + gap /\ u * gap \in Int  OBVIOUS
      <4> QED  BY <3>2, <4>1
    <3>4. \A u \in Int : u <= y - x => u + gap <= c.notAfter - x  BY <2>2, <3>1
    <3>5. (m - n - f) * gap = (k - n - f) * gap + gap  BY <3>2, <3>3
    <3>6. (k - n - f) * gap + gap <= c.notAfter - x  BY <3>1, <3>3, <3>4
    <3> QED  BY <2>5, <3>5, <3>6
  <2>4. CASE Spread(l, gap, f - 1) /\ (l # << >> => y <= c.notAfter)
    <3>1. (k - n - (f - 1)) * gap <= y - x /\ y <= c.notAfter  BY <2>1, <2>4, <2>8
    <3>2. m - n - f = k - n - (f - 1) /\ k - n - (f - 1) \in Int  BY <2>1, <2>2, <2>6
    <3> HIDE DEF k, x, y
    <3>3. (k - n - (f - 1)) * gap \in Int
      <4>1. \A u \in Int : u * gap \in Int  OBVIOUS
      <4> QED  BY <3>2, <4>1
    <3>4. \A u \in Int : u <= y - x => u <= c.notAfter - x  BY <2>2, <3>1
    <3>5. (k - n - (f - 1)) * gap <= c.notAfter - x  BY <3>1, <3>3, <3>4
    <3> QED  BY <2>5, <3>2, <3>5
  <2> QED  BY <2>3, <2>4
<1> QED  BY <1>4, <1>5, <1>6

\* A list of which some certificates were dropped.
LEMMA SpreadFrom ==
    ASSUME NEW l \in Seq(Certificate), NEW k \in Seq(Certificate), NEW p, FromPlaces(l, k, p),
           NEW gap \in Nat, NEW f \in Int, Spread(k, gap, f)
    PROVE  Spread(l, gap, f)
<1> SUFFICES ASSUME NEW n \in DOMAIN l, NEW m \in DOMAIN l, n <= m
             PROVE  (m - n - f) * gap <= l[m].notAfter - l[n].notAfter
  BY DEF Spread
<1>1. n \in 1..m /\ n \in Int /\ m \in Int  OBVIOUS
<1>2. /\ l[n] = k[p[n]] /\ l[m] = k[p[m]] /\ p[n] \in DOMAIN k /\ p[m] \in DOMAIN k
      /\ m - n <= p[m] - p[n]
  BY <1>1 DEF FromPlaces
<1>3. p[n] \in Int /\ p[m] \in Int /\ p[n] <= p[m]
  <2>1. DOMAIN k = 1..Len(k) /\ Len(k) \in Nat  OBVIOUS
  <2>2. \A u \in 1..Len(k) : u \in Int  BY <2>1
  <2>3. p[n] \in Int /\ p[m] \in Int  BY <1>2, <2>1, <2>2
  <2> QED  BY <1>1, <1>2, <2>3
<1>4. (p[m] - p[n] - f) * gap <= k[p[m]].notAfter - k[p[n]].notAfter  BY <1>2, <1>3 DEF Spread
<1>5. (m - n - f) * gap <= (p[m] - p[n] - f) * gap
  <2>1. \A a, b, c, d \in Int : /\ a - b - f \in Int /\ c - d - f \in Int
                                /\ a - b <= c - d => a - b - f <= c - d - f
    OBVIOUS
  <2>2. m - n - f \in Int /\ p[m] - p[n] - f \in Int /\ m - n - f <= p[m] - p[n] - f
    BY <1>1, <1>2, <1>3, <2>1
  <2> QED  BY <2>2, ProductsGrow
<1>6. k[p[m]].notAfter \in Nat /\ k[p[n]].notAfter \in Nat  BY <1>2, ListTypes
<1>7. (m - n - f) * gap \in Int /\ (p[m] - p[n] - f) * gap \in Int
  <2>1. \A u \in Int : u * gap \in Int  OBVIOUS
  <2>2. m - n - f \in Int /\ p[m] - p[n] - f \in Int  BY <1>1, <1>3
  <2> QED  BY <2>1, <2>2
<1> DEFINE x == (m - n - f) * gap
           y == (p[m] - p[n] - f) * gap
           u == k[p[m]].notAfter
           v == k[p[n]].notAfter
<1>8. x \in Int /\ y \in Int /\ u \in Nat /\ v \in Nat /\ x <= y /\ y <= u - v
  BY <1>4, <1>5, <1>6, <1>7
<1> HIDE DEF x, y, u, v
<1>9. x <= u - v  BY <1>8
<1>10. l[m].notAfter = u /\ l[n].notAfter = v  BY <1>2 DEF u, v
<1> QED  BY <1>9, <1>10 DEF x

\* What this says of the length of a list.
LEMMA SpreadLength ==
    ASSUME NEW l \in Seq(Certificate), NEW gap \in Nat, NEW duration \in Nat \ {0},
           NEW f \in Int, NEW g \in Nat, f <= g, Spread(l, gap, f), Span(l, duration)
    PROVE  (Len(l) - 1 - g) * gap < duration
<1>1. Len(l) \in Nat /\ DOMAIN l = 1..Len(l)  OBVIOUS
<1>2. CASE Len(l) = 0
  <2>1. Len(l) - 1 - g \in Int /\ Len(l) - 1 - g <= 0  BY <1>2
  <2>2. (Len(l) - 1 - g) * gap <= 0 * gap  BY <2>1, ProductsGrow
  <2>3. (Len(l) - 1 - g) * gap \in Int /\ 0 * gap = 0  BY <2>1
  <2> QED  BY <2>2, <2>3
<1>3. CASE Len(l) # 0
  <2>1. 1 \in DOMAIN l /\ Len(l) \in DOMAIN l /\ 1 <= Len(l)  BY <1>1, <1>3
  <2>2. Spread(l, gap, g)  BY SpreadGrows
  <2>3. (Len(l) - 1 - g) * gap <= l[Len(l)].notAfter - l[1].notAfter  BY <2>1, <2>2 DEF Spread
  <2>4. l[Len(l)].notAfter - l[1].notAfter < duration  BY <2>1 DEF Span
  <2>5. l[1].notAfter \in Nat /\ l[Len(l)].notAfter \in Nat  BY <2>1, ListTypes
  <2>6. (Len(l) - 1 - g) * gap \in Int  BY <1>1
  <2> QED  BY <2>3, <2>4, <2>5, <2>6
<1> QED  BY <1>2, <1>3

------------------------------------------------------------------------------------
(* The lists of a chain, and what Update does to them.                              *)

\* newChain takes the key pair of issue i for one.
Decodes(d, i) == d.issued[i].key # NoKey /\ d.issued[i].certs # << >>

LastOf(l) == l[Len(l)].notAfter

\* The key pairs of all issues are replaced together, so their last certificates expire
\* together.
Aligned(d) ==
    \A i, j \in Issues :
        Decodes(d, i) /\ Decodes(d, j) => LastOf(d.issued[i].certs) = LastOf(d.issued[j].certs)

\* The lists of a chain, where f of the rotations of the CA were not due.
SpreadChain(d, f, t) ==
    /\ \A b \in Bundles : /\ Spread(d.caCerts[b], CAGap, f)
                          /\ Dated(d.caCerts[b], t, CARotateInterval)
    /\ \A i \in Issues : /\ Spread(d.issued[i].certs, CertGap, 0)
                         /\ Dated(d.issued[i].certs, t, CertRotateInterval)

SpanChain(d) ==
    /\ \A b \in Bundles : Span(d.caCerts[b], CARotateInterval)
    /\ \A i \in Issues : Span(d.issued[i].certs, CertRotateInterval)

LEMMA Gaps == CAGap \in Nat \ {0} /\ CertGap \in Nat \ {0}
BY OptionsAssumption, GranularityAssumption DEF CAGap, CertGap

LEMMA EmptySpread ==
    ASSUME NEW gap, NEW f, NEW t, NEW duration
    PROVE  Spread(<< >>, gap, f) /\ Dated(<< >>, t, duration) /\ Span(<< >>, duration)
BY DEF Spread, Dated, Span

LEMMA DatedLater ==
    ASSUME NEW l \in Seq(Certificate), NEW t \in Nat, NEW u \in Nat, t <= u, NEW duration \in Nat,
           Dated(l, t, duration)
    PROVE  Dated(l, u, duration)
<1>1. Truncate(t + duration) <= Truncate(u + duration)
  <2>1. t + duration \in Nat /\ u + duration \in Nat /\ t + duration <= u + duration  OBVIOUS
  <2> QED  BY <2>1, TruncateGrows
<1>2. Truncate(t + duration) \in Nat /\ Truncate(u + duration) \in Nat
  <2>1. t + duration \in Nat /\ u + duration \in Nat  OBVIOUS
  <2> QED  BY <2>1, TruncateBounds
<1> SUFFICES ASSUME NEW n \in DOMAIN l PROVE l[n].notAfter <= Truncate(u + duration)
  BY DEF Dated
<1>3. l[n].notAfter \in Nat  BY ListTypes
<1>4. l[n].notAfter <= Truncate(t + duration)  BY DEF Dated
<1> QED  BY <1>1, <1>2, <1>3, <1>4

\* Decoding forgets lists, and keeps the others.
LEMMA NewChainSpread ==
    ASSUME NEW d \in CertificateChainData, NEW f \in Int, NEW t \in Nat,
           SpreadChain(d, f, t), Aligned(d)
    PROVE  SpreadChain(newChain(d), f, t) /\ Aligned(newChain(d))
<1> DEFINE e == newChain(d)
<1>1. DOMAIN d.issued = Issues  BY ChainTypes
<1>2. e.caCerts = d.caCerts  BY DEF newChain
<1>3. \A i \in Issues : \/ e.issued[i] = d.issued[i] /\ Decodes(d, i)
                        \/ e.issued[i] = [key |-> NoKey, certs |-> << >>]
  <2>1. \A i \in Issues : e.issued[i] = IF d.issued[i].key = NoKey \/ d.issued[i].certs = << >>
                                          THEN [key |-> NoKey, certs |-> << >>]
                                          ELSE d.issued[i]
    BY <1>1 DEF newChain
  <2> QED  BY <2>1, Zenon DEF Decodes
<1> HIDE DEF e
<1>4. \A i \in Issues : e.issued[i].certs = d.issued[i].certs \/ e.issued[i].certs = << >>
  <2>1. [key |-> NoKey, certs |-> << >>].certs = << >>  OBVIOUS
  <2> QED  BY <1>3, <2>1, Zenon
<1>5. SpreadChain(e, f, t)
  <2>1. ASSUME NEW i \in Issues
        PROVE  /\ Spread(e.issued[i].certs, CertGap, 0)
               /\ Dated(e.issued[i].certs, t, CertRotateInterval)
    BY <1>4, EmptySpread, Zenon DEF SpreadChain
  <2> QED  BY <1>2, <2>1, Zenon DEF SpreadChain
<1>6. Aligned(e)
  <2> SUFFICES ASSUME NEW i \in Issues, NEW j \in Issues, Decodes(e, i), Decodes(e, j)
               PROVE  LastOf(e.issued[i].certs) = LastOf(e.issued[j].certs)
    BY DEF Aligned
  <2>1. e.issued[i] = d.issued[i] /\ Decodes(d, i)  BY <1>3 DEF Decodes
  <2>2. e.issued[j] = d.issued[j] /\ Decodes(d, j)  BY <1>3 DEF Decodes
  <2> QED  BY <2>1, <2>2, Zenon DEF Aligned
<1> QED  BY <1>5, <1>6 DEF e

\* A list of one certificate.
LEMMA SingleSpread ==
    ASSUME NEW c \in Certificate, NEW gap \in Nat, NEW t \in Nat, NEW duration \in Nat,
           c.notAfter = Truncate(t + duration)
    PROVE  Spread(<<c>>, gap, 0) /\ Dated(<<c>>, t, duration) /\ LastOf(<<c>>) = c.notAfter
<1>1. c.notAfter \in Nat  BY DEF Certificate
<1>2. DOMAIN <<c>> = {1} /\ <<c>>[1] = c /\ Len(<<c>>) = 1  OBVIOUS
<1>3. (1 - 1 - 0) * gap = 0  OBVIOUS
<1>4. c.notAfter - c.notAfter = 0  BY <1>1
<1>5. Spread(<<c>>, gap, 0)
  <2> SUFFICES ASSUME NEW n \in DOMAIN <<c>>, NEW m \in DOMAIN <<c>>
               PROVE  (m - n - 0) * gap <= <<c>>[m].notAfter - <<c>>[n].notAfter
    BY DEF Spread
  <2>1. n = 1 /\ m = 1  BY <1>2
  <2> QED  BY <1>2, <1>3, <1>4, <2>1
<1>6. Dated(<<c>>, t, duration)
  <2> SUFFICES ASSUME NEW n \in DOMAIN <<c>> PROVE <<c>>[n].notAfter <= Truncate(t + duration)
    BY DEF Dated
  <2>1. n = 1  BY <1>2
  <2> QED  BY <1>1, <1>2, <2>1
<1> QED  BY <1>2, <1>5, <1>6 DEF LastOf

\* A list to which a new certificate is added.
LEMMA DatedAppend ==
    ASSUME NEW l \in Seq(Certificate), NEW c \in Certificate, NEW t \in Nat, NEW duration \in Nat,
           c.notAfter = Truncate(t + duration), Dated(l, t, duration)
    PROVE  /\ Append(l, c) \in Seq(Certificate)
           /\ Dated(Append(l, c), t, duration)
           /\ LastOf(Append(l, c)) = c.notAfter
           /\ l # << >> => l[Len(l)].notAfter <= c.notAfter
<1> DEFINE a == Append(l, c)
<1>1. /\ a \in Seq(Certificate) /\ a[Len(a)] = c
      /\ \A n \in DOMAIN a : a[n] = c \/ (n \in DOMAIN l /\ a[n] = l[n])
  BY AppendCert
<1>2. c.notAfter \in Nat  BY DEF Certificate
<1> HIDE DEF a
<1>3. Dated(a, t, duration)
  <2> SUFFICES ASSUME NEW n \in DOMAIN a PROVE a[n].notAfter <= Truncate(t + duration)
    BY DEF Dated
  <2>1. CASE a[n] = c  BY <1>2, <2>1
  <2>2. CASE n \in DOMAIN l /\ a[n] = l[n]  BY <2>2 DEF Dated
  <2> QED  BY <1>1, <2>1, <2>2
<1>4. l # << >> => l[Len(l)].notAfter <= c.notAfter
  <2>1. l # << >> => Len(l) \in DOMAIN l  BY ListTypes
  <2> QED  BY <2>1 DEF Dated
<1> QED  BY <1>1, <1>3, <1>4 DEF a, LastOf

\* All is replaced, when the CA is due or once at any other time.
LEMMA RotateAllSpread ==
    ASSUME NEW d \in CertificateChainData, NEW s \in Nat \ {0}, NEW t \in Nat, NEW f \in Nat,
           \/ SpreadChain(d, f - 1, t)
           \/ /\ SpreadChain(d, f, t)
              /\ \A b \in Bundles : /\ d.caCerts[b] # << >>
                                    /\ LastOf(d.caCerts[b]) - CAOverlapInterval <= t
    PROVE  SpreadChain(rotateAll(d, s, t), f, t) /\ Aligned(rotateAll(d, s, t))
<1> DEFINE ca == NewCA(s, t, CARotateInterval)
           kp == NewServerKeyPair(ca, s, t, CertRotateInterval)
           e == rotateAll(d, s, t)
<1>1. /\ ca \in CA /\ ca.cert \in Certificate
      /\ ca.cert.notAfter = Truncate(t + CARotateInterval)
  <2>1. ca \in CA  BY NewCAProperties
  <2>2. ca.cert \in Certificate  BY <2>1 DEF CA
  <2>3. ca.cert.notAfter = Truncate(t + CARotateInterval)  BY DEF NewCA, NewSelfSignedCACert
  <2> QED  BY <2>1, <2>2, <2>3
<1>2. kp.cert \in Certificate /\ kp.cert.notAfter = Truncate(t + CertRotateInterval)
  <2>1. kp.cert.notAfter = Truncate(t + CertRotateInterval)  BY DEF NewServerKeyPair, NewSignedCert
  <2> HIDE DEF ca
  <2>2. kp.cert \in Certificate  BY <1>1, NewServerKeyPairProperties
  <2> QED  BY <2>1, <2>2
<1>3. /\ \A b \in Bundles : e.caCerts[b] = Append(d.caCerts[b], ca.cert)
      /\ \A i \in Issues : e.issued[i].certs = <<kp.cert>>
  <2>1. DOMAIN d.caCerts = Bundles /\ DOMAIN d.issued = Issues  BY ChainTypes
  <2> HIDE DEF ca
  <2> DEFINE g == setCaKeyPair(d, ca)
  <2>2. /\ g = [ca |-> g.ca, issued |-> g.issued, caCerts |-> g.caCerts]
        /\ g.ca = ca /\ g.issued = d.issued
        /\ g.caCerts = [b \in Bundles |-> Append(d.caCerts[b], ca.cert)]
    BY <2>1 DEF setCaKeyPair
  <2>3. e = rotateCertsWithoutOverlap(g, s, t)  BY DEF rotateAll, ca
  <2> HIDE DEF e, g
  <2>4. /\ e.caCerts = g.caCerts
        /\ e.issued = [i \in Issues |-> setKeyResetCert(d.issued[i], kp)]
    BY <2>1, <2>2, <2>3 DEF rotateCertsWithoutOverlap
  <2> HIDE DEF kp
  <2> QED  BY <2>2, <2>4 DEF setKeyResetCert
<1> HIDE DEF ca, kp, e
<1>4. CARotateInterval \in Nat /\ CertRotateInterval \in Nat /\ CAOverlapInterval \in Nat
  BY OptionsAssumption
<1>5. CAGap \in Nat /\ CertGap \in Nat  BY Gaps
<1>6. ASSUME NEW b \in Bundles
      PROVE  Spread(e.caCerts[b], CAGap, f) /\ Dated(e.caCerts[b], t, CARotateInterval)
  <2> DEFINE l == d.caCerts[b]
  <2>1. l \in Seq(Certificate)  BY ChainTypes
  <2>2. Dated(l, t, CARotateInterval)  BY DEF SpreadChain
  <2>3. \/ Spread(l, CAGap, f - 1)
        \/ Spread(l, CAGap, f) /\ l # << >> /\ LastOf(l) - CAOverlapInterval <= t
    BY DEF SpreadChain
  <2> HIDE DEF l
  <2>4. /\ Dated(Append(l, ca.cert), t, CARotateInterval)
        /\ l # << >> => l[Len(l)].notAfter <= ca.cert.notAfter
    BY <1>1, <1>4, <2>1, <2>2, DatedAppend
  <2>5. l # << >> /\ LastOf(l) - CAOverlapInterval <= t
          => l[Len(l)].notAfter + CAGap <= ca.cert.notAfter
    <3> SUFFICES ASSUME l # << >>, l[Len(l)].notAfter - CAOverlapInterval <= t
                 PROVE  l[Len(l)].notAfter + CAGap <= Truncate(t + CARotateInterval)
      BY <1>1 DEF LastOf
    <3>1. l[Len(l)].notAfter \in Nat  BY <2>1, ListTypes
    <3>2. t + CARotateInterval \in Nat  BY <1>4
    <3>3. /\ Truncate(t + CARotateInterval) \in Nat
          /\ t + CARotateInterval < Truncate(t + CARotateInterval) + Second
      BY <3>2, TruncateBounds
    <3>4. Second \in Nat  BY GranularityAssumption
    <3> QED  BY <1>4, <3>1, <3>3, <3>4 DEF CAGap
  <2>6. Spread(Append(l, ca.cert), CAGap, f)
    BY <1>1, <1>5, <2>1, <2>3, <2>4, <2>5, SpreadAppend
  <2> QED  BY <1>3, <2>4, <2>6 DEF l
<1>7. ASSUME NEW i \in Issues
      PROVE  /\ Spread(e.issued[i].certs, CertGap, 0)
             /\ Dated(e.issued[i].certs, t, CertRotateInterval)
             /\ LastOf(e.issued[i].certs) = kp.cert.notAfter
  <2>1. /\ Spread(<<kp.cert>>, CertGap, 0) /\ Dated(<<kp.cert>>, t, CertRotateInterval)
        /\ LastOf(<<kp.cert>>) = kp.cert.notAfter
    BY <1>2, <1>4, <1>5, SingleSpread
  <2>2. e.issued[i].certs = <<kp.cert>>  BY <1>3
  <2> QED  BY <2>1, <2>2, Zenon
<1>8. SpreadChain(e, f, t)  BY <1>6, <1>7, Zenon DEF SpreadChain
<1>9. Aligned(e)  BY <1>7, Zenon DEF Aligned
<1> QED  BY <1>8, <1>9 DEF e

\* When the last certificate of one issue is due those of all are.
LEMMA CertsDue ==
    ASSUME NEW d \in CertificateChainData, NEW t \in Nat, Established(d), Aligned(d),
           Issues # {}, mustRotateCerts(d, t)
    PROVE  \A i \in Issues : LastOf(d.issued[i].certs) - CertOverlapInterval <= t
<1>1. \A i \in Issues : d.issued[i].certs \in Seq(Certificate) /\ Decodes(d, i)
  BY ChainTypes DEF Established, Decodes
<1>2. DOMAIN d.issued = Issues  BY ChainTypes
<1>3. /\ CertLists(d) \in SUBSET Seq(Certificate) /\ CertLists(d) # {}
      /\ \A l \in CertLists(d) : \E i \in Issues : l = d.issued[i].certs
      /\ \A i \in Issues : d.issued[i].certs # << >>
  BY <1>1, <1>2 DEF CertLists, Decodes
<1>4. CertOverlapInterval \in Nat  BY OptionsAssumption
<1>5. findRotationDeadlineForCerts(d) \in Int
      /\ (t < findRotationDeadlineForCerts(d)
           <=> \A l \in CertLists(d) : l # << >> /\ t < l[Len(l)].notAfter - CertOverlapInterval)
  BY <1>3, <1>4, RotationDeadlineOf DEF findRotationDeadlineForCerts
<1>6. ~ (t < findRotationDeadlineForCerts(d))  BY <1>5 DEF mustRotateCerts
<1>7. PICK l \in CertLists(d) : ~ (l # << >> /\ t < l[Len(l)].notAfter - CertOverlapInterval)
  BY <1>5, <1>6
<1>8. PICK j \in Issues : l = d.issued[j].certs  BY <1>3
<1>9. LastOf(l) \in Nat  BY <1>1, <1>3, <1>8, ListTypes DEF LastOf
<1>10. LastOf(l) - CertOverlapInterval <= t  BY <1>3, <1>4, <1>7, <1>8, <1>9 DEF LastOf
<1> SUFFICES ASSUME NEW i \in Issues PROVE LastOf(d.issued[i].certs) = LastOf(l)
  BY <1>10, Zenon
<1> QED  BY <1>1, <1>8, Zenon DEF Aligned

LEMMA RotateCertsSpread ==
    ASSUME NEW d \in CertificateChainData, NEW s \in Nat \ {0}, NEW t \in Nat, NEW f \in Int,
           Issues # {}, Established(d), SpreadChain(d, f, t), Aligned(d), mustRotateCerts(d, t)
    PROVE  SpreadChain(rotateCertsWithOverlap(d, s, t), f, t)
           /\ Aligned(rotateCertsWithOverlap(d, s, t))
<1> DEFINE kp == NewServerKeyPair(d.ca, s, t, CertRotateInterval)
           e == rotateCertsWithOverlap(d, s, t)
<1>1. kp.cert \in Certificate /\ kp.cert.notAfter = Truncate(t + CertRotateInterval)
  <2>1. kp.cert.notAfter = Truncate(t + CertRotateInterval)  BY DEF NewServerKeyPair, NewSignedCert
  <2>2. d.ca \in CA  BY DEF CertificateChainData
  <2>3. kp.cert \in Certificate  BY <2>2, NewServerKeyPairProperties
  <2> QED  BY <2>1, <2>3
<1>2. /\ e.caCerts = d.caCerts
      /\ \A i \in Issues : e.issued[i].certs = Append(d.issued[i].certs, kp.cert)
  <2>1. /\ DOMAIN d.issued = Issues
        /\ d = [ca |-> d.ca, issued |-> d.issued, caCerts |-> d.caCerts]
    BY ChainTypes
  <2>2. /\ e.caCerts = d.caCerts
        /\ e.issued = [i \in Issues |-> setKeyAppendCert(d.issued[i], kp)]
    BY <2>1 DEF rotateCertsWithOverlap
  <2> HIDE DEF kp, e
  <2> QED  BY <2>2 DEF setKeyAppendCert
<1> HIDE DEF kp, e
<1>3. CertRotateInterval \in Nat /\ CertOverlapInterval \in Nat  BY OptionsAssumption
<1>4. CertGap \in Nat  BY Gaps
<1>5. \A i \in Issues : LastOf(d.issued[i].certs) - CertOverlapInterval <= t  BY CertsDue
<1>6. ASSUME NEW i \in Issues
      PROVE  /\ Spread(e.issued[i].certs, CertGap, 0)
             /\ Dated(e.issued[i].certs, t, CertRotateInterval)
             /\ LastOf(e.issued[i].certs) = kp.cert.notAfter
  <2> DEFINE l == d.issued[i].certs
  <2>1. l \in Seq(Certificate) /\ l # << >>  BY ChainTypes DEF Established
  <2>2. Dated(l, t, CertRotateInterval) /\ Spread(l, CertGap, 0)  BY DEF SpreadChain
  <2>3. l[Len(l)].notAfter - CertOverlapInterval <= t  BY <1>5 DEF LastOf
  <2> HIDE DEF l
  <2>4. /\ Dated(Append(l, kp.cert), t, CertRotateInterval)
        /\ LastOf(Append(l, kp.cert)) = kp.cert.notAfter
    BY <1>1, <1>3, <2>1, <2>2, DatedAppend
  <2>5. l[Len(l)].notAfter + CertGap <= kp.cert.notAfter
    <3>1. l[Len(l)].notAfter \in Nat  BY <2>1, ListTypes
    <3>2. t + CertRotateInterval \in Nat  BY <1>3
    <3>3. /\ Truncate(t + CertRotateInterval) \in Nat
          /\ t + CertRotateInterval < Truncate(t + CertRotateInterval) + Second
      BY <3>2, TruncateBounds
    <3>4. Second \in Nat  BY GranularityAssumption
    <3> QED  BY <1>1, <1>3, <2>3, <3>1, <3>3, <3>4 DEF CertGap
  <2>6. Spread(Append(l, kp.cert), CertGap, 0)
    <3>1. 0 \in Nat  OBVIOUS
    <3> QED  BY <1>1, <1>4, <2>1, <2>2, <2>5, <3>1, SpreadAppend
  <2> QED  BY <1>2, <2>4, <2>6 DEF l
<1>7. SpreadChain(e, f, t)  BY <1>2, <1>6, Zenon DEF SpreadChain
<1>8. Aligned(e)  BY <1>6, Zenon DEF Aligned
<1> QED  BY <1>7, <1>8 DEF e

LEMMA SpreadChainGrows ==
    ASSUME NEW d \in CertificateChainData, NEW f \in Int, NEW g \in Int, f <= g, NEW t \in Nat,
           NEW u \in Nat, t <= u, SpreadChain(d, f, t)
    PROVE  SpreadChain(d, g, u)
<1>1. CAGap \in Nat /\ CARotateInterval \in Nat /\ CertRotateInterval \in Nat
  BY Gaps, OptionsAssumption
<1>2. ASSUME NEW b \in Bundles
      PROVE  Spread(d.caCerts[b], CAGap, g) /\ Dated(d.caCerts[b], u, CARotateInterval)
  <2>1. d.caCerts[b] \in Seq(Certificate)  BY ChainTypes
  <2>2. Spread(d.caCerts[b], CAGap, f) /\ Dated(d.caCerts[b], t, CARotateInterval)
    BY DEF SpreadChain
  <2> QED  BY <1>1, <2>1, <2>2, SpreadGrows, DatedLater
<1>3. ASSUME NEW i \in Issues
      PROVE  /\ Spread(d.issued[i].certs, CertGap, 0)
             /\ Dated(d.issued[i].certs, u, CertRotateInterval)
  <2>1. d.issued[i].certs \in Seq(Certificate)  BY ChainTypes
  <2>2. /\ Spread(d.issued[i].certs, CertGap, 0)
        /\ Dated(d.issued[i].certs, t, CertRotateInterval)
    BY DEF SpreadChain
  <2> QED  BY <1>1, <2>1, <2>2, DatedLater
<1> QED  BY <1>2, <1>3, Zenon DEF SpreadChain

\* The CA is due in all bundles or in none.
LEMMA CADue ==
    ASSUME NEW d \in CertificateChainData, NEW t \in Nat, Issues # {}, Established(d),
           verifyTLS(d, t), mustRotateCA(d, t)
    PROVE  \A b \in Bundles : /\ d.caCerts[b] # << >>
                              /\ LastOf(d.caCerts[b]) - CAOverlapInterval <= t
<1>1. DOMAIN d.caCerts = Bundles /\ \A b \in Bundles : d.caCerts[b] \in Seq(Certificate)
  BY ChainTypes
<1>2. \A b \in Bundles : d.caCerts[b] # << >> /\ d.caCerts[b][Len(d.caCerts[b])] = d.ca.cert
  BY DEF Established
<1>3. /\ BundleLists(d) \in SUBSET Seq(Certificate)
      /\ \A l \in BundleLists(d) : l # << >> /\ l[Len(l)] = d.ca.cert
  BY <1>1, <1>2 DEF BundleLists
<1>4. BundleLists(d) # {}
  <2>1. PICK b \in Bundles : TRUE  BY BundlesAssumption
  <2> QED  BY <1>1, <2>1 DEF BundleLists
<1>5. CAOverlapInterval \in Nat  BY OptionsAssumption
<1>6. findRotationDeadlineForCA(d) \in Int
      /\ (t < findRotationDeadlineForCA(d)
           <=> \A l \in BundleLists(d) : l # << >> /\ t < l[Len(l)].notAfter - CAOverlapInterval)
  BY <1>3, <1>4, <1>5, RotationDeadlineOf DEF findRotationDeadlineForCA
<1>7. ~ (t < findRotationDeadlineForCA(d))  BY <1>6 DEF mustRotateCA
<1>8. PICK l \in BundleLists(d) : ~ (l # << >> /\ t < l[Len(l)].notAfter - CAOverlapInterval)
  BY <1>6, <1>7
<1>9. ~ (t < d.ca.cert.notAfter - CAOverlapInterval)  BY <1>3, <1>8
<1>10. d.ca.cert.notAfter \in Nat  BY ChainTypes DEF Certificate
<1>11. d.ca.cert.notAfter - CAOverlapInterval <= t  BY <1>5, <1>9, <1>10
<1> QED  BY <1>2, <1>11, Zenon DEF LastOf

\* What a rotation does to the lists.
LEMMA RotateSpread ==
    ASSUME NEW d \in CertificateChainData, NEW s \in Nat \ {0}, NEW t \in Nat, NEW f \in Nat,
           Issues # {}, Consistent(d, t), d.ca.key = NoKey => d.ca.cert = NoCert, Aligned(d),
           \/ SpreadChain(d, f - 1, t)
           \/ SpreadChain(d, f, t) /\ Established(d) /\ verifyTLS(d, t)
    PROVE  SpreadChain(rotate(d, s, t), f, t) /\ Aligned(rotate(d, s, t))
<1>1. SpreadChain(d, f, t)
  <2>1. f - 1 \in Int /\ f \in Int /\ f - 1 <= f /\ t <= t  OBVIOUS
  <2> QED  BY <2>1, SpreadChainGrows
<1>2. CASE mustRotateCA(d, t)
  <2>1. rotate(d, s, t) = rotateAll(d, s, t)  BY <1>2 DEF rotate
  <2>2. \/ SpreadChain(d, f - 1, t)
        \/ /\ SpreadChain(d, f, t)
           /\ \A b \in Bundles : /\ d.caCerts[b] # << >>
                                 /\ LastOf(d.caCerts[b]) - CAOverlapInterval <= t
    BY <1>2, CADue
  <2> QED  BY <2>1, <2>2, RotateAllSpread
<1>3. CASE ~ mustRotateCA(d, t) /\ mustRotateCerts(d, t)
  <2>1. Established(d)  BY <1>3, NoRotationNeeded
  <2>2. rotate(d, s, t) = rotateCertsWithOverlap(d, s, t)  BY <1>3 DEF rotate
  <2> QED  BY <1>1, <1>3, <2>1, <2>2, RotateCertsSpread
<1>4. CASE ~ mustRotateCA(d, t) /\ ~ mustRotateCerts(d, t)
  <2>1. rotate(d, s, t) = d  BY <1>4 DEF rotate
  <2> QED  BY <1>1, <2>1
<1> QED  BY <1>2, <1>3, <1>4

\* A clean-up only takes certificates away.
LEMMA CleanUpListSpread ==
    ASSUME NEW l \in Seq(Certificate), NEW t \in Nat, NEW gap \in Nat, NEW f \in Int,
           NEW duration, Spread(l, gap, f), Dated(l, t, duration)
    PROVE  /\ Spread(cleanUpCertificateList(l, t), gap, f)
           /\ Dated(cleanUpCertificateList(l, t), t, duration)
<1> DEFINE k == cleanUpCertificateList(l, t)
<1>1. k \in Seq(Certificate) /\ \A j \in DOMAIN k : \E m \in DOMAIN l : k[j] = l[m]
  BY CleanUpList
<1>2. PICK p : FromPlaces(k, l, p)  BY CleanUpInOrder
<1> HIDE DEF k
<1>3. Spread(k, gap, f)  BY <1>1, <1>2, SpreadFrom
<1>4. Dated(k, t, duration)  BY <1>1, Zenon DEF Dated
<1> QED  BY <1>3, <1>4 DEF k

LEMMA CleanUpSpread ==
    ASSUME NEW d \in CertificateChainData, NEW t \in Nat, NEW f \in Int, SpreadChain(d, f, t)
    PROVE  SpreadChain(cleanUpCA(d, t), f, t) /\ SpreadChain(cleanUpIssued(d, t), f, t)
<1>1. /\ d = [ca |-> d.ca, issued |-> d.issued, caCerts |-> d.caCerts]
      /\ DOMAIN d.caCerts = Bundles /\ DOMAIN d.issued = Issues
      /\ \A b \in Bundles : d.caCerts[b] \in Seq(Certificate)
      /\ \A i \in Issues : d.issued[i].certs \in Seq(Certificate)
  BY ChainTypes
<1>2. CAGap \in Nat /\ CertGap \in Nat /\ 0 \in Int  BY Gaps
<1>3. SpreadChain(cleanUpCA(d, t), f, t)
  <2>1. CASE cleanUpCA(d, t) = d  BY <2>1
  <2>2. CASE cleanUpCA(d, t) = cleanUpCACerts(d, t)
    <3> DEFINE e == cleanUpCACerts(d, t)
    <3>1. /\ e.issued = d.issued
          /\ \A b \in Bundles : e.caCerts[b] = cleanUpCertificateList(d.caCerts[b], t)
      BY <1>1 DEF cleanUpCACerts
    <3> HIDE DEF e
    <3>2. ASSUME NEW b \in Bundles
          PROVE  Spread(e.caCerts[b], CAGap, f) /\ Dated(e.caCerts[b], t, CARotateInterval)
      <4>1. Spread(d.caCerts[b], CAGap, f) /\ Dated(d.caCerts[b], t, CARotateInterval)
        BY DEF SpreadChain
      <4> QED  BY <1>1, <1>2, <3>1, <4>1, CleanUpListSpread
    <3>3. SpreadChain(e, f, t)  BY <3>1, <3>2, Zenon DEF SpreadChain
    <3> QED  BY <2>2, <3>3 DEF e
  <2> QED  BY <2>1, <2>2 DEF cleanUpCA
<1>4. SpreadChain(cleanUpIssued(d, t), f, t)
  <2>1. CASE cleanUpIssued(d, t) = d  BY <2>1
  <2>2. CASE cleanUpIssued(d, t) = cleanUpCerts(d, t)
    <3> DEFINE e == cleanUpCerts(d, t)
    <3>1. /\ e.caCerts = d.caCerts
          /\ \A i \in Issues : e.issued[i].certs = cleanUpCertificateList(d.issued[i].certs, t)
      BY <1>1 DEF cleanUpCerts
    <3> HIDE DEF e
    <3>2. ASSUME NEW i \in Issues
          PROVE  /\ Spread(e.issued[i].certs, CertGap, 0)
                 /\ Dated(e.issued[i].certs, t, CertRotateInterval)
      <4>1. /\ Spread(d.issued[i].certs, CertGap, 0)
            /\ Dated(d.issued[i].certs, t, CertRotateInterval)
        BY DEF SpreadChain
      <4> QED  BY <1>1, <1>2, <3>1, <4>1, CleanUpListSpread
    <3>3. SpreadChain(e, f, t)  BY <3>1, <3>2, Zenon DEF SpreadChain
    <3> QED  BY <2>2, <3>3 DEF e
  <2> QED  BY <2>1, <2>2 DEF cleanUpIssued
<1> QED  BY <1>3, <1>4

\* Certificates that are alive together.
LEMMA AliveSpan ==
    ASSUME NEW l \in Seq(Certificate), NEW t \in Nat, NEW duration \in Nat,
           Dated(l, t, duration), \A n \in DOMAIN l : t < l[n].notAfter
    PROVE  Span(l, duration)
<1>1. t + duration \in Nat  OBVIOUS
<1>2. Truncate(t + duration) \in Nat /\ Truncate(t + duration) <= t + duration
  BY <1>1, TruncateBounds
<1> SUFFICES ASSUME NEW n \in DOMAIN l, NEW m \in DOMAIN l
             PROVE  l[m].notAfter - l[n].notAfter < duration
  BY DEF Span
<1>3. l[m].notAfter \in Nat /\ l[n].notAfter \in Nat  BY ListTypes
<1>4. l[m].notAfter <= Truncate(t + duration) /\ t < l[n].notAfter  BY DEF Dated
<1> QED  BY <1>2, <1>3, <1>4

\* Update keeps the expiry dates apart. One rotation may come at any time, when f grows.
LEMMA UpdateSpread ==
    ASSUME NEW d \in CertificateChainData, NEW s \in Nat \ {0}, NEW t \in Nat, NEW f \in Nat,
           Issues # {}, Consistent(d, t), Aligned(d),
           \/ SpreadChain(d, f - 1, t)
           \/ SpreadChain(d, f, t) /\ Established(d) /\ verifyTLS(d, t)
    PROVE  LET r == Update(d, s, t).data
           IN  SpreadChain(r, f, t) /\ SpanChain(r) /\ Aligned(r)
<1> DEFINE c == newChain(d)
           e == rotate(c, s, t)
           h == cleanUpCA(e, t)
           g == cleanUpIssued(h, t)
           r == Update(d, s, t).data
<1>1. /\ c \in CertificateChainData /\ Consistent(c, t)
      /\ c.ca.key = NoKey => c.ca.cert = NoCert
  BY NewChain
<1>2. /\ e \in CertificateChainData /\ Consistent(e, t) /\ Established(e)
      /\ CAFresh(e, t) /\ CertsFresh(e, t)
  <2> HIDE DEF c
  <2> QED  BY <1>1, Rotate
<1>3. /\ h \in CertificateChainData /\ Consistent(h, t) /\ Established(h)
      /\ h.issued = e.issued
      /\ \A b \in Bundles : \A n \in DOMAIN h.caCerts[b] : t < h.caCerts[b][n].notAfter
  <2> HIDE DEF e
  <2> QED  BY <1>2, CleanUpCA
<1>4. CertsFresh(h, t)
  <2> HIDE DEF e, h
  <2> QED  BY <1>2, <1>3 DEF CertsFresh
<1>5. /\ g \in CertificateChainData
      /\ g.caCerts = h.caCerts
      /\ \A i \in Issues :
           /\ g.issued[i].certs[Len(g.issued[i].certs)] = h.issued[i].certs[Len(h.issued[i].certs)]
           /\ \A n \in DOMAIN g.issued[i].certs : t < g.issued[i].certs[n].notAfter
  <2> HIDE DEF h
  <2> QED  BY <1>3, <1>4, CleanUpIssued
<1>6. r = g  BY DEF Update, update
<1>7. Aligned(c) /\ (\/ SpreadChain(c, f - 1, t)
                     \/ SpreadChain(c, f, t) /\ Established(c) /\ verifyTLS(c, t))
  <2>1. f - 1 \in Int /\ f \in Int  OBVIOUS
  <2>2. CASE SpreadChain(d, f - 1, t)  BY <2>1, <2>2, NewChainSpread
  <2>3. CASE SpreadChain(d, f, t) /\ Established(d) /\ verifyTLS(d, t)
    <3>1. c = d  BY <2>3, NewChainIdentity
    <3> HIDE DEF c
    <3> QED  BY <2>3, <3>1
  <2> QED  BY <2>2, <2>3
<1>8. SpreadChain(e, f, t) /\ Aligned(e)
  <2> HIDE DEF c
  <2> QED  BY <1>1, <1>7, RotateSpread
<1>9. SpreadChain(h, f, t)
  <2>1. f \in Int  OBVIOUS
  <2> HIDE DEF e
  <2> QED  BY <1>2, <1>8, <2>1, CleanUpSpread
<1>10. SpreadChain(g, f, t)
  <2>1. f \in Int  OBVIOUS
  <2> HIDE DEF h
  <2> QED  BY <1>3, <1>9, <2>1, CleanUpSpread
<1> HIDE DEF c, e, h, g, r
<1>11. SpanChain(g)
  <2>1. CARotateInterval \in Nat /\ CertRotateInterval \in Nat  BY OptionsAssumption
  <2>2. ASSUME NEW b \in Bundles PROVE Span(g.caCerts[b], CARotateInterval)
    <3>1. g.caCerts[b] \in Seq(Certificate)  BY <1>5, ChainTypes
    <3>2. Dated(g.caCerts[b], t, CARotateInterval)  BY <1>10 DEF SpreadChain
    <3>3. \A n \in DOMAIN g.caCerts[b] : t < g.caCerts[b][n].notAfter  BY <1>3, <1>5
    <3> QED  BY <2>1, <3>1, <3>2, <3>3, AliveSpan
  <2>3. ASSUME NEW i \in Issues PROVE Span(g.issued[i].certs, CertRotateInterval)
    <3>1. g.issued[i].certs \in Seq(Certificate)  BY <1>5, ChainTypes
    <3>2. Dated(g.issued[i].certs, t, CertRotateInterval)  BY <1>10 DEF SpreadChain
    <3>3. \A n \in DOMAIN g.issued[i].certs : t < g.issued[i].certs[n].notAfter  BY <1>5
    <3> QED  BY <2>1, <3>1, <3>2, <3>3, AliveSpan
  <2> QED  BY <2>2, <2>3 DEF SpanChain
<1>12. Aligned(g)
  <2>1. \A i \in Issues : Decodes(e, i)  BY <1>2 DEF Established, Decodes
  <2>2. \A i \in Issues : LastOf(g.issued[i].certs) = LastOf(e.issued[i].certs)
    BY <1>3, <1>5 DEF LastOf
  <2> QED  BY <1>8, <2>1, <2>2, Zenon DEF Aligned
<1> QED  BY <1>6, <1>10, <1>11, <1>12 DEF r

------------------------------------------------------------------------------------
(* The lists in the life of the chain.                                              *)

\* How many rotations can have come before they were due: one for every interference that
\* a reconcile has repaired.
Irregular == IF intact THEN faults ELSE faults - 1

\* The inductive invariant, together with Inv.
SpreadInv ==
    /\ SpreadChain(chain, Irregular, now)
    /\ SpanChain(chain)
    /\ Aligned(chain)

LEMMA ListsInit == Init => SpreadInv
<1> SUFFICES ASSUME Init PROVE SpreadInv
  OBVIOUS
<1>1. /\ \A i \in Issues : chain.issued[i].key = NoKey /\ chain.issued[i].certs = << >>
      /\ \A b \in Bundles : chain.caCerts[b] = << >>
  BY DEF Init, EmptyChain
<1>2. SpreadChain(chain, Irregular, now)  BY <1>1, EmptySpread, Zenon DEF SpreadChain
<1>3. SpanChain(chain)  BY <1>1, EmptySpread, Zenon DEF SpanChain
<1>4. Aligned(chain)  BY <1>1, Zenon DEF Aligned, Decodes
<1> QED  BY <1>2, <1>3, <1>4 DEF SpreadInv

LEMMA ReconcileLists ==
    ASSUME Issues # {}, MaxLateness = 0, Inv, SpreadInv, Reconcile
    PROVE  SpreadInv'
<1>1. /\ chain \in CertificateChainData /\ serial \in Nat /\ now \in Nat /\ wakeAt \in Nat
      /\ faults \in Nat /\ Consistent(chain, now) /\ now <= wakeAt
  BY DEF Inv, TypeOK
<1>2. SpreadChain(chain, Irregular, now) /\ Aligned(chain)  BY DEF SpreadInv
<1>3. \/ SpreadChain(chain, faults - 1, now)
      \/ SpreadChain(chain, faults, now) /\ Established(chain) /\ verifyTLS(chain, now)
  <2>1. CASE intact
    <3>1. Established(chain) /\ NotOverdue(chain, wakeAt)  BY <2>1 DEF Inv
    <3>2. verifyTLS(chain, now)  BY <1>1, <3>1, EstablishedVerifies
    <3> QED  BY <1>2, <2>1, <3>1, <3>2 DEF Irregular
  <2>2. CASE ~ intact  BY <1>2, <2>2 DEF Irregular
  <2> QED  BY <2>1, <2>2
<1> DEFINE r == Update(chain, serial + 1, now).data
<1>4. SpreadChain(r, faults, now) /\ SpanChain(r) /\ Aligned(r)
  <2>1. serial + 1 \in Nat \ {0}  BY <1>1
  <2> QED  BY <1>1, <1>2, <1>3, <2>1, UpdateSpread
<1>5. chain' = r /\ now' = now /\ faults' = faults /\ intact'  BY DEF Reconcile
<1> HIDE DEF r
<1>6. Irregular' = faults  BY <1>5 DEF Irregular
<1> QED  BY <1>4, <1>5, <1>6 DEF SpreadInv

LEMMA TickLists ==
    ASSUME Inv, SpreadInv, Tick
    PROVE  SpreadInv'
<1>1. chain \in CertificateChainData /\ now \in Nat /\ faults \in Nat  BY DEF Inv, TypeOK
<1>2. chain' = chain /\ now' = now + 1 /\ faults' = faults /\ intact' = intact  BY DEF Tick
<1>3. Irregular' = Irregular /\ Irregular \in Int /\ Irregular <= Irregular
  BY <1>1, <1>2 DEF Irregular
<1>4. now + 1 \in Nat /\ now <= now + 1  BY <1>1
<1>5. SpreadChain(chain, Irregular, now) /\ SpanChain(chain) /\ Aligned(chain)  BY DEF SpreadInv
<1>6. SpreadChain(chain, Irregular, now + 1)  BY <1>1, <1>3, <1>4, <1>5, SpreadChainGrows
<1> QED  BY <1>2, <1>3, <1>5, <1>6 DEF SpreadInv

\* The lists of e are beginnings of those of d.
Shorter(e, d) ==
    /\ \A b \in Bundles : \A n \in DOMAIN e.caCerts[b] :
         n \in DOMAIN d.caCerts[b] /\ e.caCerts[b][n] = d.caCerts[b][n]
    /\ \A i \in Issues : \A n \in DOMAIN e.issued[i].certs :
         n \in DOMAIN d.issued[i].certs /\ e.issued[i].certs[n] = d.issued[i].certs[n]
    /\ \A i \in Issues : Decodes(e, i) => e.issued[i] = d.issued[i]

LEMMA ShorterSpread ==
    ASSUME NEW d, NEW e, NEW f, NEW t, Shorter(e, d), SpreadChain(d, f, t), SpanChain(d), Aligned(d)
    PROVE  SpreadChain(e, f, t) /\ SpanChain(e) /\ Aligned(e)
<1>1. ASSUME NEW b \in Bundles
      PROVE  /\ Spread(e.caCerts[b], CAGap, f)
             /\ Dated(e.caCerts[b], t, CARotateInterval)
             /\ Span(e.caCerts[b], CARotateInterval)
  <2>1. \A n \in DOMAIN e.caCerts[b] :
          n \in DOMAIN d.caCerts[b] /\ e.caCerts[b][n] = d.caCerts[b][n]
    BY DEF Shorter
  <2>2. /\ Spread(d.caCerts[b], CAGap, f)
        /\ Dated(d.caCerts[b], t, CARotateInterval)
        /\ Span(d.caCerts[b], CARotateInterval)
    BY DEF SpreadChain, SpanChain
  <2>3. Spread(e.caCerts[b], CAGap, f)  BY <2>1, <2>2, Zenon DEF Spread
  <2>4. Dated(e.caCerts[b], t, CARotateInterval)  BY <2>1, <2>2, Zenon DEF Dated
  <2>5. Span(e.caCerts[b], CARotateInterval)  BY <2>1, <2>2, Zenon DEF Span
  <2> QED  BY <2>3, <2>4, <2>5
<1>2. ASSUME NEW i \in Issues
      PROVE  /\ Spread(e.issued[i].certs, CertGap, 0)
             /\ Dated(e.issued[i].certs, t, CertRotateInterval)
             /\ Span(e.issued[i].certs, CertRotateInterval)
  <2>1. \A n \in DOMAIN e.issued[i].certs :
          n \in DOMAIN d.issued[i].certs /\ e.issued[i].certs[n] = d.issued[i].certs[n]
    BY DEF Shorter
  <2>2. /\ Spread(d.issued[i].certs, CertGap, 0)
        /\ Dated(d.issued[i].certs, t, CertRotateInterval)
        /\ Span(d.issued[i].certs, CertRotateInterval)
    BY DEF SpreadChain, SpanChain
  <2>3. Spread(e.issued[i].certs, CertGap, 0)  BY <2>1, <2>2, Zenon DEF Spread
  <2>4. Dated(e.issued[i].certs, t, CertRotateInterval)  BY <2>1, <2>2, Zenon DEF Dated
  <2>5. Span(e.issued[i].certs, CertRotateInterval)  BY <2>1, <2>2, Zenon DEF Span
  <2> QED  BY <2>3, <2>4, <2>5
<1>3. SpreadChain(e, f, t)  BY <1>1, <1>2, Zenon DEF SpreadChain
<1>4. SpanChain(e)  BY <1>1, <1>2, Zenon DEF SpanChain
<1>5. Aligned(e)
  <2> SUFFICES ASSUME NEW i \in Issues, NEW j \in Issues, Decodes(e, i), Decodes(e, j)
               PROVE  LastOf(e.issued[i].certs) = LastOf(e.issued[j].certs)
    BY DEF Aligned
  <2>1. e.issued[i] = d.issued[i] /\ e.issued[j] = d.issued[j]  BY DEF Shorter
  <2>2. Decodes(d, i) /\ Decodes(d, j)  BY <2>1 DEF Decodes
  <2> QED  BY <2>1, <2>2, Zenon DEF Aligned
<1> QED  BY <1>3, <1>4, <1>5

\* Every interference takes away.
LEMMA LossShortens ==
    ASSUME Inv, LoseCA \/ (\E i \in Issues : LoseService(i)) \/ (\E b \in Bundles : LoseBundle(b))
    PROVE  Shorter(chain', chain) /\ Interfere
<1>1. chain \in CertificateChainData  BY DEF Inv, TypeOK
<1>2. /\ chain = [ca |-> chain.ca, issued |-> chain.issued, caCerts |-> chain.caCerts]
      /\ chain.caCerts \in [Bundles -> Seq(Certificate)]
      /\ chain.issued \in [Issues -> CertificateIssue]
  BY <1>1, ChainTypes DEF CertificateChainData
<1>3. CASE LoseCA
  <2>1. chain'.caCerts = chain.caCerts /\ chain'.issued = chain.issued  BY <1>2, <1>3 DEF LoseCA
  <2> QED  BY <1>3, <2>1 DEF LoseCA, Shorter
<1>4. ASSUME NEW i \in Issues, LoseService(i) PROVE Shorter(chain', chain) /\ Interfere
  <2>1. PICK key \in {NoKey, chain.issued[i].key}, certs \in {<< >>, chain.issued[i].certs} :
               /\ key = NoKey \/ certs = << >>
               /\ chain' = [chain EXCEPT !.issued[i] = [key |-> key, certs |-> certs]]
    BY <1>4 DEF LoseService
  <2>2. /\ chain'.issued = [chain.issued EXCEPT ![i] = [key |-> key, certs |-> certs]]
        /\ chain'.caCerts = chain.caCerts
    BY <1>2, <2>1
  <2>3. /\ chain'.issued[i].key = key /\ chain'.issued[i].certs = certs
        /\ \A j \in Issues : j # i => chain'.issued[j] = chain.issued[j]
    BY <1>2, <2>2
  <2>4. ASSUME NEW j \in Issues
        PROVE  /\ \A n \in DOMAIN chain'.issued[j].certs :
                    /\ n \in DOMAIN chain.issued[j].certs
                    /\ chain'.issued[j].certs[n] = chain.issued[j].certs[n]
               /\ Decodes(chain', j) => chain'.issued[j] = chain.issued[j]
    <3>1. CASE j # i  BY <2>3, <3>1
    <3>2. CASE j = i
      <4>1. ~ Decodes(chain', i)  BY <2>1, <2>3 DEF Decodes
      <4>2. CASE certs = << >>  BY <2>3, <3>2, <4>1, <4>2
      <4>3. CASE certs = chain.issued[i].certs  BY <2>3, <3>2, <4>1, <4>3
      <4> QED  BY <2>1, <4>2, <4>3
    <3> QED  BY <3>1, <3>2
  <2>5. Shorter(chain', chain)  BY <2>2, <2>4, Zenon DEF Shorter
  <2> QED  BY <1>4, <2>5 DEF LoseService
<1>5. ASSUME NEW b \in Bundles, LoseBundle(b) PROVE Shorter(chain', chain) /\ Interfere
  <2> DEFINE old == chain.caCerts[b]
  <2>1. PICK bundle \in {<< >>, SubSeq(old, 1, Len(old) - 1)} :
               chain' = [chain EXCEPT !.caCerts[b] = bundle]
    BY <1>5 DEF LoseBundle
  <2>2. old \in Seq(Certificate)  BY <1>2
  <2>3. \A n \in DOMAIN bundle : n \in DOMAIN old /\ bundle[n] = old[n]
    <3>1. CASE bundle = << >>  BY <3>1
    <3>2. CASE bundle = SubSeq(old, 1, Len(old) - 1)
      <4> HIDE DEF old
      <4> QED  BY <2>2, <3>2
    <3> QED  BY <2>1, <3>1, <3>2
  <2>4. chain'.caCerts = [chain.caCerts EXCEPT ![b] = bundle] /\ chain'.issued = chain.issued
    BY <1>2, <2>1
  <2>5. ASSUME NEW c \in Bundles, NEW n \in DOMAIN chain'.caCerts[c]
        PROVE  n \in DOMAIN chain.caCerts[c] /\ chain'.caCerts[c][n] = chain.caCerts[c][n]
    BY <1>2, <2>3, <2>4
  <2>6. Shorter(chain', chain)  BY <2>4, <2>5, Zenon DEF Shorter
  <2> QED  BY <1>5, <2>6 DEF LoseBundle
<1> QED  BY <1>3, <1>4, <1>5

LEMMA LossLists ==
    ASSUME Inv, SpreadInv,
           LoseCA \/ (\E i \in Issues : LoseService(i)) \/ (\E b \in Bundles : LoseBundle(b)),
           chain' \in CertificateChainData
    PROVE  SpreadInv'
<1>1. chain \in CertificateChainData /\ now \in Nat /\ faults \in Nat  BY DEF Inv, TypeOK
<1>2. Shorter(chain', chain) /\ Interfere  BY LossShortens
<1>3. now' = now /\ faults' = faults + 1 /\ intact' = FALSE  BY <1>2 DEF Interfere
<1>4. SpreadChain(chain, Irregular, now) /\ SpanChain(chain) /\ Aligned(chain)  BY DEF SpreadInv
<1>5. SpreadChain(chain', Irregular, now) /\ SpanChain(chain') /\ Aligned(chain')
  BY <1>2, <1>4, ShorterSpread
<1>6. Irregular \in Int /\ Irregular' \in Int /\ Irregular <= Irregular'
  BY <1>1, <1>3 DEF Irregular
<1>7. SpreadChain(chain', Irregular', now)
  <2>1. now <= now  BY <1>1
  <2> QED  BY <1>1, <1>5, <1>6, <2>1, SpreadChainGrows
<1> QED  BY <1>3, <1>5, <1>7 DEF SpreadInv

LEMMA ListsStep ==
    ASSUME Issues # {}, MaxLateness = 0, Inv, Inv', SpreadInv, [Next]_vars
    PROVE  SpreadInv'
<1>1. CASE Reconcile  BY <1>1, ReconcileLists
<1>2. CASE Tick  BY <1>2, TickLists
<1>3. CASE LoseCA \/ (\E i \in Issues : LoseService(i)) \/ (\E b \in Bundles : LoseBundle(b))
  <2>1. chain' \in CertificateChainData  BY DEF Inv, TypeOK
  <2> QED  BY <1>3, <2>1, LossLists
<1>4. CASE UNCHANGED vars
  BY <1>4 DEF SpreadInv, Irregular
<1> QED  BY <1>1, <1>2, <1>3, <1>4 DEF Next

\* When reconciles are never late a bundle has no more certificates than rotations fit into
\* the life of a CA, and one for every interference; the list of a service has none for that.
THEOREM PunctualLists ==
    ASSUME Issues # {}, MaxLateness = 0
    PROVE  Spec => []ListsBounded
<1>1. Inv /\ SpreadInv => ListsBounded
  <2> SUFFICES ASSUME Inv, SpreadInv PROVE ListsBounded
    OBVIOUS
  <2>1. chain \in CertificateChainData /\ faults \in Nat  BY DEF Inv, TypeOK
  <2>2. Irregular \in Int /\ Irregular <= faults  BY <2>1 DEF Irregular
  <2>3. SpreadChain(chain, Irregular, now) /\ SpanChain(chain)  BY DEF SpreadInv
  <2>4. /\ CAGap \in Nat /\ CertGap \in Nat
        /\ CARotateInterval \in Nat \ {0} /\ CertRotateInterval \in Nat \ {0}
    BY Gaps, OptionsAssumption
  <2>5. ASSUME NEW b \in Bundles
        PROVE  (Len(chain.caCerts[b]) - 1 - faults) * CAGap < CARotateInterval
    <3>1. chain.caCerts[b] \in Seq(Certificate)  BY <2>1, ChainTypes
    <3>2. Spread(chain.caCerts[b], CAGap, Irregular) /\ Span(chain.caCerts[b], CARotateInterval)
      BY <2>3 DEF SpreadChain, SpanChain
    <3> QED  BY <2>1, <2>2, <2>4, <3>1, <3>2, SpreadLength
  <2>6. ASSUME NEW i \in Issues
        PROVE  (Len(chain.issued[i].certs) - 1) * CertGap < CertRotateInterval
    <3>1. chain.issued[i].certs \in Seq(Certificate)  BY <2>1, ChainTypes
    <3>2. Spread(chain.issued[i].certs, CertGap, 0) /\ Span(chain.issued[i].certs, CertRotateInterval)
      BY <2>3 DEF SpreadChain, SpanChain
    <3>3. 0 \in Int /\ 0 \in Nat /\ 0 <= 0  OBVIOUS
    <3>4. (Len(chain.issued[i].certs) - 1 - 0) * CertGap < CertRotateInterval
      BY <2>4, <3>1, <3>2, <3>3, SpreadLength
    <3>5. Len(chain.issued[i].certs) \in Nat  BY <3>1
    <3>6. Len(chain.issued[i].certs) - 1 - 0 = Len(chain.issued[i].certs) - 1  BY <3>5
    <3> QED  BY <3>4, <3>6
  <2> QED  BY <2>5, <2>6 DEF ListsBounded
<1>2. Inv /\ Inv' /\ SpreadInv /\ [Next]_vars => SpreadInv'  BY ListsStep
<1> QED  BY <1>1, <1>2, ListsInit, Invariant, PTL DEF Spec
====
