------------------------------ MODULE CertificateChain ------------------------------
(* The certificate chain algorithm: packages pkg/certificate/chain and              *)
(* pkg/certificate/triple as constant-level operators.                              *)
(*                                                                                  *)
(* A chain is the PEM data one reconcile reads and writes, the struct               *)
(* chain.CertificateChainData with the CA bundles of all its issues side by side:   *)
(*   ca      : the CA secret, a key and a certificate;                              *)
(*   issued  : per certificate issue the service's TLS secret, a key and a list of  *)
(*             certificates;                                                        *)
(*   caCerts : per CA bundle of a webhook a list of CA certificates.                *)
(* A private key is named by the number of the rotation that generated it. NoKey    *)
(* stands for key PEM that is missing or does not parse and << >> for such          *)
(* certificate PEM. A certificate records the key it certifies, the key that signed *)
(* it (its own for a CA) and its validity. Time is a natural number and 0 is Go's   *)
(* zero time.                                                                       *)
EXTENDS Integers, Sequences

CONSTANTS
    Issues,               \* the services, keys of CertificateChainData.CertificatesIssued
    Bundles,              \* the CA bundles of the webhooks that refer to the services
    IssueOf,              \* IssueOf[b]: the issue that bundle b verifies
    CARotateInterval,     \* chain.Options once defaulted and validated ...
    CAOverlapInterval,
    CertRotateInterval,
    CertOverlapInterval,
    Second                \* granularity of the validity dates of an X.509 certificate

\* Every issue is created for a webhook and so has a CA bundle.
ASSUME BundlesAssumption ==
    /\ IssueOf \in [Bundles -> Issues]
    /\ \A i \in Issues : \E b \in Bundles : IssueOf[b] = i

\* What Options.validate demands, of intervals that are not negative.
ASSUME OptionsAssumption ==
    /\ CARotateInterval \in Nat
    /\ CAOverlapInterval \in Nat
    /\ CertRotateInterval \in Nat
    /\ CertOverlapInterval \in Nat
    /\ CAOverlapInterval < CARotateInterval
    /\ CertRotateInterval <= CARotateInterval
    /\ CertOverlapInterval < CertRotateInterval

\* Not demanded by validate: certificates live longer than their overlap by at least
\* the second to which X.509 truncates their dates.
ASSUME GranularityAssumption ==
    /\ Second \in Nat \ {0}
    /\ Second <= CARotateInterval - CAOverlapInterval
    /\ Second <= CertRotateInterval - CertOverlapInterval

------------------------------------------------------------------------------------
(* Keys and certificates: package triple.                                           *)

ZeroTime == 0

NoKey == 0

NoCert == [key |-> NoKey, signer |-> NoKey, notBefore |-> ZeroTime, notAfter |-> ZeroTime]

Certificate == [key : Nat, signer : Nat, notBefore : Nat, notAfter : Nat]

CA == [key : Nat, cert : Certificate]

CertificateIssue == [key : Nat, certs : Seq(Certificate)]

CertificateChainData ==
    [ca      : CA,
     issued  : [Issues -> CertificateIssue],
     caCerts : [Bundles -> Seq(Certificate)]]

\* ASN.1 dates of a certificate have no fraction of a second.
Truncate(t) == t - (t % Second)

\* Mutant: the CA is backdated by the overlap.
NewBackdatedCACert(key, now, duration) ==
    [key       |-> key,
     signer    |-> key,
     notBefore |-> Truncate(now) - CAOverlapInterval,
     notAfter  |-> Truncate(now + duration)]

NewSelfSignedCACert(key, now, duration) ==
    [key       |-> key,
     signer    |-> key,
     notBefore |-> Truncate(now),
     notAfter  |-> Truncate(now + duration)]

\* NotBefore is the CA's, NotAfter is not capped by the CA's.
NewSignedCert(key, ca, now, duration) ==
    [key       |-> key,
     signer    |-> ca.key,
     notBefore |-> ca.cert.notBefore,
     notAfter  |-> Truncate(now + duration)]

NewCA(serial, now, duration) ==
    [key |-> serial, cert |-> NewSelfSignedCACert(serial, now, duration)]

NewServerKeyPair(ca, serial, now, duration) ==
    [key |-> serial, cert |-> NewSignedCert(serial, ca, now, duration)]

ValidAt(cert, now) == cert.notBefore <= now /\ now <= cert.notAfter

\* x509 Certificate.Verify with the CA bundle as roots.
VerifyCertificate(cert, bundle, now) ==
    /\ ValidAt(cert, now)
    /\ \E n \in DOMAIN bundle : /\ bundle[n].key = cert.signer
                                /\ ValidAt(bundle[n], now)

\* triple.VerifyTLS: only the first certificate is verified, and the key only has to parse.
VerifyTLS(issue, bundle, now) ==
    /\ issue.key # NoKey
    /\ issue.certs # << >>
    /\ VerifyCertificate(issue.certs[1], bundle, now)

\* tls.LoadX509KeyPair: the key has to be the one of the first certificate.
LoadX509KeyPair(issue) ==
    /\ issue.key # NoKey
    /\ issue.certs # << >>
    /\ issue.certs[1].key = issue.key

------------------------------------------------------------------------------------
(* Decoding and the setters of a chain: chain.go.                                   *)

getLastCert(certs) == IF certs = << >> THEN NoCert ELSE certs[Len(certs)]

\* A key pair with either half missing or unparsable decodes to no key and no certificate.
newChain(d) ==
    [ca      |-> IF d.ca.key = NoKey \/ d.ca.cert = NoCert
                   THEN [key |-> NoKey, cert |-> NoCert]
                   ELSE d.ca,
     issued  |-> [i \in DOMAIN d.issued |->
                    IF d.issued[i].key = NoKey \/ d.issued[i].certs = << >>
                      THEN [key |-> NoKey, certs |-> << >>]
                      ELSE d.issued[i]],
     caCerts |-> d.caCerts]

\* Mutant: the new CA replaces the others.
setCaKeyPairAlone(d, keyPair) ==
    [ca      |-> keyPair,
     issued  |-> d.issued,
     caCerts |-> [b \in DOMAIN d.caCerts |-> <<keyPair.cert>>]]

\* The new CA is added to every bundle.
setCaKeyPair(d, keyPair) ==
    [ca      |-> keyPair,
     issued  |-> d.issued,
     caCerts |-> [b \in DOMAIN d.caCerts |-> Append(d.caCerts[b], keyPair.cert)]]

setKeyResetCert(issue, keyPair) ==
    [key |-> keyPair.key, certs |-> <<keyPair.cert>>]

setKeyAppendCert(issue, keyPair) ==
    [key |-> keyPair.key, certs |-> Append(issue.certs, keyPair.cert)]

verifyTLS(d, now) ==
    \A b \in DOMAIN d.caCerts :
        /\ getLastCert(d.caCerts[b]) = d.ca.cert
        /\ VerifyTLS(d.issued[IssueOf[b]], d.caCerts[b], now)

\* chain.Verify
Verify(d, now) == verifyTLS(newChain(d), now)

------------------------------------------------------------------------------------
(* Rotation: rotation.go. All key pairs of one rotation carry its serial.           *)

rotateCertsWithoutOverlap(d, serial, now) ==
    [d EXCEPT !.issued =
       [i \in DOMAIN d.issued |->
          setKeyResetCert(d.issued[i], NewServerKeyPair(d.ca, serial, now, CertRotateInterval))]]

rotateCertsWithOverlap(d, serial, now) ==
    [d EXCEPT !.issued =
       [i \in DOMAIN d.issued |->
          setKeyAppendCert(d.issued[i], NewServerKeyPair(d.ca, serial, now, CertRotateInterval))]]

rotateAll(d, serial, now) ==
    rotateCertsWithoutOverlap(setCaKeyPair(d, NewCA(serial, now, CARotateInterval)), serial, now)

------------------------------------------------------------------------------------
(* Deadlines: deadlines.go.                                                         *)

\* The earliest of a set of times, the zero time when there is none.
minTime(times) ==
    LET earliest[S \in SUBSET Int] ==
          IF S = {} THEN ZeroTime ELSE CHOOSE t \in S : \A u \in S : t <= u
    IN  earliest[times]

\* Mutant: rotation without overlap.
nextRotationDeadlineAtExpiry(cert, overlap) == cert.notAfter

nextRotationDeadlineForCert(cert, overlap) ==
    cert.notBefore + ((cert.notAfter - cert.notBefore) - overlap)

\* The earliest rotation deadline of the last certificates of some lists, at once
\* when one of the lists is empty.
RotationDeadline(lists, overlap) ==
    IF << >> \in lists
      THEN ZeroTime
      ELSE minTime({nextRotationDeadlineForCert(getLastCert(l), overlap) : l \in lists})

BundleLists(d) == {d.caCerts[b] : b \in DOMAIN d.caCerts}

CertLists(d) == {d.issued[i].certs : i \in DOMAIN d.issued}

findRotationDeadlineForCA(d) == RotationDeadline(BundleLists(d), CAOverlapInterval)

findRotationDeadlineForCerts(d) == RotationDeadline(CertLists(d), CertOverlapInterval)

findCleanUpDeadlineForCertList(lists) ==
    minTime(UNION {{l[n].notAfter : n \in DOMAIN l} : l \in lists})

\* Mutant: only the last CA of a bundle is waited for.
findCleanUpDeadlineForLastCAs(d) == minTime({getLastCert(l).notAfter : l \in BundleLists(d)})

findCleanUpDeadlineForCACerts(d) == findCleanUpDeadlineForCertList(BundleLists(d))

findCleanUpDeadlineForCerts(d) == findCleanUpDeadlineForCertList(CertLists(d))

------------------------------------------------------------------------------------
(* Cleanup: cleanup.go.                                                             *)

\* Mutant: a certificate that expires now is kept.
cleanUpCertificateListLater(certs, now) ==
    IF Len(certs) <= 1 THEN certs ELSE SelectSeq(certs, LAMBDA c : c.notAfter >= now)

\* Mutant: a certificate is dropped before it expires.
cleanUpCertificateListEarly(certs, now) ==
    IF Len(certs) <= 1 THEN certs ELSE SelectSeq(certs, LAMBDA c : c.notAfter > now + 1)

\* The unexpired certificates, in order; a list of one certificate is left alone.
cleanUpCertificateList(certs, now) ==
    LET kept[n \in 0..Len(certs)] ==
          IF n = 0 THEN << >>
          ELSE IF certs[n].notAfter > now
            THEN Append(kept[n - 1], certs[n])
            ELSE kept[n - 1]
    IN  IF Len(certs) <= 1 THEN certs ELSE kept[Len(certs)]

cleanUpCACerts(d, now) ==
    [d EXCEPT !.caCerts = [b \in DOMAIN d.caCerts |-> cleanUpCertificateList(d.caCerts[b], now)]]

cleanUpCerts(d, now) ==
    [d EXCEPT !.issued =
       [i \in DOMAIN d.issued |->
          [key   |-> d.issued[i].key,
           certs |-> cleanUpCertificateList(d.issued[i].certs, now)]]]

------------------------------------------------------------------------------------
(* Update: api.go and chain.go.                                                     *)

\* Mutant: a chain that does not verify is not replaced.
mustRotateCAWhenDue(d, now) == now >= findRotationDeadlineForCA(d)

\* Why Update replaces the CA, and why it replaces the issued certificates.
mustRotateCA(d, now) ==
    \/ now >= findRotationDeadlineForCA(d)
    \/ ~ verifyTLS(d, now)

mustRotateCerts(d, now) == now >= findRotationDeadlineForCerts(d)

\* Mutant: the CA is replaced with every issued certificate.
rotateEverything(d, serial, now) ==
    IF mustRotateCA(d, now) \/ mustRotateCerts(d, now) THEN rotateAll(d, serial, now) ELSE d

rotate(d, serial, now) ==
    IF mustRotateCA(d, now)
      THEN rotateAll(d, serial, now)
      ELSE IF mustRotateCerts(d, now)
        THEN rotateCertsWithOverlap(d, serial, now)
        ELSE d

cleanUpCA(d, now) ==
    IF now >= findCleanUpDeadlineForCACerts(d) THEN cleanUpCACerts(d, now) ELSE d

cleanUpIssued(d, now) ==
    IF now >= findCleanUpDeadlineForCerts(d) THEN cleanUpCerts(d, now) ELSE d

\* Mutant: the clean-up deadline of the issued certificates is not waited for.
updateWithoutCleanUp(d, serial, now) ==
    LET rotated == rotate(d, serial, now)
        cleaned == cleanUpIssued(cleanUpCA(rotated, now), now)
    IN  [data     |-> cleaned,
         updateAt |-> minTime({findRotationDeadlineForCA(rotated),
                               findRotationDeadlineForCerts(rotated),
                               findCleanUpDeadlineForCACerts(cleaned)})]

\* The updated chain and the time at which Update is to be called again.
update(d, serial, now) ==
    LET rotated == rotate(d, serial, now)
        cleaned == cleanUpIssued(cleanUpCA(rotated, now), now)
    IN  [data     |-> cleaned,
         updateAt |-> minTime({findRotationDeadlineForCA(rotated),
                               findRotationDeadlineForCerts(rotated),
                               findCleanUpDeadlineForCACerts(cleaned),
                               findCleanUpDeadlineForCerts(cleaned)})]

Update(d, serial, now) == update(newChain(d), serial, now)
====
