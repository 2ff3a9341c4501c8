------------------------------- MODULE ChainLifecycle -------------------------------
(* The life of the certificate chain in a cluster: the controller reconciles it at  *)
(* the times Update asks for, or later, and somebody else deletes secrets or resets *)
(* CA bundles. A reconcile (read, chain.Update, write) is one step here; its        *)
(* interleavings are the matter of another module. A reconcile that fails without   *)
(* effect and is retried is a reconcile that comes later.                           *)
EXTENDS CertificateChain

CONSTANTS
    StartTime,      \* the time at which the controller starts
    MaxTime,        \* bound: the time stops there
    MaxLateness,    \* a queued reconcile is done at most that long after it is due
    MaxFaults       \* bound: how often others interfere with the chain

ASSUME TimeAssumption ==
    /\ StartTime \in Nat
    /\ MaxTime \in Nat
    /\ MaxLateness \in Nat
    /\ MaxFaults \in Nat

VARIABLES
    now,        \* the clock (triple.Now)
    chain,      \* the chain data stored in the cluster
    serial,     \* number of rotations so far
    wakeAt,     \* when the next reconcile is due in the controller's work queue
    intact,     \* nobody interfered since the last reconcile
    faults,     \* how often others interfered
    served      \* history: the certificates published for an issue, with the CA that
                \* signed them, since a bundle of the issue was last interfered with

vars == <<now, chain, serial, wakeAt, intact, faults, served>>

EmptyChain ==
    [ca      |-> [key |-> NoKey, cert |-> NoCert],
     issued  |-> [i \in Issues |-> [key |-> NoKey, certs |-> << >>]],
     caCerts |-> [b \in Bundles |-> << >>]]

\* The controller starts on a cluster whose webhooks have no CA bundle yet.
Init ==
    /\ now = StartTime
    /\ chain = EmptyChain
    /\ serial = 0
    /\ wakeAt = StartTime
    /\ intact = FALSE
    /\ faults = 0
    /\ served = [i \in Issues |-> {}]

Rotates(d, t) == mustRotateCA(newChain(d), t) \/ mustRotateCerts(newChain(d), t)

Published(d, i) == {[cert |-> d.issued[i].certs[n], ca |-> d.ca.cert] :
                       n \in DOMAIN d.issued[i].certs}

\* A result of Reconcile that is not in the future is requeued at once.
RequeueAt(updateAt) == IF updateAt > now THEN updateAt ELSE now

\* ReconcileWebhook.Reconcile: due or not, any event of a watched object triggers it.
Reconcile ==
    LET result == Update(chain, serial + 1, now)
    IN  /\ chain' = result.data
        /\ serial' = IF Rotates(chain, now) THEN serial + 1 ELSE serial
        /\ wakeAt' = RequeueAt(result.updateAt)
        /\ intact' = TRUE
        /\ served' = [i \in Issues |-> served[i] \cup Published(result.data, i)]
        /\ UNCHANGED <<now, faults>>

\* Time passes, but not beyond the time a due reconcile has to be done.
Tick ==
    /\ now < MaxTime
    /\ now < wakeAt + MaxLateness
    /\ now' = now + 1
    /\ UNCHANGED <<chain, serial, wakeAt, intact, faults, served>>

\* What every interference does: the watch on the object enqueues a reconcile.
Interfere ==
    /\ faults < MaxFaults
    /\ faults' = faults + 1
    /\ intact' = FALSE
    /\ wakeAt' = IF wakeAt > now THEN now ELSE wakeAt
    /\ UNCHANGED <<now, serial>>

\* The CA secret is deleted or its key is made unusable.
LoseCA ==
    /\ Interfere
    /\ \E cert \in {NoCert, chain.ca.cert} :
         chain' = [chain EXCEPT !.ca = [key |-> NoKey, cert |-> cert]]
    /\ UNCHANGED served

\* A service secret is deleted or one of its fields is made unusable.
LoseService(i) ==
    /\ Interfere
    /\ \E key \in {NoKey, chain.issued[i].key}, certs \in {<< >>, chain.issued[i].certs} :
         /\ key = NoKey \/ certs = << >>
         /\ chain' = [chain EXCEPT !.issued[i] = [key |-> key, certs |-> certs]]
    /\ UNCHANGED served

\* A webhook's CA bundle is reset or replaced by the one of before the last rotation.
LoseBundle(b) ==
    /\ Interfere
    /\ \E bundle \in {<< >>, SubSeq(chain.caCerts[b], 1, Len(chain.caCerts[b]) - 1)} :
         chain' = [chain EXCEPT !.caCerts[b] = bundle]
    /\ served' = [served EXCEPT ![IssueOf[b]] = {}]

Next ==
    \/ Reconcile
    \/ Tick
    \/ LoseCA
    \/ \E i \in Issues : LoseService(i)
    \/ \E b \in Bundles : LoseBundle(b)

Spec == Init /\ [][Next]_vars

------------------------------------------------------------------------------------
\* The types: in particular validity dates never go below the zero time, which decides
\* whether a deadline is due, and what is published for an issue always has a CA.
TypeOK ==
    /\ now \in Nat
    /\ chain \in CertificateChainData
    /\ serial \in Nat
    /\ wakeAt \in Nat
    /\ intact \in BOOLEAN
    /\ faults \in 0..MaxFaults
    /\ served \in [Issues -> SUBSET [cert : Certificate, ca : Certificate]]

\* Whatever was lost of the chain, the CA secret, secrets of services or bundles, in part
\* or all of it, the reconcile after it leaves a chain that verifies (the doc of
\* chain.Update: "keeps the certificate chain data current").
ReconcileRepairs == [][Reconcile => Verify(chain', now)]_vars

\* A reconcile that follows another at once has nothing to do and is due later: the
\* events of the controller's own writes do not make it rotate in a loop.
ReconcileSettles ==
    [][Reconcile => /\ wakeAt' > now
                    /\ ~ Rotates(chain', now)
                    /\ Update(chain', serial', now).data = chain']_vars

\* A service keeps being trusted with a certificate it got earlier: until a certificate
\* or its CA expires the bundles of its issue verify it, also when the CA was rotated
\* (README, the CA overlap), the CA secret lost or the service secret lost since.
OldCertificatesStayTrusted ==
    \A b \in Bundles : \A s \in served[IssueOf[b]] :
        ValidAt(s.cert, now) /\ now < s.ca.notAfter
            => VerifyCertificate(s.cert, chain.caCerts[b], now)

\* The certificate of the current key is the last of its list.
Current(i) == getLastCert(chain.issued[i].certs)

\* When reconciles are at most the overlap late, the certificate of the service's key
\* is at every moment valid and trusted by every bundle.
CurrentCertificateTrusted ==
    intact => \A b \in Bundles :
                /\ Current(IssueOf[b]).key = chain.issued[IssueOf[b]].key
                /\ VerifyCertificate(Current(IssueOf[b]), chain.caCerts[b], now)

\* When reconciles are never late, the chain verifies at every moment in between.
ChainVerifies == intact => Verify(chain, now)

\* The CA is replaced only in its overlap window or when somebody interfered
\* (controller_test.go, "shouldn't have rotate CA certificate").
CARotatedOnlyWhenDue ==
    [][Reconcile /\ chain'.ca # chain.ca
         => ~ intact \/ now >= nextRotationDeadlineForCert(chain.ca.cert, CAOverlapInterval)]_vars

\* How far the expiry dates of two certificates of a list that follow each other are
\* apart when the second replaces the first in its overlap window.
CAGap == CARotateInterval - CAOverlapInterval - (Second - 1)

CertGap == CertRotateInterval - CertOverlapInterval - (Second - 1)

\* Punctual reconciles keep no more certificates than the overlap needs, one for every
\* rotation within the life of a certificate, and one for every interference.
ListsBounded ==
    /\ \A b \in Bundles : (Len(chain.caCerts[b]) - 1 - faults) * CAGap < CARotateInterval
    /\ \A i \in Issues : (Len(chain.issued[i].certs) - 1) * CertGap < CertRotateInterval

\* Trust as the chain gives it: reconciles, and lost secrets and bundles, keep the promise
\* of module Trust to the clients of the webhooks.
ClientTrust ==
    INSTANCE Trust WITH trusted      <- [b \in Bundles |-> {chain.caCerts[b][n] : n \in DOMAIN chain.caCerts[b]}],
                        issuer       <- chain.ca.cert,
                        disturbances <- faults,
                        settled      <- intact

\* No sequence of rotations, clean-ups and losses takes an unexpired CA from a client or
\* gives clients different new ones: the life of the chain implements Trust.
ImplementsTrust == ClientTrust!Spec
====
