---------------------------- MODULE WebhookServerProofs ----------------------------
(* Proofs about WebhookServer, for every value of its constants with an issue: the  *)
(* types, that clients trust servers with old projections of their secrets, and that*)
(* they refuse a server, and a server is down, only briefly.                        *)
EXTENDS WebhookServer, ChainLifecycleProofs

------------------------------------------------------------------------------------
(* The inductive invariant.                                                         *)

\* Every issue has one certificate, which is the one of its key and is not in its
\* overlap window at time t.
SingleFresh(t) ==
    \A j \in Issues :
        /\ Len(chain.issued[j].certs) = 1
        /\ LoadX509KeyPair(chain.issued[j])
        /\ t < chain.issued[j].certs[1].notAfter - CertOverlapInterval

\* A CA was replaced, not before the files of the pod became outdated. A key pair that
\* can be loaded is on its way to the pod and stays so for as long as that may take.
Arriving(i, ca) ==
    /\ Outdated(i)
    /\ SingleFresh(now - lag[i] + MountLag)
    /\ now - lag[i] + CAOverlapInterval <= ca.notAfter + MaxLateness

\* It has arrived, and the watcher is about to load it.
Arrived(i, ca) ==
    /\ event[i]
    /\ LoadX509KeyPair(mounted[i])
    /\ SingleFresh(now)
    /\ now < ca.notAfter

\* The first certificate of the files is one that was published, by the current CA or by
\* one whose replacement is on its way.
MountedPublished(i) ==
    mounted[i].certs # << >> =>
        \E s \in served[i] : /\ s.cert = mounted[i].certs[1]
                             /\ s.ca = chain.ca.cert \/ Arriving(i, s.ca)

\* So is the one that is served, unless the server has lost a replacement.
LoadedPublished(i) ==
    server[i] = "serving" =>
        \E s \in served[i] : /\ s.cert = loaded[i].certs[1]
                             /\ \/ s.ca = chain.ca.cert
                                \/ Arriving(i, s.ca)
                                \/ Arrived(i, s.ca)
                                \/ missed[i] > 0

\* What holds until somebody interferes.
Undisturbed ==
    /\ intact \/ \A i \in Issues : served[i] = {}
    /\ \A i \in Issues :
         /\ Published(chain, i) \subseteq served[i]
         /\ \A s \in served[i] : s.cert.notBefore <= now
         /\ MountedPublished(i)
         /\ LoadedPublished(i)

\* Keys are from rotations that happened.
KeysKnown == \A i \in Issues : chain.issued[i].key <= serial /\ mounted[i].key <= serial

\* The types need no more than the invariant of the chain.
TypesInv == Inv /\ ServersTypeOK

ServersInv ==
    /\ TypesInv
    /\ KeysKnown
    /\ faults = 0 => Undisturbed

------------------------------------------------------------------------------------
(* The types.                                                                       *)

LEMMA TypesInit == ServersInit => TypesInv
<1> SUFFICES ASSUME ServersInit PROVE TypesInv
  OBVIOUS
<1>1. Inv  BY InitInv DEF ServersInit
<1>2. NoPair \in CertificateIssue /\ ~ LoadX509KeyPair(NoPair)
  <2>1. NoKey \in Nat /\ << >> \in Seq(Certificate)  BY DEF NoKey
  <2> QED  BY <2>1 DEF NoPair, CertificateIssue, LoadX509KeyPair
<1>3. 0 \in 0..MountLag  BY MountAssumption
<1>4. /\ TypeOK
      /\ server \in [Issues -> {"waiting", "starting", "serving", "ended"}]
      /\ mounted \in [Issues -> CertificateIssue]
      /\ loaded \in [Issues -> CertificateIssue]
      /\ refused \in [Issues -> Nat]
      /\ down \in [Issues -> Nat]
      /\ missed \in [Issues -> Nat]
      /\ lag \in [Issues -> 0..MountLag]
  BY <1>1, <1>2, <1>3 DEF ServersInit, Inv
<1>5. /\ event \in [Issues -> BOOLEAN] /\ \A i \in Issues : ~ event[i]
      /\ watching \in [Issues -> BOOLEAN] /\ \A i \in Issues : ~ watching[i]
  BY DEF ServersInit
<1>6. \A i \in Issues : server[i] = "waiting" /\ loaded[i] = NoPair  BY DEF ServersInit
<1>7. \A i \in Issues : /\ server[i] = "serving" <=> LoadX509KeyPair(loaded[i])
                        /\ watching[i] => server[i] = "serving"
                        /\ event[i] => watching[i]
  BY <1>2, <1>5, <1>6
<1> QED  BY <1>1, <1>4, <1>5, <1>7 DEF TypesInv, ServersTypeOK

\* The chain lives as in ChainLifecycle, or does not change.
LEMMA LifeInv ==
    ASSUME Issues # {}, Inv, [ServersNext]_serverVars
    PROVE  Inv'
<1>1. CASE ChainStep  BY <1>1, StepInv DEF ChainStep, Next
<1>2. CASE TimePasses
  <2>1. Tick  BY <1>2 DEF TimePasses
  <2> QED  BY <2>1, TickInv
<1>3. CASE UNCHANGED vars  BY <1>3, StepInv
<1>4. ASSUME NEW i \in Issues,
             \/ waitForTLSReadiness(i) \/ Start(i) \/ Watch(i)
           \/ ReadCertificate(i) \/ Mount(i) \/ Restart(i)
      PROVE  UNCHANGED vars
  BY <1>4 DEF waitForTLSReadiness, Start, Watch, ReadCertificate, Mount, Restart
<1> QED  BY <1>1, <1>2, <1>3, <1>4 DEF ServersNext, serverVars

\* The parts of the type invariant that are about the servers.
ServerTypes ==
    /\ server \in [Issues -> {"waiting", "starting", "serving", "ended"}]
    /\ mounted \in [Issues -> CertificateIssue]
    /\ lag \in [Issues -> 0..MountLag]
    /\ watching \in [Issues -> BOOLEAN]
    /\ event \in [Issues -> BOOLEAN]
    /\ loaded \in [Issues -> CertificateIssue]
    /\ refused \in [Issues -> Nat]
    /\ down \in [Issues -> Nat]
    /\ missed \in [Issues -> Nat]

ServerPairs ==
    \A i \in Issues : /\ server[i] = "serving" <=> LoadX509KeyPair(loaded[i])
                      /\ watching[i] => server[i] = "serving"
                      /\ event[i] => watching[i]

LEMMA StartTypes ==
    ASSUME ServerTypes, ServerPairs, NEW i \in Issues, Start(i)
    PROVE  ServerTypes' /\ ServerPairs'
<1>1. /\ mounted' = mounted /\ lag' = lag /\ watching' = watching /\ event' = event
      /\ missed' = missed /\ refused' = refused /\ down' = down
      /\ server[i] = "starting"
  BY DEF Start, historyVars
<1>2. CASE LoadX509KeyPair(mounted[i])
  <2>1. /\ server' = [server EXCEPT ![i] = "serving"]
        /\ loaded' = [loaded EXCEPT ![i] = mounted[i]]
    BY <1>2 DEF Start
  <2>2. ServerTypes'  BY <1>1, <2>1 DEF ServerTypes
  <2>3. ASSUME NEW j \in Issues
        PROVE  /\ server'[j] = "serving" <=> LoadX509KeyPair(loaded'[j])
               /\ watching'[j] => server'[j] = "serving"
               /\ event'[j] => watching'[j]
    <3>0. event'[j] => watching'[j]  BY <1>1 DEF ServerPairs
    <3>1. CASE j = i
      <4>1. server'[i] = "serving" /\ loaded'[i] = mounted[i]  BY <2>1 DEF ServerTypes
      <4> QED  BY <1>2, <3>0, <3>1, <4>1
    <3>2. CASE j # i
      <4>1. server'[j] = server[j] /\ loaded'[j] = loaded[j]  BY <2>1, <3>2 DEF ServerTypes
      <4> QED  BY <1>1, <4>1 DEF ServerPairs
    <3> QED  BY <3>1, <3>2
  <2> QED  BY <2>2, <2>3 DEF ServerPairs
<1>3. CASE ~ LoadX509KeyPair(mounted[i])
  <2>1. server' = [server EXCEPT ![i] = "ended"] /\ loaded' = loaded
    BY <1>3 DEF Start
  <2>2. ServerTypes'  BY <1>1, <2>1 DEF ServerTypes
  <2>3. ASSUME NEW j \in Issues
        PROVE  /\ server'[j] = "serving" <=> server[j] = "serving"
    BY <1>1, <2>1 DEF ServerTypes
  <2> QED  BY <1>1, <2>1, <2>2, <2>3 DEF ServerPairs
<1> QED  BY <1>2, <1>3

LEMMA WatchTypes ==
    ASSUME ServerTypes, ServerPairs, NEW i \in Issues, Watch(i)
    PROVE  ServerTypes' /\ ServerPairs'
<1>1. /\ mounted' = mounted /\ lag' = lag /\ server' = server /\ event' = event /\ loaded' = loaded
      /\ missed' = missed /\ refused' = refused /\ down' = down
      /\ server[i] = "serving"
      /\ watching' = [watching EXCEPT ![i] = TRUE]
  BY DEF Watch, historyVars
<1>2. /\ watching' \in [Issues -> BOOLEAN] /\ \A j \in Issues : watching[j] => watching'[j]
      /\ \A j \in Issues : watching'[j] => watching[j] \/ server[j] = "serving"
  <2>1. watching \in [Issues -> BOOLEAN]  BY DEF ServerTypes
  <2> QED  BY <1>1, <2>1
<1> QED  BY <1>1, <1>2 DEF ServerTypes, ServerPairs

LEMMA ReadTypes ==
    ASSUME ServerTypes, ServerPairs, NEW i \in Issues, ReadCertificate(i)
    PROVE  ServerTypes' /\ ServerPairs'
<1>1. /\ mounted' = mounted /\ lag' = lag /\ server' = server /\ refused' = refused
      /\ down' = down /\ missed' = missed /\ watching' = watching /\ event[i]
      /\ event' = [event EXCEPT ![i] = FALSE]
      /\ loaded' = [loaded EXCEPT ![i] = IF LoadX509KeyPair(mounted[i]) THEN mounted[i] ELSE loaded[i]]
  BY DEF ReadCertificate, historyVars
<1>2. event' \in [Issues -> BOOLEAN] /\ \A j \in Issues : event'[j] => event[j]
  <2>1. event \in [Issues -> BOOLEAN]  BY DEF ServerTypes
  <2> QED  BY <1>1, <2>1
<1>3. ServerTypes'
  <2>1. loaded' \in [Issues -> CertificateIssue]  BY <1>1 DEF ServerTypes
  <2> QED  BY <1>1, <1>2, <2>1 DEF ServerTypes
<1>4. \A j \in Issues : LoadX509KeyPair(loaded'[j]) <=> LoadX509KeyPair(loaded[j])
  <2>1. LoadX509KeyPair(loaded[i])  BY <1>1 DEF ServerPairs
  <2>2. \A j \in Issues : loaded'[j] = IF j = i /\ LoadX509KeyPair(mounted[i]) THEN mounted[i] ELSE loaded[j]
    BY <1>1 DEF ServerTypes
  <2> QED  BY <2>1, <2>2
<1> QED  BY <1>1, <1>2, <1>3, <1>4 DEF ServerPairs

LEMMA MountTypes ==
    ASSUME ServerTypes, ServerPairs, TypeOK, NEW i \in Issues, Mount(i)
    PROVE  ServerTypes' /\ ServerPairs'
<1>1. /\ server' = server /\ loaded' = loaded /\ refused' = refused /\ down' = down
      /\ mounted' = [mounted EXCEPT ![i] = chain.issued[i]]
      /\ lag' = [lag EXCEPT ![i] = 0]
      /\ watching' = watching /\ event' = [event EXCEPT ![i] = watching[i]]
      /\ missed' = [missed EXCEPT ![i] = IF Misses(i) THEN missed[i] + 1 ELSE missed[i]]
  BY DEF Mount, historyVars
<1>2. chain.issued[i] \in CertificateIssue  BY DEF TypeOK, CertificateChainData
<1>3. 0 \in 0..MountLag  BY MountAssumption
<1>4. event' \in [Issues -> BOOLEAN] /\ \A j \in Issues : event'[j] => event[j] \/ watching[j]
  <2>1. event \in [Issues -> BOOLEAN] /\ watching \in [Issues -> BOOLEAN]  BY DEF ServerTypes
  <2>2. watching[i] \in BOOLEAN  BY <2>1
  <2> QED  BY <1>1, <2>1, <2>2, Zenon
<1>5. mounted' \in [Issues -> CertificateIssue] /\ lag' \in [Issues -> 0..MountLag]
  BY <1>1, <1>2, <1>3 DEF ServerTypes
<1>6. missed' \in [Issues -> Nat]
  <2>1. missed \in [Issues -> Nat]  BY DEF ServerTypes
  <2>2. missed[i] + 1 \in Nat /\ missed[i] \in Nat  BY <2>1
  <2> QED  BY <1>1, <2>1, <2>2
<1> QED  BY <1>1, <1>4, <1>5, <1>6 DEF ServerTypes, ServerPairs

LEMMA RestartTypes ==
    ASSUME ServerTypes, ServerPairs, TypeOK, NEW i \in Issues, Restart(i)
    PROVE  ServerTypes' /\ ServerPairs'
<1>1. /\ refused' = refused /\ down' = down /\ missed' = missed
      /\ server' = [server EXCEPT ![i] = "waiting"]
      /\ watching' = [watching EXCEPT ![i] = FALSE]
      /\ event' = [event EXCEPT ![i] = FALSE]
      /\ loaded' = [loaded EXCEPT ![i] = NoPair]
      /\ lag' = [lag EXCEPT ![i] = IF mounted'[i] = mounted[i] THEN lag[i] ELSE 0]
  BY DEF Restart, historyVars
<1>2. PICK files \in {mounted[i], chain.issued[i]} : mounted' = [mounted EXCEPT ![i] = files]
  BY DEF Restart
<1>3. chain.issued[i] \in CertificateIssue  BY DEF TypeOK, CertificateChainData
<1>4. NoPair \in CertificateIssue /\ ~ LoadX509KeyPair(NoPair)
  <2>1. NoKey \in Nat /\ << >> \in Seq(Certificate)  BY DEF NoKey
  <2> QED  BY <2>1 DEF NoPair, CertificateIssue, LoadX509KeyPair
<1>5. 0 \in 0..MountLag  BY MountAssumption
<1>6. /\ event' \in [Issues -> BOOLEAN] /\ \A j \in Issues : event'[j] => event[j] /\ j # i
      /\ watching' \in [Issues -> BOOLEAN]
      /\ \A j \in Issues : watching'[j] <=> watching[j] /\ j # i
  <2>1. event \in [Issues -> BOOLEAN] /\ watching \in [Issues -> BOOLEAN]  BY DEF ServerTypes
  <2> QED  BY <1>1, <2>1
<1>7. /\ mounted' \in [Issues -> CertificateIssue] /\ loaded' \in [Issues -> CertificateIssue]
      /\ server' \in [Issues -> {"waiting", "starting", "serving", "ended"}]
  BY <1>1, <1>2, <1>3, <1>4 DEF ServerTypes
<1>8. lag' \in [Issues -> 0..MountLag]  BY <1>1, <1>5 DEF ServerTypes
<1>9. ASSUME NEW j \in Issues
      PROVE  /\ server'[j] = "serving" <=> server[j] = "serving" /\ j # i
             /\ loaded'[j] = IF j = i THEN NoPair ELSE loaded[j]
  BY <1>1 DEF ServerTypes
<1>10. ASSUME NEW j \in Issues
       PROVE  server'[j] = "serving" <=> LoadX509KeyPair(loaded'[j])
  <2>1. CASE j = i  BY <1>4, <1>9, <2>1
  <2>2. CASE j # i
    <3>1. loaded'[j] = loaded[j]  BY <1>9, <2>2
    <3> QED  BY <1>9, <2>2, <3>1 DEF ServerPairs
  <2> QED  BY <2>1, <2>2
<1> QED  BY <1>1, <1>6, <1>7, <1>8, <1>9, <1>10 DEF ServerTypes, ServerPairs

LEMMA TimePassesTypes ==
    ASSUME ServerTypes, ServerPairs, TimePasses
    PROVE  ServerTypes' /\ ServerPairs'
<1>1. /\ mounted' = mounted /\ watching' = watching /\ event' = event /\ loaded' = loaded
      /\ missed' = missed
      /\ lag' = [i \in Issues |-> IF Outdated(i) THEN lag[i] + 1 ELSE 0]
      /\ server' = [i \in Issues |-> IF server[i] = "ended" THEN "waiting" ELSE server[i]]
      /\ refused' = [i \in Issues |-> IF Refused(i) THEN refused[i] + 1 ELSE 0]
      /\ down' = [i \in Issues |-> IF server[i] # "serving" THEN down[i] + 1 ELSE 0]
      /\ \A i \in Issues : Outdated(i) => lag[i] < MountLag
  BY DEF TimePasses
<1>2. lag' \in [Issues -> 0..MountLag]
  BY <1>1, MountAssumption DEF ServerTypes
<1>3. refused' \in [Issues -> Nat] /\ down' \in [Issues -> Nat]
  BY <1>1 DEF ServerTypes
<1>4. /\ server' \in [Issues -> {"waiting", "starting", "serving", "ended"}]
      /\ \A i \in Issues : server'[i] = "serving" <=> server[i] = "serving"
  BY <1>1 DEF ServerTypes
<1> QED  BY <1>1, <1>2, <1>3, <1>4 DEF ServerTypes, ServerPairs

LEMMA TypesStep ==
    ASSUME Issues # {}, TypesInv, [ServersNext]_serverVars
    PROVE  TypesInv'
<1>1. Inv' /\ TypeOK'
  <2>1. Inv'  BY LifeInv DEF TypesInv
  <2> QED  BY <2>1 DEF Inv
<1>2. TypeOK /\ ServerTypes /\ ServerPairs
  BY DEF TypesInv, ServersTypeOK, ServerTypes, ServerPairs
<1>3. ServerTypes' /\ ServerPairs'
  <2>1. CASE UNCHANGED <<podVars, historyVars>>
    BY <1>2, <2>1 DEF podVars, historyVars, ServerTypes, ServerPairs
  <2>2. CASE TimePasses  BY <1>2, <2>2, TimePassesTypes
  <2>3. ASSUME NEW i \in Issues, waitForTLSReadiness(i)
        PROVE  ServerTypes' /\ ServerPairs'
    <3>1. /\ server[i] = "waiting" /\ server' = [server EXCEPT ![i] = "starting"]
          /\ mounted' = mounted /\ lag' = lag /\ watching' = watching /\ event' = event
          /\ loaded' = loaded /\ missed' = missed /\ refused' = refused /\ down' = down
      BY <2>3 DEF waitForTLSReadiness, TLSReady, historyVars
    <3>2. /\ server' \in [Issues -> {"waiting", "starting", "serving", "ended"}]
          /\ \A j \in Issues : server'[j] = "serving" <=> server[j] = "serving"
      BY <1>2, <3>1 DEF ServerTypes
    <3> QED  BY <1>2, <3>1, <3>2 DEF ServerTypes, ServerPairs
  <2>4. ASSUME NEW i \in Issues,
               Start(i) \/ Watch(i) \/ ReadCertificate(i) \/ Mount(i) \/ Restart(i)
        PROVE  ServerTypes' /\ ServerPairs'
    BY <1>2, <2>4, StartTypes, WatchTypes, ReadTypes, MountTypes, RestartTypes
  <2>5. CASE ChainStep  BY <2>1, <2>5 DEF ChainStep
  <2>6. CASE UNCHANGED serverVars  BY <2>1, <2>6 DEF serverVars
  <2> QED  BY <2>2, <2>3, <2>4, <2>5, <2>6 DEF ServersNext
<1> QED  BY <1>1, <1>3 DEF TypesInv, ServersTypeOK, ServerTypes, ServerPairs

\* The types of the servers; a server serves exactly when it has a key pair that could be
\* loaded, only then watches its files, only then has events to handle, and its files lag no
\* more than they may.
THEOREM ServersTypeCorrect ==
    ASSUME Issues # {}
    PROVE  ServersSpec => []ServersTypeOK
<1>1. TypesInv /\ [ServersNext]_serverVars => TypesInv'  BY TypesStep
<1>2. TypesInv => ServersTypeOK  BY DEF TypesInv
<1> QED  BY <1>1, <1>2, TypesInit, PTL DEF ServersSpec

------------------------------------------------------------------------------------
(* What Update does to the key pairs of the services.                               *)

\* A clean-up keeps keys, and lists of one certificate.
LEMMA CleanUpKeyPairs ==
    ASSUME NEW d \in CertificateChainData, NEW t \in Nat, NEW i \in Issues
    PROVE  /\ cleanUpIssued(d, t).issued[i].key = d.issued[i].key
           /\ Len(d.issued[i].certs) = 1 => cleanUpIssued(d, t).issued[i] = d.issued[i]
<1>1. DOMAIN d.issued = Issues
      /\ d.issued[i] = [key |-> d.issued[i].key, certs |-> d.issued[i].certs]
      /\ d = [ca |-> d.ca, issued |-> d.issued, caCerts |-> d.caCerts]
  BY ChainTypes DEF CertificateChainData
<1>2. cleanUpCerts(d, t).issued[i]
        = [key |-> d.issued[i].key, certs |-> cleanUpCertificateList(d.issued[i].certs, t)]
  BY <1>1 DEF cleanUpCerts
<1>3. Len(d.issued[i].certs) = 1 => cleanUpCertificateList(d.issued[i].certs, t) = d.issued[i].certs
  BY DEF cleanUpCertificateList
<1>4. cleanUpIssued(d, t) \in {cleanUpCerts(d, t), d}  BY DEF cleanUpIssued
<1> QED  BY <1>1, <1>2, <1>3, <1>4

\* Without overlap every service gets one certificate, with a key of this rotation.
LEMMA RotateAllKeyPairs ==
    ASSUME NEW d \in CertificateChainData, NEW k \in Nat \ {0}, NEW t \in Nat, NEW i \in Issues
    PROVE  LET new == rotateAll(d, k, t).issued[i]
           IN  /\ new.key = k
               /\ Len(new.certs) = 1
               /\ new.certs[1].key = k
               /\ new.certs[1].notAfter = Truncate(t + CertRotateInterval)
<1> DEFINE ca == NewCA(k, t, CARotateInterval)
           f == setCaKeyPair(d, ca)
           kp == NewServerKeyPair(ca, k, t, CertRotateInterval)
<1>1. DOMAIN d.issued = Issues  BY ChainTypes
<1>2. f.ca = ca /\ f.issued = d.issued /\ f = [ca |-> f.ca, issued |-> f.issued, caCerts |-> f.caCerts]
  BY DEF setCaKeyPair
<1>3. rotateAll(d, k, t) = [f EXCEPT !.issued = [j \in DOMAIN f.issued |->
        setKeyResetCert(f.issued[j], NewServerKeyPair(f.ca, k, t, CertRotateInterval))]]
  BY DEF rotateAll, rotateCertsWithoutOverlap
<1>4. kp.key = k /\ kp.cert.key = k /\ kp.cert.notAfter = Truncate(t + CertRotateInterval)
  BY DEF NewServerKeyPair, NewSignedCert
<1> HIDE DEF f, ca
<1>5. rotateAll(d, k, t).issued[i] = setKeyResetCert(f.issued[i], kp)
  BY <1>1, <1>2, <1>3
<1> HIDE DEF kp
<1>6. rotateAll(d, k, t).issued[i] = [key |-> kp.key, certs |-> <<kp.cert>>]
  BY <1>5 DEF setKeyResetCert
<1> QED  BY <1>4, <1>6

LEMMA RotateCertsKeyPairs ==
    ASSUME NEW d \in CertificateChainData, NEW k \in Nat \ {0}, NEW t \in Nat
    PROVE  /\ rotateCertsWithOverlap(d, k, t).ca = d.ca
           /\ \A i \in Issues : rotateCertsWithOverlap(d, k, t).issued[i].key = k
<1>1. DOMAIN d.issued = Issues /\ d = [ca |-> d.ca, issued |-> d.issued, caCerts |-> d.caCerts]
  BY ChainTypes DEF CertificateChainData
<1>2. rotateCertsWithOverlap(d, k, t).ca = d.ca  BY <1>1 DEF rotateCertsWithOverlap
<1>3. ASSUME NEW i \in Issues
      PROVE  rotateCertsWithOverlap(d, k, t).issued[i].key = k
  <2>1. rotateCertsWithOverlap(d, k, t).issued[i]
          = setKeyAppendCert(d.issued[i], NewServerKeyPair(d.ca, k, t, CertRotateInterval))
    BY <1>1 DEF rotateCertsWithOverlap
  <2> QED  BY <2>1 DEF setKeyAppendCert, NewServerKeyPair
<1> QED  BY <1>2, <1>3

\* Every service of d has one certificate, outside its overlap window at t.
Single(d, t) ==
    \A j \in Issues : /\ Len(d.issued[j].certs) = 1
                      /\ t < d.issued[j].certs[1].notAfter - CertOverlapInterval

\* Either Update replaces all key pairs with the CA, or it keeps the CA, and then it leaves
\* services alone of which each has one certificate that is not due.
LEMMA UpdateKeyPairs ==
    ASSUME NEW d \in CertificateChainData, NEW k \in Nat \ {0}, NEW t \in Nat, Issues # {},
           Consistent(d, t)
    PROVE  LET e == Update(d, k, t).data
           IN  \/ /\ Rotates(d, t)
                  /\ \A j \in Issues : /\ e.issued[j].key = k
                                       /\ Len(e.issued[j].certs) = 1
                                       /\ e.issued[j].certs[1].key = k
                                       /\ e.issued[j].certs[1].notAfter = Truncate(t + CertRotateInterval)
               \/ /\ e.ca = d.ca
                  /\ \A j \in Issues : \/ e.issued[j].key = d.issued[j].key
                                       \/ Rotates(d, t) /\ e.issued[j].key = k
                  /\ Single(d, t) => \A j \in Issues : e.issued[j] = d.issued[j]
<1> DEFINE c == newChain(d)
           r == rotate(c, k, t)
           f == cleanUpCA(r, t)
           g == cleanUpIssued(f, t)
<1>1. /\ c \in CertificateChainData /\ Consistent(c, t)
      /\ c.ca.key = NoKey => c.ca.cert = NoCert
  BY NewChain
<1>2. /\ r \in CertificateChainData /\ Consistent(r, t) /\ Established(r)
      /\ CAFresh(r, t) /\ CertsFresh(r, t)
  <2> HIDE DEF c
  <2> QED  BY <1>1, Rotate
<1>3. f \in CertificateChainData /\ f.ca = r.ca /\ f.issued = r.issued
      /\ Consistent(f, t) /\ Established(f)
  <2> HIDE DEF r
  <2> QED  BY <1>2, CleanUpCA
<1>4. CertsFresh(f, t)
  <2> HIDE DEF r, f
  <2> QED  BY <1>2, <1>3 DEF CertsFresh
<1>5. g.ca = f.ca
  <2> HIDE DEF f
  <2> QED  BY <1>3, <1>4, CleanUpIssued
<1>6. \A j \in Issues : /\ g.issued[j].key = f.issued[j].key
                        /\ Len(f.issued[j].certs) = 1 => g.issued[j] = f.issued[j]
  <2> HIDE DEF f
  <2> QED  BY <1>3, CleanUpKeyPairs
<1>7. Update(d, k, t).data = g  BY DEF Update, update
<1> HIDE DEF f, g
<1>8. CASE mustRotateCA(c, t)
  <2>1. r = rotateAll(c, k, t)  BY <1>8 DEF rotate
  <2>2. Rotates(d, t)  BY <1>8 DEF Rotates
  <2> HIDE DEF c, r
  <2>3. ASSUME NEW j \in Issues
        PROVE  /\ g.issued[j].key = k
               /\ Len(g.issued[j].certs) = 1
               /\ g.issued[j].certs[1].key = k
               /\ g.issued[j].certs[1].notAfter = Truncate(t + CertRotateInterval)
    BY <1>1, <1>3, <1>6, <2>1, RotateAllKeyPairs
  <2> QED  BY <1>7, <2>2, <2>3
<1>9. CASE ~ mustRotateCA(c, t)
  <2>2. Established(c)
    <3> HIDE DEF c
    <3> QED  BY <1>1, <1>9, NoRotationNeeded
  <2>3. c.ca = d.ca /\ \A j \in Issues : c.issued[j] = d.issued[j]
    <3>1. DOMAIN d.issued = Issues  BY ChainTypes
    <3>2. c.ca = d.ca  BY <2>2 DEF Established, newChain
    <3>3. ASSUME NEW j \in Issues PROVE c.issued[j] = d.issued[j]
      BY <2>2, <3>1 DEF Established, newChain
    <3> QED  BY <3>2, <3>3
  <2>4. CASE mustRotateCerts(c, t)
    <3>1. r = rotateCertsWithOverlap(c, k, t)  BY <1>9, <2>4 DEF rotate
    <3>2. Rotates(d, t)  BY <2>4 DEF Rotates
    <3>3. ~ Single(d, t)
      <4> SUFFICES ASSUME Single(d, t) PROVE FALSE
        OBVIOUS
      <4> HIDE DEF c
      <4>1. CertLists(c) \in SUBSET Seq(Certificate) /\ CertLists(c) # {}
        <5>1. DOMAIN c.issued = Issues /\ \A j \in Issues : c.issued[j].certs \in Seq(Certificate)
          BY <1>1, ChainTypes
        <5>2. PICK j \in Issues : TRUE  OBVIOUS
        <5>3. c.issued[j].certs \in CertLists(c)  BY <5>1 DEF CertLists
        <5>4. CertLists(c) \in SUBSET Seq(Certificate)  BY <5>1 DEF CertLists
        <5> QED  BY <5>3, <5>4
      <4>2. ASSUME NEW l \in CertLists(c)
            PROVE  l # << >> /\ t < l[Len(l)].notAfter - CertOverlapInterval
        <5>1. PICK j \in Issues : l = c.issued[j].certs  BY <1>1, ChainTypes DEF CertLists
        <5>2. Len(l) = 1 /\ t < l[1].notAfter - CertOverlapInterval
          BY <2>3, <5>1 DEF Single
        <5>3. l \in Seq(Certificate) /\ Len(l) = 1  BY <4>1, <5>2
        <5>4. l # << >>  BY <5>3
        <5> QED  BY <5>2, <5>4
      <4>3. t < RotationDeadline(CertLists(c), CertOverlapInterval)
        BY <4>1, <4>2, RotationDeadlineOf, OptionsAssumption
      <4>4. RotationDeadline(CertLists(c), CertOverlapInterval) \in Int
        BY <4>1, RotationDeadlineOf, OptionsAssumption
      <4> QED  BY <2>4, <4>3, <4>4 DEF mustRotateCerts, findRotationDeadlineForCerts
    <3> HIDE DEF c, r
    <3>4. r.ca = c.ca /\ \A j \in Issues : r.issued[j].key = k
      BY <1>1, <3>1, RotateCertsKeyPairs
    <3> QED  BY <1>3, <1>5, <1>6, <1>7, <2>3, <3>2, <3>3, <3>4
  <2>5. CASE ~ mustRotateCerts(c, t)
    <3>1. r = c  BY <1>9, <2>5 DEF rotate
    <3> HIDE DEF c, r
    <3>2. \A j \in Issues : g.issued[j].key = d.issued[j].key
      BY <1>3, <1>6, <2>3, <3>1
    <3>3. Single(d, t) => \A j \in Issues : g.issued[j] = d.issued[j]
      BY <1>3, <1>6, <2>3, <3>1 DEF Single
    <3> QED  BY <1>3, <1>5, <1>7, <2>3, <3>1, <3>2, <3>3
  <2> QED  BY <2>4, <2>5
<1> QED  BY <1>8, <1>9

------------------------------------------------------------------------------------
(* The steps of the chain.                                                          *)

\* The mounts follow a rotation before the overlap of the CA ends, less the lateness of
\* the rotation, and before the next rotation of the certificates.
MountsInTime ==
    /\ MountLag + MaxLateness < CAOverlapInterval
    /\ MountLag + Second <= CertRotateInterval - CertOverlapInterval

\* The types of what is compared.
LEMMA Types ==
    ASSUME TypesInv, NEW i \in Issues
    PROVE  /\ chain \in CertificateChainData /\ Consistent(chain, now)
           /\ now \in Nat /\ serial \in Nat /\ wakeAt \in Nat /\ faults \in Nat
           /\ chain.issued[i] \in CertificateIssue /\ chain.issued[i].key \in Nat
           /\ mounted[i] \in CertificateIssue /\ mounted[i].key \in Nat
           /\ lag[i] \in Nat /\ lag[i] <= MountLag
           /\ \A s \in served[i] : /\ s = [cert |-> s.cert, ca |-> s.ca]
                                   /\ s.cert \in Certificate /\ s.ca \in Certificate
                                   /\ s.cert.notBefore \in Nat /\ s.cert.notAfter \in Nat
                                   /\ s.ca.notBefore \in Nat /\ s.ca.notAfter \in Nat
<1>1. TypeOK /\ Consistent(chain, now)  BY DEF TypesInv, Inv
<1>2. /\ chain \in CertificateChainData /\ now \in Nat /\ serial \in Nat /\ wakeAt \in Nat
      /\ faults \in 0..MaxFaults
      /\ served[i] \in SUBSET [cert : Certificate, ca : Certificate]
  BY <1>1 DEF TypeOK
<1>3. chain.issued[i] \in CertificateIssue  BY <1>2 DEF CertificateChainData
<1>4. mounted[i] \in CertificateIssue /\ lag[i] \in 0..MountLag
  BY DEF TypesInv, ServersTypeOK
<1>5. lag[i] \in Nat /\ lag[i] <= MountLag  BY <1>4, MountAssumption
<1>6. faults \in Nat  BY <1>2, TimeAssumption
<1>7. ASSUME NEW s \in served[i]
      PROVE  /\ s = [cert |-> s.cert, ca |-> s.ca]
             /\ s.cert \in Certificate /\ s.ca \in Certificate
             /\ s.cert.notBefore \in Nat /\ s.cert.notAfter \in Nat
             /\ s.ca.notBefore \in Nat /\ s.ca.notAfter \in Nat
  BY <1>2 DEF Certificate
<1> QED  BY <1>1, <1>2, <1>3, <1>4, <1>5, <1>6, <1>7 DEF CertificateIssue

\* Undisturbed, the CA is outside its overlap window but for the lateness.
LEMMA CurrentCA ==
    ASSUME TypesInv, faults = 0, Undisturbed, NEW i \in Issues, NEW s \in served[i],
           s.ca = chain.ca.cert
    PROVE  now + CAOverlapInterval <= s.ca.notAfter + MaxLateness
<1>1. intact  BY DEF Undisturbed
<1>2. wakeAt <= s.ca.notAfter - CAOverlapInterval /\ now <= wakeAt + MaxLateness
  BY <1>1 DEF TypesInv, Inv, NotOverdue
<1>3. now \in Nat /\ wakeAt \in Nat /\ s.ca.notAfter \in Nat  BY Types
<1> QED  BY <1>2, <1>3, OptionsAssumption, TimeAssumption

\* After a rotation of everything the new key pairs stay as they are until they are mounted.
LEMMA RotatedFresh ==
    ASSUME TypesInv, MountsInTime, NEW u \in Int, u <= now + MountLag, NEW k \in Nat \ {0},
           \A j \in Issues : /\ chain'.issued[j].key = k
                             /\ Len(chain'.issued[j].certs) = 1
                             /\ chain'.issued[j] \in CertificateIssue
                             /\ chain'.issued[j].certs[1].key = k
                             /\ chain'.issued[j].certs[1].notAfter = Truncate(now + CertRotateInterval)
    PROVE  \A j \in Issues : /\ Len(chain'.issued[j].certs) = 1
                             /\ LoadX509KeyPair(chain'.issued[j])
                             /\ u < chain'.issued[j].certs[1].notAfter - CertOverlapInterval
<1> SUFFICES ASSUME NEW j \in Issues
             PROVE  /\ LoadX509KeyPair(chain'.issued[j])
                    /\ u < Truncate(now + CertRotateInterval) - CertOverlapInterval
  OBVIOUS
<1>1. chain'.issued[j].certs # << >>
  <2>1. chain'.issued[j].certs \in Seq(Certificate) /\ Len(chain'.issued[j].certs) = 1
    BY DEF CertificateIssue
  <2> QED  BY <2>1
<1>2. LoadX509KeyPair(chain'.issued[j])  BY <1>1 DEF LoadX509KeyPair, NoKey
<1>3. now \in Nat /\ now + CertRotateInterval \in Nat  BY Types, OptionsAssumption
<1>4. /\ Truncate(now + CertRotateInterval) \in Nat
      /\ now + CertRotateInterval < Truncate(now + CertRotateInterval) + Second
  BY <1>3, TruncateBounds
<1>5. u < Truncate(now + CertRotateInterval) - CertOverlapInterval
  BY <1>3, <1>4, OptionsAssumption, GranularityAssumption, MountAssumption DEF MountsInTime
<1> QED  BY <1>2, <1>5

\* What is still fresh when the files may arrive is so now.
LEMMA FreshNow ==
    ASSUME TypesInv, NEW i \in Issues, SingleFresh(now - lag[i] + MountLag)
    PROVE  SingleFresh(now)
<1> SUFFICES ASSUME NEW j \in Issues
             PROVE  now < chain.issued[j].certs[1].notAfter - CertOverlapInterval
  BY DEF SingleFresh
<1>1. chain.issued[j].certs \in Seq(Certificate) /\ Len(chain.issued[j].certs) = 1
  BY Types DEF SingleFresh, CertificateIssue
<1>2. chain.issued[j].certs[1] \in Certificate  BY <1>1
<1>3. chain.issued[j].certs[1].notAfter \in Nat  BY <1>2 DEF Certificate
<1>4. now - lag[i] + MountLag < chain.issued[j].certs[1].notAfter - CertOverlapInterval
  BY DEF SingleFresh
<1>5. now \in Nat /\ lag[i] \in Nat /\ lag[i] <= MountLag  BY Types
<1> QED  BY <1>3, <1>4, <1>5, OptionsAssumption, MountAssumption

LEMMA ReconcileKeys ==
    ASSUME Issues # {}, TypesInv, KeysKnown, Reconcile, mounted' = mounted
    PROVE  KeysKnown' /\ \A j \in Issues : chain'.issued[j].key \in Nat
<1> DEFINE e == Update(chain, serial + 1, now).data
<1>1. PICK i0 \in Issues : TRUE  OBVIOUS
<1>2. /\ chain \in CertificateChainData /\ Consistent(chain, now) /\ now \in Nat /\ serial \in Nat
  BY <1>1, Types
<1>3. chain' = e /\ serial' = IF Rotates(chain, now) THEN serial + 1 ELSE serial
  BY DEF Reconcile
<1>4. serial + 1 \in Nat \ {0}  BY <1>2
<1>5. \A j \in Issues : \/ Rotates(chain, now) /\ e.issued[j].key = serial + 1
                        \/ e.issued[j].key = chain.issued[j].key
  <2> HIDE DEF e
  <2>1. \/ Rotates(chain, now) /\ \A j \in Issues : e.issued[j].key = serial + 1
        \/ \A j \in Issues : \/ e.issued[j].key = chain.issued[j].key
                             \/ Rotates(chain, now) /\ e.issued[j].key = serial + 1
    BY <1>2, <1>4, UpdateKeyPairs DEF e
  <2> QED  BY <2>1
<1> HIDE DEF e
<1>6. ASSUME NEW j \in Issues
      PROVE  /\ chain'.issued[j].key <= serial' /\ mounted'[j].key <= serial'
             /\ chain'.issued[j].key \in Nat
  <2>1. /\ chain.issued[j].key \in Nat /\ mounted[j].key \in Nat
        /\ chain.issued[j].key <= serial /\ mounted[j].key <= serial
    BY Types DEF KeysKnown
  <2> QED  BY <1>2, <1>3, <1>5, <2>1
<1> QED  BY <1>6 DEF KeysKnown

\* Update keeps what is on its way to a pod and, where it replaces the CA, it sends new key
\* pairs on their way to all pods.
LEMMA ReconcileServers ==
    ASSUME Issues # {}, MountsInTime, ServersInv, TypesInv', Reconcile, UNCHANGED podVars,
           faults' = 0
    PROVE  Undisturbed'
<1> DEFINE e == Update(chain, serial + 1, now).data
<1>0. TypesInv /\ KeysKnown  BY DEF ServersInv
<1>1. PICK i0 \in Issues : TRUE  OBVIOUS
<1>2. /\ chain \in CertificateChainData /\ Consistent(chain, now) /\ now \in Nat /\ serial \in Nat
  BY <1>0, <1>1, Types
<1>3. /\ chain' = e /\ now' = now /\ faults' = faults /\ intact' = TRUE
      /\ served' = [i \in Issues |-> served[i] \cup Published(chain', i)]
      /\ server' = server /\ mounted' = mounted /\ lag' = lag /\ event' = event /\ loaded' = loaded
      /\ missed' = missed
  BY DEF Reconcile, podVars
<1>4. faults = 0 /\ Undisturbed  BY <1>3 DEF ServersInv
<1>5. serial + 1 \in Nat \ {0}  BY <1>2
<1>6. \/ \A j \in Issues : /\ e.issued[j].key = serial + 1
                           /\ Len(e.issued[j].certs) = 1
                           /\ e.issued[j].certs[1].key = serial + 1
                           /\ e.issued[j].certs[1].notAfter = Truncate(now + CertRotateInterval)
      \/ /\ e.ca = chain.ca
         /\ Single(chain, now) => \A j \in Issues : e.issued[j] = chain.issued[j]
  <2> HIDE DEF e
  <2>1. \/ \A j \in Issues : /\ e.issued[j].key = serial + 1
                             /\ Len(e.issued[j].certs) = 1
                             /\ e.issued[j].certs[1].key = serial + 1
                             /\ e.issued[j].certs[1].notAfter = Truncate(now + CertRotateInterval)
        \/ /\ e.ca = chain.ca
           /\ Single(chain, now) => \A j \in Issues : e.issued[j] = chain.issued[j]
    BY <1>2, <1>5, UpdateKeyPairs DEF e
  <2> QED  BY <2>1
<1> HIDE DEF e
<1>7. \A j \in Issues : chain'.issued[j] \in CertificateIssue
  <2>1. chain' \in CertificateChainData  BY DEF TypesInv, Inv, TypeOK
  <2> QED  BY <2>1 DEF CertificateChainData
<1>8. ASSUME NEW i \in Issues, NEW s \in served[i]
      PROVE  /\ s.ca = chain.ca.cert \/ Arriving(i, s.ca)
                  => s.ca = chain'.ca.cert \/ Arriving(i, s.ca)'
             /\ Arrived(i, s.ca) => Arrived(i, s.ca)'
  <2>1. /\ lag[i] \in Nat /\ lag[i] <= MountLag /\ s.ca.notAfter \in Nat
        /\ mounted[i].key \in Nat
    BY <1>0, Types
  <2>2. /\ now - lag[i] + MountLag \in Int /\ now \in Int
        /\ now - lag[i] + MountLag <= now + MountLag /\ now <= now + MountLag
    BY <1>2, <2>1, MountAssumption
  <2>3. CASE \A j \in Issues : /\ e.issued[j].key = serial + 1
                               /\ Len(e.issued[j].certs) = 1
                               /\ e.issued[j].certs[1].key = serial + 1
                               /\ e.issued[j].certs[1].notAfter = Truncate(now + CertRotateInterval)
    <3>1. SingleFresh(now - lag[i] + MountLag)'
      BY <1>0, <1>3, <1>5, <1>7, <2>2, <2>3, RotatedFresh DEF SingleFresh
    <3>2. SingleFresh(now)'
      BY <1>0, <1>3, <1>5, <1>7, <2>2, <2>3, RotatedFresh DEF SingleFresh
    <3>3. Outdated(i)'
      <4>1. mounted[i].key <= serial  BY <1>0 DEF KeysKnown
      <4>2. mounted'[i].key # chain'.issued[i].key /\ chain'.issued[i].key # NoKey
        BY <1>2, <1>3, <2>1, <2>3, <4>1 DEF NoKey
      <4> QED  BY <4>2 DEF Outdated, NoPair
    <3>4. s.ca = chain.ca.cert \/ Arriving(i, s.ca)
            => now - lag[i] + CAOverlapInterval <= s.ca.notAfter + MaxLateness
      <4>1. CASE s.ca = chain.ca.cert
        <5>1. now + CAOverlapInterval <= s.ca.notAfter + MaxLateness
          BY <1>0, <1>4, <4>1, CurrentCA
        <5> QED  BY <1>2, <2>1, <5>1, OptionsAssumption, TimeAssumption
      <4>2. CASE Arriving(i, s.ca)  BY <4>2 DEF Arriving
      <4> QED  BY <4>1, <4>2
    <3>5. s.ca = chain.ca.cert \/ Arriving(i, s.ca) => Arriving(i, s.ca)'
      BY <1>3, <3>1, <3>3, <3>4 DEF Arriving
    <3>6. Arrived(i, s.ca) => Arrived(i, s.ca)'
      BY <1>3, <3>2 DEF Arrived
    <3> QED  BY <3>5, <3>6
  <2>4. CASE /\ e.ca = chain.ca
             /\ Single(chain, now) => \A j \in Issues : e.issued[j] = chain.issued[j]
    <3>1. SingleFresh(now - lag[i] + MountLag) => SingleFresh(now)  BY <1>0, FreshNow
    <3>2. SingleFresh(now) => \A j \in Issues : chain'.issued[j] = chain.issued[j]
      BY <1>3, <2>4 DEF SingleFresh, Single
    <3>3. Arriving(i, s.ca) => Arriving(i, s.ca)'
      <4> SUFFICES ASSUME Arriving(i, s.ca) PROVE Arriving(i, s.ca)'
        OBVIOUS
      <4>1. \A j \in Issues : chain'.issued[j] = chain.issued[j]  BY <3>1, <3>2 DEF Arriving
      <4>2. SingleFresh(now - lag[i] + MountLag)'  BY <1>3, <4>1 DEF Arriving, SingleFresh
      <4>3. Outdated(i)'  BY <1>3, <4>1 DEF Arriving, Outdated
      <4> QED  BY <1>3, <4>2, <4>3 DEF Arriving
    <3>4. Arrived(i, s.ca) => Arrived(i, s.ca)'
      <4> SUFFICES ASSUME Arrived(i, s.ca) PROVE Arrived(i, s.ca)'
        OBVIOUS
      <4>1. \A j \in Issues : chain'.issued[j] = chain.issued[j]  BY <3>2 DEF Arrived
      <4>2. SingleFresh(now)'  BY <1>3, <4>1 DEF Arrived, SingleFresh
      <4> QED  BY <1>3, <4>2 DEF Arrived
    <3> QED  BY <1>3, <2>4, <3>3, <3>4
  <2> QED  BY <1>6, <2>3, <2>4
<1>9. ASSUME NEW i \in Issues
      PROVE  /\ Published(chain', i) \subseteq served'[i]
             /\ \A s \in served'[i] : s.cert.notBefore <= now'
             /\ MountedPublished(i)'
             /\ LoadedPublished(i)'
  <2>1. served[i] \subseteq served'[i] /\ Published(chain', i) \subseteq served'[i]
    BY <1>3
  <2>2. ASSUME NEW s \in served'[i]
        PROVE  s.cert.notBefore <= now'
    <3>1. CASE s \in served[i]  BY <1>3, <1>4, <3>1 DEF Undisturbed
    <3>2. CASE s \in Published(chain', i)
      <4>1. PICK n \in DOMAIN chain'.issued[i].certs : s.cert = chain'.issued[i].certs[n]
        BY <3>2 DEF Published
      <4>2. Consistent(chain', now')  BY DEF TypesInv, Inv
      <4> QED  BY <4>1, <4>2 DEF Consistent
    <3> QED  BY <1>3, <3>1, <3>2
  <2>3. MountedPublished(i)'
    BY <1>3, <1>4, <1>8, <2>1 DEF Undisturbed, MountedPublished
  <2>4. LoadedPublished(i)'
    BY <1>3, <1>4, <1>8, <2>1 DEF Undisturbed, LoadedPublished
  <2> QED  BY <2>1, <2>2, <2>3, <2>4
<1> QED  BY <1>3, <1>9 DEF Undisturbed

\* Who interferes leaves keys of rotations that happened.
LEMMA LossKeys ==
    ASSUME TypesInv, KeysKnown, mounted' = mounted,
           \/ LoseCA
           \/ \E i \in Issues : LoseService(i)
           \/ \E b \in Bundles : LoseBundle(b)
    PROVE  KeysKnown' /\ faults' # 0
<1>1. Interfere  BY DEF LoseCA, LoseService, LoseBundle
<1>2. faults' = faults + 1 /\ serial' = serial  BY <1>1 DEF Interfere
<1>3. faults \in Nat /\ serial \in Nat /\ chain \in CertificateChainData
  BY TimeAssumption DEF TypesInv, Inv, TypeOK
<1>4. chain = [ca |-> chain.ca, issued |-> chain.issued, caCerts |-> chain.caCerts]
      /\ DOMAIN chain.issued = Issues
  BY <1>3, ChainTypes DEF CertificateChainData
<1>5. ASSUME NEW j \in Issues
      PROVE  chain'.issued[j].key \in {NoKey, chain.issued[j].key}
  <2>1. CASE LoseCA
    <3>1. PICK cert \in {NoCert, chain.ca.cert} :
                 chain' = [chain EXCEPT !.ca = [key |-> NoKey, cert |-> cert]]
      BY <2>1 DEF LoseCA
    <3> QED  BY <1>4, <3>1
  <2>2. ASSUME NEW i \in Issues, LoseService(i)
        PROVE  chain'.issued[j].key \in {NoKey, chain.issued[j].key}
    <3>1. PICK key \in {NoKey, chain.issued[i].key}, certs \in {<< >>, chain.issued[i].certs} :
                 chain' = [chain EXCEPT !.issued[i] = [key |-> key, certs |-> certs]]
      BY <2>2 DEF LoseService
    <3>2. chain'.issued = [chain.issued EXCEPT ![i] = [key |-> key, certs |-> certs]]
      BY <1>4, <3>1
    <3> QED  BY <1>4, <3>2
  <2>3. ASSUME NEW b \in Bundles, LoseBundle(b)
        PROVE  chain'.issued[j].key \in {NoKey, chain.issued[j].key}
    <3>1. PICK bundle \in {<< >>, SubSeq(chain.caCerts[b], 1, Len(chain.caCerts[b]) - 1)} :
                 chain' = [chain EXCEPT !.caCerts[b] = bundle]
      BY <2>3 DEF LoseBundle
    <3> QED  BY <1>4, <3>1
  <2> QED  BY <2>1, <2>2, <2>3
<1>6. ASSUME NEW j \in Issues
      PROVE  chain'.issued[j].key <= serial' /\ mounted'[j].key <= serial'
  BY <1>2, <1>3, <1>5 DEF KeysKnown, NoKey
<1> QED  BY <1>2, <1>3, <1>6 DEF KeysKnown

------------------------------------------------------------------------------------
(* The steps of the servers.                                                        *)

USE DEF vars

\* A pod to which nothing happens.
LEMMA OtherPod ==
    ASSUME NEW j \in Issues, MountedPublished(j), LoadedPublished(j), UNCHANGED vars,
           server'[j] = "serving" => server[j] = "serving",
           mounted'[j] = mounted[j], lag'[j] = lag[j], loaded'[j] = loaded[j],
           event[j] => event'[j], missed'[j] = missed[j]
    PROVE  MountedPublished(j)' /\ LoadedPublished(j)'
<1>1. now' = now /\ chain' = chain /\ served' = served  OBVIOUS
<1>2. Outdated(j)' <=> Outdated(j)  BY <1>1 DEF Outdated
<1>3. ASSUME NEW ca, Arriving(j, ca) PROVE Arriving(j, ca)'
  BY <1>1, <1>2, <1>3 DEF Arriving, SingleFresh
<1>4. ASSUME NEW ca, Arrived(j, ca) PROVE Arrived(j, ca)'
  BY <1>1, <1>4 DEF Arrived, SingleFresh
<1>5. MountedPublished(j)'  BY <1>1, <1>3 DEF MountedPublished
<1>6. LoadedPublished(j)'  BY <1>1, <1>3, <1>4 DEF LoadedPublished
<1> QED  BY <1>5, <1>6

\* It is enough to look at the pod in which something happens.
LEMMA OnePod ==
    ASSUME TypesInv, Undisturbed, UNCHANGED vars, NEW i \in Issues,
           MountedPublished(i)' /\ LoadedPublished(i)',
           \A j \in Issues \ {i} : /\ server'[j] = server[j] /\ mounted'[j] = mounted[j]
                                   /\ lag'[j] = lag[j] /\ loaded'[j] = loaded[j]
                                   /\ event'[j] = event[j] /\ missed'[j] = missed[j]
    PROVE  Undisturbed'
<1>1. /\ now' = now /\ chain' = chain /\ served' = served /\ intact' = intact
  OBVIOUS
<1>2. ASSUME NEW j \in Issues PROVE MountedPublished(j)' /\ LoadedPublished(j)'
  <2>1. CASE j = i  BY <2>1
  <2>2. CASE j # i
    <3>1. MountedPublished(j) /\ LoadedPublished(j)  BY DEF Undisturbed
    <3>2. /\ server'[j] = server[j] /\ mounted'[j] = mounted[j]
          /\ lag'[j] = lag[j] /\ loaded'[j] = loaded[j] /\ event'[j] = event[j]
          /\ missed'[j] = missed[j]
      BY <2>2
    <3>3. (server'[j] = "serving" => server[j] = "serving") /\ (event[j] => event'[j])
      BY <3>2
    <3> QED  BY <3>1, <3>2, <3>3, OtherPod
  <2> QED  BY <2>1, <2>2
<1>3. ASSUME NEW j \in Issues
      PROVE  Published(chain', j) \subseteq served'[j] /\ \A s \in served'[j] : s.cert.notBefore <= now'
  BY <1>1 DEF Undisturbed
<1>4. intact' \/ \A j \in Issues : served'[j] = {}  BY <1>1 DEF Undisturbed
<1> QED  BY <1>2, <1>3, <1>4 DEF Undisturbed

\* A projection of the secret as it is now is one that was published.
LEMMA ProjectionPublished ==
    ASSUME TypesInv, Undisturbed, UNCHANGED vars, NEW i \in Issues, mounted'[i] = chain.issued[i]
    PROVE  MountedPublished(i)'
<1> SUFFICES ASSUME chain.issued[i].certs # << >>
             PROVE  \E s \in served[i] : s.cert = chain.issued[i].certs[1] /\ s.ca = chain.ca.cert
  BY DEF MountedPublished
<1>1. 1 \in DOMAIN chain.issued[i].certs  BY Types, IssueTypes
<1>2. [cert |-> chain.issued[i].certs[1], ca |-> chain.ca.cert] \in Published(chain, i)
  BY <1>1 DEF Published
<1>3. [cert |-> chain.issued[i].certs[1], ca |-> chain.ca.cert] \in served[i]
  BY <1>2 DEF Undisturbed
<1> QED  BY <1>3

\* A replaced CA has not expired when its replacement arrives.
LEMMA ArrivingUnexpired ==
    ASSUME TypesInv, MountsInTime, NEW i \in Issues, NEW s \in served[i], Arriving(i, s.ca)
    PROVE  now < s.ca.notAfter
<1>1. now \in Nat /\ lag[i] \in Nat /\ lag[i] <= MountLag /\ s.ca.notAfter \in Nat  BY Types
<1>2. now - lag[i] + CAOverlapInterval <= s.ca.notAfter + MaxLateness  BY DEF Arriving
<1> QED  BY <1>1, <1>2, OptionsAssumption, TimeAssumption, MountAssumption DEF MountsInTime

LEMMA MountServers ==
    ASSUME TypesInv, MountsInTime, Undisturbed, NEW i \in Issues, Mount(i)
    PROVE  Undisturbed'
<1>1. /\ UNCHANGED vars /\ server' = server /\ loaded' = loaded
      /\ mounted' = [mounted EXCEPT ![i] = chain.issued[i]]
      /\ lag' = [lag EXCEPT ![i] = 0]
      /\ event' = [event EXCEPT ![i] = watching[i]]
      /\ missed' = [missed EXCEPT ![i] = IF Misses(i) THEN missed[i] + 1 ELSE missed[i]]
  BY DEF Mount
<1>2. ServerTypes  BY DEF TypesInv, ServersTypeOK, ServerTypes
<1>3. mounted'[i] = chain.issued[i]  BY <1>1, <1>2 DEF ServerTypes
<1>4. /\ watching[i] => event'[i]
      /\ missed[i] \in Nat /\ missed'[i] = IF Misses(i) THEN missed[i] + 1 ELSE missed[i]
  <2>1. event \in [Issues -> BOOLEAN] /\ missed \in [Issues -> Nat]  BY <1>2 DEF ServerTypes
  <2>2. watching[i] => event'[i]  BY <1>1, <2>1, Zenon
  <2>3. missed[i] \in Nat /\ missed'[i] = IF Misses(i) THEN missed[i] + 1 ELSE missed[i]
    BY <1>1, <2>1
  <2> QED  BY <2>2, <2>3
<1>5. MountedPublished(i)'  BY <1>1, <1>3, ProjectionPublished
<1>6. LoadedPublished(i)'
  <2> SUFFICES ASSUME server[i] = "serving"
               PROVE  \E s \in served[i] : /\ s.cert = loaded[i].certs[1]
                                           /\ \/ s.ca = chain.ca.cert
                                              \/ Arrived(i, s.ca)'
                                              \/ missed'[i] > 0
    BY <1>1 DEF LoadedPublished
  <2>1. PICK s \in served[i] : /\ s.cert = loaded[i].certs[1]
                               /\ \/ s.ca = chain.ca.cert
                                  \/ Arriving(i, s.ca)
                                  \/ Arrived(i, s.ca)
                                  \/ missed[i] > 0
    BY DEF Undisturbed, LoadedPublished
  <2>2. ASSUME SingleFresh(now), now < s.ca.notAfter PROVE Arrived(i, s.ca)' \/ missed'[i] > 0
    <3>1. SingleFresh(now)' /\ now' = now  BY <1>1, <2>2 DEF SingleFresh
    <3>2. LoadX509KeyPair(chain.issued[i])  BY <2>2 DEF SingleFresh
    <3>3. CASE watching[i]  BY <1>3, <1>4, <2>2, <3>1, <3>2, <3>3 DEF Arrived
    <3>4. CASE ~ watching[i]  BY <1>4, <3>2, <3>4 DEF Misses
    <3> QED  BY <3>3, <3>4
  <2>3. CASE s.ca = chain.ca.cert  BY <2>1, <2>3
  <2>4. CASE Arriving(i, s.ca)
    <3>1. SingleFresh(now)  BY <2>4, FreshNow DEF Arriving
    <3>2. now < s.ca.notAfter  BY <2>4, ArrivingUnexpired
    <3> QED  BY <2>1, <2>2, <3>1, <3>2
  <2>5. CASE Arrived(i, s.ca)
    <3>1. SingleFresh(now) /\ now < s.ca.notAfter  BY <2>5 DEF Arrived
    <3> QED  BY <2>1, <2>2, <3>1
  <2>6. CASE missed[i] > 0  BY <1>4, <2>1, <2>6
  <2> QED  BY <2>1, <2>3, <2>4, <2>5, <2>6
<1>7. ASSUME NEW j \in Issues \ {i}
      PROVE  /\ server'[j] = server[j] /\ mounted'[j] = mounted[j]
             /\ lag'[j] = lag[j] /\ loaded'[j] = loaded[j] /\ event'[j] = event[j]
             /\ missed'[j] = missed[j]
  BY <1>1, <1>2 DEF ServerTypes
<1> QED  BY <1>1, <1>5, <1>6, <1>7, OnePod

LEMMA StartServers ==
    ASSUME TypesInv, Undisturbed, NEW i \in Issues, Start(i)
    PROVE  Undisturbed'
<1>1. UNCHANGED vars /\ mounted' = mounted /\ lag' = lag /\ event' = event /\ missed' = missed
  BY DEF Start
<1>2. ServerTypes  BY DEF TypesInv, ServersTypeOK, ServerTypes
<1>3. MountedPublished(i) /\ LoadedPublished(i)  BY DEF Undisturbed
<1>4. /\ MountedPublished(i)'
      /\ \A ca : Arriving(i, ca) => Arriving(i, ca)'
  <2>1. \A ca : Arriving(i, ca) => Arriving(i, ca)'
    BY <1>1 DEF Arriving, SingleFresh, Outdated
  <2> QED  BY <1>1, <1>3, <2>1 DEF MountedPublished
<1>5. LoadedPublished(i)'
  <2>1. CASE LoadX509KeyPair(mounted[i])
    <3>1. loaded' = [loaded EXCEPT ![i] = mounted[i]]  BY <2>1 DEF Start
    <3>2. loaded'[i] = mounted[i]  BY <1>2, <3>1 DEF ServerTypes
    <3>3. mounted[i].certs # << >>  BY <2>1 DEF LoadX509KeyPair
    <3>4. PICK s \in served[i] : /\ s.cert = mounted[i].certs[1]
                                 /\ s.ca = chain.ca.cert \/ Arriving(i, s.ca)
      BY <1>3, <3>3 DEF MountedPublished
    <3> QED  BY <1>1, <1>4, <3>2, <3>4 DEF LoadedPublished
  <2>2. CASE ~ LoadX509KeyPair(mounted[i])
    <3>1. server' = [server EXCEPT ![i] = "ended"]  BY <2>2 DEF Start
    <3>2. server'[i] # "serving"  BY <1>2, <3>1 DEF ServerTypes
    <3> QED  BY <3>2 DEF LoadedPublished
  <2> QED  BY <2>1, <2>2
<1>6. ASSUME NEW j \in Issues \ {i} PROVE server'[j] = server[j] /\ loaded'[j] = loaded[j]
  BY <1>2 DEF Start, ServerTypes
<1> QED  BY <1>1, <1>4, <1>5, <1>6, OnePod

LEMMA ReadServers ==
    ASSUME TypesInv, Undisturbed, NEW i \in Issues, ReadCertificate(i)
    PROVE  Undisturbed'
<1>1. /\ UNCHANGED vars /\ mounted' = mounted /\ lag' = lag /\ server' = server /\ missed' = missed
      /\ event' = [event EXCEPT ![i] = FALSE]
      /\ loaded' = [loaded EXCEPT ![i] = IF LoadX509KeyPair(mounted[i]) THEN mounted[i] ELSE loaded[i]]
  BY DEF ReadCertificate
<1>2. ServerTypes  BY DEF TypesInv, ServersTypeOK, ServerTypes
<1>3. MountedPublished(i) /\ LoadedPublished(i)  BY DEF Undisturbed
<1>4. \A ca : Arriving(i, ca) => Arriving(i, ca)'
  BY <1>1 DEF Arriving, SingleFresh, Outdated
<1>5. MountedPublished(i)'  BY <1>1, <1>3, <1>4 DEF MountedPublished
<1>6. LoadedPublished(i)'
  <2>1. CASE LoadX509KeyPair(mounted[i])
    <3>1. loaded'[i] = mounted[i]  BY <1>1, <1>2, <2>1 DEF ServerTypes
    <3>2. mounted[i].certs # << >>  BY <2>1 DEF LoadX509KeyPair
    <3>3. PICK s \in served[i] : /\ s.cert = mounted[i].certs[1]
                                 /\ s.ca = chain.ca.cert \/ Arriving(i, s.ca)
      BY <1>3, <3>2 DEF MountedPublished
    <3> QED  BY <1>1, <1>4, <3>1, <3>3 DEF LoadedPublished
  <2>2. CASE ~ LoadX509KeyPair(mounted[i])
    <3>1. loaded'[i] = loaded[i]  BY <1>1, <1>2, <2>2 DEF ServerTypes
    <3>2. \A ca : ~ Arrived(i, ca)  BY <2>2 DEF Arrived
    <3> QED  BY <1>1, <1>3, <1>4, <3>1, <3>2 DEF LoadedPublished
  <2> QED  BY <2>1, <2>2
<1>7. ASSUME NEW j \in Issues \ {i} PROVE event'[j] = event[j] /\ loaded'[j] = loaded[j]
  BY <1>1, <1>2 DEF ServerTypes
<1> QED  BY <1>1, <1>5, <1>6, <1>7, OnePod

LEMMA RestartServers ==
    ASSUME TypesInv, Undisturbed, NEW i \in Issues, Restart(i)
    PROVE  Undisturbed'
<1>1. /\ UNCHANGED vars /\ missed' = missed
      /\ server' = [server EXCEPT ![i] = "waiting"]
      /\ event' = [event EXCEPT ![i] = FALSE]
      /\ loaded' = [loaded EXCEPT ![i] = NoPair]
      /\ lag' = [lag EXCEPT ![i] = IF mounted'[i] = mounted[i] THEN lag[i] ELSE 0]
  BY DEF Restart
<1>2. PICK files \in {mounted[i], chain.issued[i]} : mounted' = [mounted EXCEPT ![i] = files]
  BY DEF Restart
<1>3. ServerTypes  BY DEF TypesInv, ServersTypeOK, ServerTypes
<1>4. mounted'[i] = files /\ server'[i] # "serving"  BY <1>1, <1>2, <1>3 DEF ServerTypes
<1>5. MountedPublished(i)'
  <2>1. CASE mounted'[i] = mounted[i]
    <3>1. lag'[i] = lag[i]  BY <1>1, <1>3, <2>1 DEF ServerTypes
    <3>2. \A ca : Arriving(i, ca) => Arriving(i, ca)'
      BY <1>1, <2>1, <3>1 DEF Arriving, SingleFresh, Outdated
    <3>3. MountedPublished(i)  BY DEF Undisturbed
    <3> QED  BY <1>1, <2>1, <3>2, <3>3 DEF MountedPublished
  <2>2. CASE mounted'[i] = chain.issued[i]  BY <1>1, <2>2, ProjectionPublished
  <2> QED  BY <1>2, <1>4, <2>1, <2>2
<1>6. LoadedPublished(i)'  BY <1>4 DEF LoadedPublished
<1>7. ASSUME NEW j \in Issues \ {i}
      PROVE  /\ server'[j] = server[j] /\ mounted'[j] = mounted[j]
             /\ lag'[j] = lag[j] /\ loaded'[j] = loaded[j] /\ event'[j] = event[j]
             /\ missed'[j] = missed[j]
  BY <1>1, <1>2, <1>3 DEF ServerTypes
<1> QED  BY <1>1, <1>5, <1>6, <1>7, OnePod

\* While time passes, what is on its way gets nearer; nothing has arrived unread.
LEMMA TimePassesServers ==
    ASSUME TypesInv, Undisturbed, TimePasses
    PROVE  Undisturbed'
<1>1. /\ mounted' = mounted /\ event' = event /\ loaded' = loaded /\ missed' = missed
      /\ lag' = [i \in Issues |-> IF Outdated(i) THEN lag[i] + 1 ELSE 0]
      /\ server' = [i \in Issues |-> IF server[i] = "ended" THEN "waiting" ELSE server[i]]
      /\ \A i \in Issues : ~ event[i]
      /\ Tick
  BY DEF TimePasses
<1>2. now' = now + 1 /\ chain' = chain /\ served' = served /\ intact' = intact
  BY <1>1 DEF Tick
<1>3. ASSUME NEW i \in Issues
      PROVE  /\ Published(chain', i) \subseteq served'[i]
             /\ \A s \in served'[i] : s.cert.notBefore <= now'
             /\ MountedPublished(i)'
             /\ LoadedPublished(i)'
  <2>1. now \in Nat /\ lag[i] \in Nat  BY Types
  <2>2. Published(chain', i) \subseteq served'[i]  BY <1>2 DEF Undisturbed
  <2>3. ASSUME NEW s \in served'[i] PROVE s.cert.notBefore <= now'
    <3>1. s \in served[i] /\ s.cert.notBefore \in Nat  BY <1>2, Types
    <3>2. s.cert.notBefore <= now  BY <3>1 DEF Undisturbed
    <3> QED  BY <1>2, <2>1, <3>1, <3>2
  <2>4. ASSUME NEW ca, Arriving(i, ca) PROVE Arriving(i, ca)'
    <3>1. Outdated(i) /\ Outdated(i)'  BY <1>1, <1>2, <2>4 DEF Arriving, Outdated
    <3>2. lag'[i] = lag[i] + 1  BY <1>1, <3>1
    <3>3. now' - lag'[i] = now - lag[i]  BY <1>2, <2>1, <3>2
    <3>4. SingleFresh(now - lag[i] + MountLag)'
      BY <1>2, <2>4, <3>3 DEF Arriving, SingleFresh
    <3> QED  BY <2>4, <3>1, <3>3, <3>4 DEF Arriving
  <2>5. MountedPublished(i)'
    BY <1>1, <1>2, <2>4 DEF Undisturbed, MountedPublished
  <2>6. LoadedPublished(i)'
    <3>1. server'[i] = "serving" => server[i] = "serving"  BY <1>1
    <3>2. \A ca : ~ Arrived(i, ca)  BY <1>1 DEF Arrived
    <3>3. LoadedPublished(i)  BY DEF Undisturbed
    <3> QED  BY <1>1, <1>2, <2>4, <3>1, <3>2, <3>3 DEF LoadedPublished
  <2> QED  BY <2>2, <2>3, <2>5, <2>6
<1> QED  BY <1>2, <1>3 DEF Undisturbed

LEMMA WaitServers ==
    ASSUME TypesInv, Undisturbed, NEW i \in Issues, waitForTLSReadiness(i)
    PROVE  Undisturbed'
<1>1. /\ UNCHANGED vars /\ mounted' = mounted /\ lag' = lag /\ event' = event /\ loaded' = loaded
      /\ missed' = missed
      /\ server' = [server EXCEPT ![i] = "starting"]
  BY DEF waitForTLSReadiness
<1>2. ServerTypes  BY DEF TypesInv, ServersTypeOK, ServerTypes
<1>3. server'[i] = "starting" /\ \A j \in Issues \ {i} : server'[j] = server[j]
  BY <1>1, <1>2 DEF ServerTypes
<1>4. MountedPublished(i) /\ LoadedPublished(i)  BY DEF Undisturbed
<1>5. MountedPublished(i)' /\ LoadedPublished(i)'  BY <1>1, <1>3, <1>4, OtherPod
<1> QED  BY <1>1, <1>3, <1>5, OnePod

LEMMA WatchServers ==
    ASSUME TypesInv, Undisturbed, NEW i \in Issues, Watch(i)
    PROVE  Undisturbed'
<1>1. /\ UNCHANGED vars /\ server' = server /\ mounted' = mounted /\ lag' = lag /\ event' = event
      /\ loaded' = loaded /\ missed' = missed
  BY DEF Watch
<1>2. MountedPublished(i) /\ LoadedPublished(i)  BY DEF Undisturbed
<1>3. MountedPublished(i)' /\ LoadedPublished(i)'  BY <1>1, <1>2, OtherPod
<1> QED  BY <1>1, <1>3, OnePod

\* No step of a server changes the keys it knows of but to those of the secret.
LEMMA PodKeys ==
    ASSUME TypesInv, KeysKnown, NEW i \in Issues,
           \/ waitForTLSReadiness(i) \/ Start(i) \/ Watch(i)
           \/ ReadCertificate(i) \/ Mount(i) \/ Restart(i)
    PROVE  KeysKnown' /\ faults' = faults
<1>1. chain' = chain /\ serial' = serial /\ faults' = faults
  BY DEF waitForTLSReadiness, Start, Watch, ReadCertificate, Mount, Restart
<1>2. mounted' = mounted \/ mounted' = [mounted EXCEPT ![i] = chain.issued[i]]
  <2>1. mounted \in [Issues -> CertificateIssue]  BY DEF TypesInv, ServersTypeOK
  <2>2. CASE Restart(i)
    <3>1. PICK files \in {mounted[i], chain.issued[i]} : mounted' = [mounted EXCEPT ![i] = files]
      BY <2>2 DEF Restart
    <3> QED  BY <2>1, <3>1
  <2>3. CASE Mount(i)  BY <2>3 DEF Mount
  <2>4. CASE waitForTLSReadiness(i) \/ Start(i) \/ Watch(i) \/ ReadCertificate(i)
    BY <2>4 DEF waitForTLSReadiness, Start, Watch, ReadCertificate
  <2> QED  BY <2>2, <2>3, <2>4
<1>3. \A j \in Issues : mounted'[j] \in {mounted[j], chain.issued[j]}
  BY <1>2 DEF TypesInv, ServersTypeOK
<1> QED  BY <1>1, <1>3 DEF KeysKnown

LEMMA ServersStep ==
    ASSUME Issues # {}, MountsInTime, ServersInv, [ServersNext]_serverVars
    PROVE  ServersInv'
<1>1. TypesInv /\ KeysKnown /\ (faults = 0 => Undisturbed)  BY DEF ServersInv
<1>2. TypesInv'  BY <1>1, TypesStep
<1>3. KeysKnown' /\ (faults' = 0 => Undisturbed')
  <2>1. CASE UNCHANGED serverVars
    <3>1. UNCHANGED vars /\ UNCHANGED podVars  BY <2>1 DEF serverVars
    <3>2. KeysKnown'  BY <1>1, <3>1 DEF KeysKnown, podVars
    <3>3. ASSUME Undisturbed PROVE Undisturbed'
      <4>1. PICK i \in Issues : TRUE  OBVIOUS
      <4>2. MountedPublished(i) /\ LoadedPublished(i)  BY <3>3 DEF Undisturbed
      <4>3. MountedPublished(i)' /\ LoadedPublished(i)'
        BY <3>1, <4>2, OtherPod DEF podVars
      <4> QED  BY <1>1, <3>1, <3>3, <4>3, OnePod DEF podVars
    <3> QED  BY <1>1, <3>1, <3>2, <3>3
  <2>2. CASE ChainStep
    <3>1. UNCHANGED podVars  BY <2>2 DEF ChainStep
    <3>2. mounted' = mounted  BY <3>1 DEF podVars
    <3>3. CASE Reconcile
      <4>1. KeysKnown'  BY <1>1, <3>2, <3>3, ReconcileKeys
      <4>2. faults' = 0 => Undisturbed'  BY <1>2, <3>1, <3>3, ReconcileServers
      <4> QED  BY <4>1, <4>2
    <3>4. CASE LoseCA \/ (\E i \in Issues : LoseService(i)) \/ (\E b \in Bundles : LoseBundle(b))
      BY <1>1, <3>2, <3>4, LossKeys
    <3> QED  BY <2>2, <3>3, <3>4 DEF ChainStep
  <2>3. CASE TimePasses
    <3>1. Tick /\ mounted' = mounted  BY <2>3 DEF TimePasses
    <3>2. chain' = chain /\ serial' = serial /\ faults' = faults  BY <3>1 DEF Tick
    <3>3. KeysKnown'  BY <1>1, <3>1, <3>2 DEF KeysKnown
    <3> QED  BY <1>1, <2>3, <3>2, <3>3, TimePassesServers
  <2>4. ASSUME NEW i \in Issues,
               \/ waitForTLSReadiness(i) \/ Start(i) \/ Watch(i)
           \/ ReadCertificate(i) \/ Mount(i) \/ Restart(i)
        PROVE  KeysKnown' /\ (faults' = 0 => Undisturbed')
    <3>1. KeysKnown' /\ faults' = faults  BY <1>1, <2>4, PodKeys
    <3>2. ASSUME Undisturbed PROVE Undisturbed'
      BY <1>1, <2>4, <3>2, WaitServers, StartServers, WatchServers, ReadServers,
         MountServers, RestartServers
    <3> QED  BY <1>1, <3>1, <3>2
  <2> QED  BY <2>1, <2>2, <2>3, <2>4 DEF ServersNext
<1> QED  BY <1>2, <1>3 DEF ServersInv

LEMMA ServersStart == ServersInit => ServersInv
<1> SUFFICES ASSUME ServersInit PROVE ServersInv
  OBVIOUS
<1>1. TypesInv  BY TypesInit
<1>2. /\ chain = EmptyChain /\ serial = 0 /\ served = [i \in Issues |-> {}]
      /\ mounted = [i \in Issues |-> NoPair] /\ server = [i \in Issues |-> "waiting"]
  BY DEF ServersInit, Init
<1>3. \A i \in Issues : chain.issued[i] = NoPair  BY <1>2 DEF EmptyChain, NoPair
<1>4. KeysKnown
  <2>1. NoPair.key = 0  BY DEF NoPair, NoKey
  <2>2. \A i \in Issues : mounted[i] = NoPair  BY <1>2
  <2>3. \A i \in Issues : chain.issued[i].key = 0 /\ mounted[i].key = 0  BY <1>3, <2>1, <2>2
  <2>4. serial = 0 /\ 0 <= 0  BY <1>2
  <2> QED  BY <2>3, <2>4 DEF KeysKnown
<1>5. ASSUME NEW i \in Issues
      PROVE  /\ served[i] = {} /\ Published(chain, i) = {}
             /\ MountedPublished(i) /\ LoadedPublished(i)
  <2>1. served[i] = {} /\ mounted[i].certs = << >> /\ server[i] = "waiting"
    BY <1>2 DEF NoPair
  <2>2. DOMAIN chain.issued[i].certs = {}  BY <1>3 DEF NoPair
  <2> QED  BY <2>1, <2>2 DEF Published, MountedPublished, LoadedPublished
<1>6. Undisturbed  BY <1>5 DEF Undisturbed
<1> QED  BY <1>1, <1>4, <1>6 DEF ServersInv

\* Clients trust what a server serves, from whichever old projection of its secret, until it
\* expires, unless somebody interferes: when mounts follow in time, no CA is cleaned up
\* while a server still needs it, and no rotation leaves a server without a pair to load. A
\* server that lost a key pair, which came before it watched its files, is trusted only until
\* the CA of its old one expires.
THEOREM OldProjections ==
    ASSUME Issues # {}, MountsInTime
    PROVE  ServersSpec => []OldProjectionsTrusted
<1>1. ServersInv => OldProjectionsTrusted
  <2> SUFFICES ASSUME ServersInv, faults = 0, NEW i \in Issues, Refused(i)
               PROVE  \/ now > loaded[i].certs[1].notAfter
                      \/ /\ missed[i] > 0
                         /\ \E s \in served[i] : s.cert = loaded[i].certs[1] /\ now >= s.ca.notAfter
    BY DEF OldProjectionsTrusted
  <2>1. TypesInv /\ Undisturbed  BY DEF ServersInv
  <2>2. PICK b \in Bundles :
               /\ IssueOf[b] = i
               /\ ~ VerifyCertificate(loaded[i].certs[1], chain.caCerts[b], now)
    BY DEF Refused
  <2>3. PICK s \in served[i] : /\ s.cert = loaded[i].certs[1]
                               /\ \/ s.ca = chain.ca.cert
                                  \/ Arriving(i, s.ca)
                                  \/ Arrived(i, s.ca)
                                  \/ missed[i] > 0
    BY <2>1 DEF Refused, Undisturbed, LoadedPublished
  <2>4. /\ now \in Nat /\ s.cert.notBefore \in Nat /\ s.cert.notAfter \in Nat
        /\ s.ca.notBefore \in Nat /\ s.ca.notAfter \in Nat
    BY <2>1, Types
  <2> SUFFICES ASSUME ~ (missed[i] > 0 /\ now >= s.ca.notAfter)
               PROVE  now > loaded[i].certs[1].notAfter
    BY <2>3
  <2>5. now < s.ca.notAfter
    <3>1. CASE s.ca = chain.ca.cert
      <4>1. now + CAOverlapInterval <= s.ca.notAfter + MaxLateness
        BY <2>1, <3>1, CurrentCA
      <4> QED  BY <2>4, <4>1, OptionsAssumption, TimeAssumption, MountAssumption DEF MountsInTime
    <3>2. CASE Arriving(i, s.ca)  BY <2>1, <3>2, ArrivingUnexpired
    <3>3. CASE Arrived(i, s.ca)  BY <3>3 DEF Arrived
    <3>4. CASE missed[i] > 0  BY <2>4, <3>4
    <3> QED  BY <2>3, <3>1, <3>2, <3>3, <3>4
  <2>6. /\ s.cert.signer = s.ca.key /\ s.ca.notBefore <= now
        /\ \E n \in DOMAIN chain.caCerts[b] : chain.caCerts[b][n] = s.ca
    BY <2>1, <2>2, <2>5 DEF TypesInv, Inv, ServedTrusted
  <2>7. ValidAt(s.ca, now)  BY <2>4, <2>5, <2>6 DEF ValidAt
  <2>8. ~ ValidAt(s.cert, now)  BY <2>2, <2>3, <2>6, <2>7 DEF VerifyCertificate
  <2>9. s.cert.notBefore <= now  BY <2>1 DEF Undisturbed
  <2> QED  BY <2>3, <2>4, <2>8, <2>9 DEF ValidAt
<1>2. ServersInv /\ [ServersNext]_serverVars => ServersInv'  BY ServersStep
<1> QED  BY <1>1, <1>2, ServersStart, PTL DEF ServersSpec
------------------------------------------------------------------------------------
(* Outages are brief, however often somebody interferes. A pod is in one of three   *)
(* phases while the chain is intact: a key pair that can be loaded is on its way, it*)
(* has the only certificate of its service, or it is in an overlap. Each phase says *)
(* until when the pod may still be refused or down. A server that has lost a key    *)
(* pair serves an older one until the next arrives: the life of a certificate later.*)

\* The certificate that a server serves which has loaded the secret of issue i.
First(i) == chain.issued[i].certs[1]

RefusedBound(i) ==
    (1 + faults + missed[i]) * (MaxLateness + MountLag) + missed[i] * CertRotateInterval

DownBound == CertOverlapInterval + (1 + faults) * (MaxLateness + MountLag + 1)

\* Server i may still be refused, or be down, until time t.
RefusedUntil(i, t) == refused[i] + (t - now) <= RefusedBound(i)
DownUntil(i, t) == down[i] + (t - now) <= DownBound

\* When the next reconcile has reached all pods, and when the secret reaches the pod of i.
RepairBy == wakeAt + MaxLateness + MountLag
ArrivalBy(i) == now - lag[i] + MountLag

\* The services of d have equally many certificates, one or in an overlap two, which
\* expire at the same times; there is time for a mount after an overlap.
Alike(d, t) ==
    \A i \in Issues :
        /\ Len(d.issued[i].certs) \in {1, 2}
        /\ Len(d.issued[i].certs) = 2 =>
             /\ d.issued[i].certs[1].notAfter + MountLag + 1 + CertOverlapInterval
                  < d.issued[i].certs[2].notAfter
             /\ d.issued[i].certs[1].notAfter - CertOverlapInterval <= t
             /\ d.issued[i].certs[2].notAfter <= t + CertRotateInterval
        /\ \A j \in Issues :
             /\ Len(d.issued[i].certs) = Len(d.issued[j].certs)
             /\ \A n \in DOMAIN d.issued[i].certs :
                  d.issued[i].certs[n].notAfter = d.issued[j].certs[n].notAfter

ListsInv == intact => Alike(chain, now)

\* Every interference breaks the chain, so that a reconcile, which is due, replaces the CA.
BrokenInv == ~ intact => wakeAt <= now /\ ~ Established(chain)

\* All bundles of issue i have a CA that verifies the certificate now and is not expired.
StrictlyTrusted(d, t, i, cert) ==
    /\ ValidAt(cert, t)
    /\ \A b \in Bundles : IssueOf[b] = i =>
         \E n \in DOMAIN d.caCerts[b] : /\ d.caCerts[b][n].key = cert.signer
                                        /\ d.caCerts[b][n].notBefore <= t
                                        /\ t < d.caCerts[b][n].notAfter

\* Whatever server i serves before its files change is trusted.
ServesTrusted(i) ==
    /\ LoadX509KeyPair(mounted[i]) => StrictlyTrusted(chain, now, i, mounted[i].certs[1])
    /\ server[i] = "serving" /\ ~ (event[i] /\ LoadX509KeyPair(mounted[i]))
         => StrictlyTrusted(chain, now, i, loaded[i].certs[1])

\* Server i, which may have lost a key pair, is refused at most until the next arrives.
Delayed(i) == RefusedUntil(i, First(i).notAfter + MaxLateness + MountLag)

\* A key pair that can be loaded is on its way to the pod.
Awaited(i) ==
    /\ Outdated(i)
    /\ SingleFresh(ArrivalBy(i) + 1)
    /\ First(i).notAfter <= now + CertRotateInterval
    /\ ServesTrusted(i) \/ RefusedUntil(i, ArrivalBy(i))
    /\ \/ DownUntil(i, ArrivalBy(i) + 1)
       \/ /\ LoadX509KeyPair(mounted[i])
          /\ DownUntil(i, IF server[i] = "ended" THEN now + 1 ELSE now)

\* The pod has the only certificate of the service.
SingleServed(i) ==
    /\ Len(chain.issued[i].certs) = 1
    /\ mounted[i] = chain.issued[i]
    /\ LoadX509KeyPair(mounted[i])
    /\ event[i] => SingleFresh(now)
    /\ server[i] = "serving" /\ ~ event[i] => loaded[i].certs[1] = First(i) \/ Delayed(i)
    /\ server[i] = "ended" => SingleFresh(now + 1) /\ DownUntil(i, now + 1)
    /\ IF now > First(i).notAfter
         THEN RefusedUntil(i, RepairBy) /\ DownUntil(i, RepairBy + 1)
         ELSE down[i] > 0 => SingleFresh(now)

\* In an overlap, the files of the pod cannot be loaded or begin with the old certificate.
PairServed(i) ==
    /\ Len(chain.issued[i].certs) = 2
    /\ LoadX509KeyPair(mounted[i]) => mounted[i].certs[1] = First(i)
    /\ server[i] = "serving" => loaded[i].certs[1] = First(i) \/ Delayed(i)
    /\ now > First(i).notAfter => RefusedUntil(i, RepairBy)
    /\ DownUntil(i, First(i).notAfter + MaxLateness + MountLag + 1)

Phase(i) ==
    /\ refused[i] <= RefusedBound(i)
    /\ down[i] <= DownBound
    /\ IF intact THEN Awaited(i) \/ SingleServed(i) \/ PairServed(i)
                 ELSE RefusedUntil(i, RepairBy) /\ DownUntil(i, RepairBy + 1)

\* The mounts follow a rotation before the next, and a reconcile is not later than the
\* overlap of the CA.
RotationsApart ==
    /\ MaxLateness < CAOverlapInterval
    /\ MountLag + 1 + Second <= CertRotateInterval - 2 * CertOverlapInterval

------------------------------------------------------------------------------------
(* What Update does to lists that are alike.                                        *)

\* The clean-up of lists of one or two certificates.
LEMMA CleanUpPairs ==
    ASSUME NEW d \in CertificateChainData, NEW t \in Nat, NEW i \in Issues,
           Len(d.issued[i].certs) \in {1, 2},
           Len(d.issued[i].certs) = 2 => d.issued[i].certs[2].notAfter > t
    PROVE  cleanUpIssued(d, t).issued[i]
             = IF Len(d.issued[i].certs) = 2 /\ d.issued[i].certs[1].notAfter <= t
                 THEN [key |-> d.issued[i].key, certs |-> <<d.issued[i].certs[2]>>]
                 ELSE d.issued[i]
<1> DEFINE l == d.issued[i].certs
<1>1. /\ DOMAIN d.issued = Issues /\ l \in Seq(Certificate)
      /\ d.issued[i] = [key |-> d.issued[i].key, certs |-> l]
      /\ d = [ca |-> d.ca, issued |-> d.issued, caCerts |-> d.caCerts]
  BY ChainTypes
<1>2. 1 \in DOMAIN l /\ l[1].notAfter \in Nat
  <2>1. 1 \in DOMAIN l  BY <1>1
  <2> QED  BY <1>1, <2>1, ListTypes
<1>3. CASE t >= findCleanUpDeadlineForCerts(d)
  <2>1. cleanUpIssued(d, t).issued[i] = [key |-> d.issued[i].key, certs |-> cleanUpCertificateList(l, t)]
    BY <1>1, <1>3 DEF cleanUpIssued, cleanUpCerts
  <2>2. CASE Len(l) = 1
    <3>1. cleanUpCertificateList(l, t) = l  BY <2>2 DEF cleanUpCertificateList
    <3> QED  BY <1>1, <2>1, <2>2, <3>1
  <2>3. CASE Len(l) = 2
    <3>1. cleanUpCertificateList(l, t) = IF l[1].notAfter > t THEN l ELSE <<l[2]>>
      BY <1>1, <2>3, CleanUpPair
    <3> HIDE DEF l
    <3> QED  BY <1>1, <1>2, <2>1, <2>3, <3>1 DEF l
  <2> QED  BY <2>2, <2>3
<1>4. CASE ~ (t >= findCleanUpDeadlineForCerts(d))
  <2>1. cleanUpIssued(d, t) = d  BY <1>4 DEF cleanUpIssued
  <2>2. CertLists(d) \in SUBSET Seq(Certificate) /\ l \in CertLists(d)
    BY <1>1, ChainTypes DEF CertLists
  <2>3. findCleanUpDeadlineForCerts(d) \in Nat /\ findCleanUpDeadlineForCerts(d) <= l[1].notAfter
    BY <1>2, <2>2, CleanUpDeadlineOf DEF findCleanUpDeadlineForCerts
  <2>4. l[1].notAfter > t  BY <1>2, <1>4, <2>3
  <2> QED  BY <1>2, <2>1, <2>4
<1> QED  BY <1>3, <1>4

\* A new key pair joins a single certificate.
LEMMA OverlapKeyPairs ==
    ASSUME NEW d \in CertificateChainData, NEW k \in Nat \ {0}, NEW t \in Nat, NEW i \in Issues,
           Len(d.issued[i].certs) = 1
    PROVE  LET new == rotateCertsWithOverlap(d, k, t).issued[i]
           IN  /\ new.key = k
               /\ Len(new.certs) = 2
               /\ new.certs[1] = d.issued[i].certs[1]
               /\ new.certs[2].key = k
               /\ new.certs[2].notAfter = Truncate(t + CertRotateInterval)
<1> DEFINE kp == NewServerKeyPair(d.ca, k, t, CertRotateInterval)
           l == d.issued[i].certs
<1>1. /\ DOMAIN d.issued = Issues /\ l \in Seq(Certificate)
      /\ d = [ca |-> d.ca, issued |-> d.issued, caCerts |-> d.caCerts]
  BY ChainTypes
<1>2. rotateCertsWithOverlap(d, k, t).issued[i] = [key |-> kp.key, certs |-> Append(l, kp.cert)]
  BY <1>1 DEF rotateCertsWithOverlap, setKeyAppendCert
<1>3. kp.key = k /\ kp.cert.key = k /\ kp.cert.notAfter = Truncate(t + CertRotateInterval)
  BY DEF NewServerKeyPair, NewSignedCert
<1>4. Len(l) = 1 /\ kp.cert \in Certificate
  <2>1. d.ca \in CA  BY DEF CertificateChainData
  <2> QED  BY <2>1, NewServerKeyPairProperties
<1> HIDE DEF kp, l
<1>5. Len(Append(l, kp.cert)) = 2 /\ Append(l, kp.cert)[1] = l[1] /\ Append(l, kp.cert)[2] = kp.cert
  <2>1. ASSUME NEW m \in Seq(Certificate), NEW c \in Certificate, Len(m) = 1
        PROVE  Len(Append(m, c)) = 2 /\ Append(m, c)[1] = m[1] /\ Append(m, c)[2] = c
    <3>1. Len(Append(m, c)) = Len(m) + 1  OBVIOUS
    <3>2. Len(Append(m, c)) = 2  BY <2>1, <3>1
    <3>3. Append(m, c)[1] = m[1]
      <4>1. \A n \in 1..Len(m) : Append(m, c)[n] = m[n]  OBVIOUS
      <4>2. 1 \in 1..Len(m)  BY <2>1
      <4> QED  BY <4>1, <4>2
    <3>4. Append(m, c)[Len(m) + 1] = c  OBVIOUS
    <3>5. Append(m, c)[2] = c
      <4>1. Len(m) + 1 = 2  BY <2>1
      <4> QED  BY <3>4, <4>1, Zenon
    <3> QED  BY <3>2, <3>3, <3>5
  <2> QED  BY <1>1, <1>4, <2>1
<1>6. /\ rotateCertsWithOverlap(d, k, t).issued[i].key = kp.key
      /\ rotateCertsWithOverlap(d, k, t).issued[i].certs = Append(l, kp.cert)
  BY <1>2
<1>7. l[1] = d.issued[i].certs[1]  BY DEF l
<1> HIDE DEF l
<1> QED  BY <1>3, <1>5, <1>6, <1>7

\* All key pairs of e are new.
Replaced(e, k, t) ==
    \A j \in Issues : /\ e.issued[j].key = k
                      /\ Len(e.issued[j].certs) = 1
                      /\ e.issued[j].certs[1].key = k
                      /\ e.issued[j].certs[1].notAfter = Truncate(t + CertRotateInterval)

\* An overlap begins.
OverlapBegun(d, e, t) ==
    \A j \in Issues : /\ Len(d.issued[j].certs) = 1
                      /\ d.issued[j].certs[1].notAfter - CertOverlapInterval <= t
                      /\ Len(e.issued[j].certs) = 2
                      /\ e.issued[j].certs[1] = d.issued[j].certs[1]

\* The first certificates expire and are dropped.
FirstDropped(d, e, t) ==
    \A j \in Issues : /\ d.issued[j].certs[1].notAfter = t
                      /\ Len(e.issued[j].certs) = 1
                      /\ LoadX509KeyPair(e.issued[j])
                      /\ t + MountLag + 1 < e.issued[j].certs[1].notAfter - CertOverlapInterval
                      /\ e.issued[j].certs[1].notAfter <= t + CertRotateInterval

\* The date of a new certificate.
LEMMA NewDate ==
    ASSUME RotationsApart, NEW t \in Nat
    PROVE  /\ Truncate(t + CertRotateInterval) \in Nat
           /\ t + MountLag + 1 + 2 * CertOverlapInterval < Truncate(t + CertRotateInterval)
           /\ Truncate(t + CertRotateInterval) <= t + CertRotateInterval
<1>1. t + CertRotateInterval \in Nat  BY OptionsAssumption
<1>2. /\ Truncate(t + CertRotateInterval) \in Nat
      /\ Truncate(t + CertRotateInterval) <= t + CertRotateInterval
      /\ t + CertRotateInterval < Truncate(t + CertRotateInterval) + Second
  BY <1>1, TruncateBounds
<1> QED  BY <1>2, OptionsAssumption, GranularityAssumption, MountAssumption DEF RotationsApart

\* Lists that are alike: their members.
LEMMA AlikeTypes ==
    ASSUME NEW d \in CertificateChainData, NEW t \in Nat, Alike(d, t), NEW j \in Issues
    PROVE  /\ d.issued[j].certs \in Seq(Certificate) /\ d.issued[j].certs # << >>
           /\ 1 \in DOMAIN d.issued[j].certs /\ d.issued[j].certs[1].notAfter \in Nat
           /\ Len(d.issued[j].certs) \in DOMAIN d.issued[j].certs
           /\ d.issued[j].certs[Len(d.issued[j].certs)].notAfter \in Nat
           /\ Len(d.issued[j].certs) \in {1, 2}
           /\ Len(d.issued[j].certs) = 2 =>
                /\ d.issued[j].certs[2].notAfter \in Nat
                /\ d.issued[j].certs[1].notAfter + MountLag + 1 + CertOverlapInterval
                     < d.issued[j].certs[2].notAfter
                /\ d.issued[j].certs[1].notAfter - CertOverlapInterval <= t
                /\ d.issued[j].certs[2].notAfter <= t + CertRotateInterval
<1>1. d.issued[j].certs \in Seq(Certificate) /\ Len(d.issued[j].certs) \in {1, 2}
  BY ChainTypes DEF Alike
<1>2. d.issued[j].certs # << >>
  <2>1. ASSUME NEW l \in Seq(Certificate), Len(l) \in {1, 2} PROVE l # << >>
    BY <2>1
  <2> QED  BY <1>1, <2>1
<1>3. \A n \in DOMAIN d.issued[j].certs : d.issued[j].certs[n].notAfter \in Nat
  BY <1>1, ListTypes
<1>4. 1 \in DOMAIN d.issued[j].certs /\ Len(d.issued[j].certs) \in DOMAIN d.issued[j].certs
  BY <1>1, <1>2, ListTypes
<1>5. Len(d.issued[j].certs) = 2 => 2 \in DOMAIN d.issued[j].certs  BY <1>4
<1>6. Len(d.issued[j].certs) = 2 =>
        /\ d.issued[j].certs[1].notAfter + MountLag + 1 + CertOverlapInterval
             < d.issued[j].certs[2].notAfter
        /\ d.issued[j].certs[1].notAfter - CertOverlapInterval <= t
        /\ d.issued[j].certs[2].notAfter <= t + CertRotateInterval
  BY DEF Alike
<1> QED  BY <1>1, <1>2, <1>3, <1>4, <1>5, <1>6

\* Where the CA stays, the first certificates are not expired.
LEMMA FirstUnexpired ==
    ASSUME NEW d \in CertificateChainData, NEW t \in Nat, ~ mustRotateCA(d, t), NEW j \in Issues
    PROVE  t <= d.issued[j].certs[1].notAfter
<1>1. verifyTLS(d, t)  BY DEF mustRotateCA
<1>2. PICK b \in Bundles : IssueOf[b] = j  BY BundlesAssumption
<1>3. VerifyTLS(d.issued[j], d.caCerts[b], t)  BY <1>1, <1>2, ChainTypes DEF verifyTLS
<1> QED  BY <1>3 DEF VerifyTLS, VerifyCertificate, ValidAt

\* Certificates that are due are single, and so are all of them.
LEMMA DueAlike ==
    ASSUME NEW d \in CertificateChainData, NEW t \in Nat, Issues # {}, Alike(d, t),
           mustRotateCerts(d, t), \A j \in Issues : t <= d.issued[j].certs[1].notAfter
    PROVE  \A j \in Issues : /\ Len(d.issued[j].certs) = 1
                             /\ d.issued[j].certs[1].notAfter - CertOverlapInterval <= t
<1>1. CertLists(d) \in SUBSET Seq(Certificate) /\ CertLists(d) # {}
  <2>1. DOMAIN d.issued = Issues /\ \A j \in Issues : d.issued[j].certs \in Seq(Certificate)
    BY ChainTypes
  <2>2. PICK j \in Issues : TRUE  OBVIOUS
  <2>3. d.issued[j].certs \in CertLists(d)  BY <2>1 DEF CertLists
  <2>4. CertLists(d) \in SUBSET Seq(Certificate)  BY <2>1 DEF CertLists
  <2> QED  BY <2>3, <2>4
<1>2. RotationDeadline(CertLists(d), CertOverlapInterval) \in Int
  BY <1>1, RotationDeadlineOf, OptionsAssumption
<1>3. ~ (t < RotationDeadline(CertLists(d), CertOverlapInterval))
  BY <1>2 DEF mustRotateCerts, findRotationDeadlineForCerts
<1>4. ~ \A l \in CertLists(d) : l # << >> /\ t < l[Len(l)].notAfter - CertOverlapInterval
  BY <1>1, <1>3, RotationDeadlineOf, OptionsAssumption
<1>5. PICK i \in Issues : ~ (/\ d.issued[i].certs # << >>
                             /\ t < d.issued[i].certs[Len(d.issued[i].certs)].notAfter - CertOverlapInterval)
  <2>1. PICK l \in CertLists(d) : ~ (l # << >> /\ t < l[Len(l)].notAfter - CertOverlapInterval)
    BY <1>4
  <2>2. DOMAIN d.issued = Issues  BY ChainTypes
  <2>3. PICK i \in Issues : l = d.issued[i].certs  BY <2>2 DEF CertLists
  <2> QED  BY <2>1, <2>3
<1>6. /\ d.issued[i].certs # << >> /\ Len(d.issued[i].certs) \in {1, 2}
      /\ d.issued[i].certs[1].notAfter \in Nat /\ 1 \in DOMAIN d.issued[i].certs
      /\ d.issued[i].certs[Len(d.issued[i].certs)].notAfter \in Nat
      /\ Len(d.issued[i].certs) = 2 =>
           /\ d.issued[i].certs[1].notAfter + MountLag + 1 + CertOverlapInterval
                < d.issued[i].certs[2].notAfter
  BY AlikeTypes
<1>7. t <= d.issued[i].certs[1].notAfter  OBVIOUS
<1>8. d.issued[i].certs[Len(d.issued[i].certs)].notAfter - CertOverlapInterval <= t
  BY <1>5, <1>6, OptionsAssumption
<1>9. Len(d.issued[i].certs) = 1
  <2> SUFFICES ASSUME Len(d.issued[i].certs) = 2 PROVE FALSE
    BY <1>6
  <2>1. d.issued[i].certs[2].notAfter - CertOverlapInterval <= t /\ d.issued[i].certs[2].notAfter \in Nat
    BY <1>6, <1>8
  <2>2. d.issued[i].certs[1].notAfter + MountLag + 1 + CertOverlapInterval < d.issued[i].certs[2].notAfter
    BY <1>6
  <2>3. ASSUME NEW u \in Nat, NEW v \in Nat, t <= u, u + MountLag + 1 + CertOverlapInterval < v,
               v - CertOverlapInterval <= t
        PROVE  FALSE
    BY <2>3, OptionsAssumption, MountAssumption
  <2> QED  BY <1>6, <1>7, <2>1, <2>2, <2>3
<1>10. d.issued[i].certs[1].notAfter - CertOverlapInterval <= t  BY <1>8, <1>9
<1>11. ASSUME NEW j \in Issues
       PROVE  Len(d.issued[j].certs) = 1 /\ d.issued[j].certs[1].notAfter = d.issued[i].certs[1].notAfter
  BY <1>6, <1>9 DEF Alike
<1> QED  BY <1>10, <1>11

\* Lists of one certificate, and lists of two, that expire at the same times are alike.
LEMMA SinglesAlike ==
    ASSUME NEW d, NEW t, NEW u,
           \A i \in Issues : /\ Len(d.issued[i].certs) = 1
                             /\ DOMAIN d.issued[i].certs = {1}
                             /\ d.issued[i].certs[1].notAfter = u
    PROVE  Alike(d, t)
<1>1. ASSUME NEW i \in Issues
      PROVE  /\ Len(d.issued[i].certs) \in {1, 2}
             /\ Len(d.issued[i].certs) # 2
  <2>1. Len(d.issued[i].certs) = 1  OBVIOUS
  <2> QED  BY <2>1
<1>2. ASSUME NEW i \in Issues, NEW j \in Issues
      PROVE  /\ Len(d.issued[i].certs) = Len(d.issued[j].certs)
             /\ \A n \in DOMAIN d.issued[i].certs :
                  d.issued[i].certs[n].notAfter = d.issued[j].certs[n].notAfter
  OBVIOUS
<1> QED  BY <1>1, <1>2, Zenon DEF Alike

\* Lists that stay as they are stay alike.
LEMMA SameAlike ==
    ASSUME NEW d, NEW e, NEW t, Alike(d, t),
           \A j \in Issues : e.issued[j] = d.issued[j]
    PROVE  Alike(e, t)
<1>1. ASSUME NEW i \in Issues
      PROVE  /\ Len(e.issued[i].certs) \in {1, 2}
             /\ Len(e.issued[i].certs) = 2 =>
                  /\ e.issued[i].certs[1].notAfter + MountLag + 1 + CertOverlapInterval
                       < e.issued[i].certs[2].notAfter
                  /\ e.issued[i].certs[1].notAfter - CertOverlapInterval <= t
                  /\ e.issued[i].certs[2].notAfter <= t + CertRotateInterval
  <2>1. e.issued[i] = d.issued[i]  OBVIOUS
  <2> QED  BY <2>1, Zenon DEF Alike
<1>2. ASSUME NEW i \in Issues, NEW j \in Issues
      PROVE  /\ Len(e.issued[i].certs) = Len(e.issued[j].certs)
             /\ \A n \in DOMAIN e.issued[i].certs :
                  e.issued[i].certs[n].notAfter = e.issued[j].certs[n].notAfter
  <2>1. e.issued[i] = d.issued[i] /\ e.issued[j] = d.issued[j]  OBVIOUS
  <2> QED  BY <2>1 DEF Alike
<1> QED  BY <1>1, <1>2, Zenon DEF Alike

\* Lists of two that begin with the same dates, with time for a mount, are alike.
LEMMA PairsAlike ==
    ASSUME NEW d, NEW t, NEW u, NEW v,
           u + MountLag + 1 + CertOverlapInterval < v, u - CertOverlapInterval <= t,
           v <= t + CertRotateInterval,
           \A i \in Issues : /\ Len(d.issued[i].certs) = 2
                             /\ DOMAIN d.issued[i].certs = {1, 2}
                             /\ d.issued[i].certs[1].notAfter = u
                             /\ d.issued[i].certs[2].notAfter = v
    PROVE  Alike(d, t)
<1>1. ASSUME NEW i \in Issues
      PROVE  /\ Len(d.issued[i].certs) \in {1, 2}
             /\ d.issued[i].certs[1].notAfter + MountLag + 1 + CertOverlapInterval
                  < d.issued[i].certs[2].notAfter
             /\ d.issued[i].certs[1].notAfter - CertOverlapInterval <= t
             /\ d.issued[i].certs[2].notAfter <= t + CertRotateInterval
  <2>1. Len(d.issued[i].certs) = 2 /\ d.issued[i].certs[1].notAfter = u /\ d.issued[i].certs[2].notAfter = v
    OBVIOUS
  <2> QED  BY <2>1
<1>2. ASSUME NEW i \in Issues, NEW j \in Issues
      PROVE  /\ Len(d.issued[i].certs) = Len(d.issued[j].certs)
             /\ \A n \in DOMAIN d.issued[i].certs :
                  d.issued[i].certs[n].notAfter = d.issued[j].certs[n].notAfter
  OBVIOUS
<1> QED  BY <1>1, <1>2, Zenon DEF Alike

\* With the CA all key pairs are replaced.
LEMMA ReplacedWithCA ==
    ASSUME NEW d \in CertificateChainData, NEW k \in Nat \ {0}, NEW t \in Nat, Issues # {},
           Consistent(d, t), mustRotateCA(newChain(d), t)
    PROVE  LET e == Update(d, k, t).data
           IN  Rotates(d, t) /\ Replaced(e, k, t) /\ Alike(e, t)
<1> DEFINE c == newChain(d)
           r == rotate(c, k, t)
           f == cleanUpCA(r, t)
           g == cleanUpIssued(f, t)
<1>1. c \in CertificateChainData /\ Consistent(c, t) /\ (c.ca.key = NoKey => c.ca.cert = NoCert)
  BY NewChain
<1>2. Rotates(d, t) /\ r = rotateAll(c, k, t) /\ Update(d, k, t).data = g
  BY DEF Rotates, rotate, Update, update
<1>3. r \in CertificateChainData /\ Consistent(r, t) /\ Established(r) /\ CAFresh(r, t)
  <2> HIDE DEF c
  <2> QED  BY <1>1, Rotate
<1>4. f \in CertificateChainData /\ f.issued = r.issued
  <2> HIDE DEF r
  <2> QED  BY <1>3, CleanUpCA
<1> HIDE DEF c, r, f
<1>5. ASSUME NEW j \in Issues
      PROVE  /\ g.issued[j].key = k
             /\ Len(g.issued[j].certs) = 1
             /\ DOMAIN g.issued[j].certs = {1}
             /\ g.issued[j].certs[1].key = k
             /\ g.issued[j].certs[1].notAfter = Truncate(t + CertRotateInterval)
  <2>1. /\ r.issued[j].key = k
        /\ Len(r.issued[j].certs) = 1
        /\ r.issued[j].certs[1].key = k
        /\ r.issued[j].certs[1].notAfter = Truncate(t + CertRotateInterval)
    BY <1>1, <1>2, RotateAllKeyPairs
  <2>2. g.issued[j] = f.issued[j]  BY <1>4, <2>1, CleanUpKeyPairs
  <2>3. DOMAIN r.issued[j].certs = {1}
    <3>1. r.issued[j].certs \in Seq(Certificate)  BY <1>3, ChainTypes
    <3>2. DOMAIN r.issued[j].certs = 1..1  BY <2>1, <3>1
    <3> QED  BY <3>2
  <2> HIDE DEF g
  <2> QED  BY <1>4, <2>1, <2>2, <2>3
<1> HIDE DEF g
<1>6. Replaced(g, k, t)  BY <1>5 DEF Replaced
<1>7. Alike(g, t)  BY <1>5, SinglesAlike
<1> QED  BY <1>2, <1>6, <1>7

\* A chain that is not established is replaced.
LEMMA BrokenReplaced ==
    ASSUME NEW d \in CertificateChainData, NEW k \in Nat \ {0}, NEW t \in Nat, Issues # {},
           Consistent(d, t), ~ Established(d)
    PROVE  LET e == Update(d, k, t).data
           IN  Rotates(d, t) /\ Replaced(e, k, t) /\ Alike(e, t)
<1> DEFINE c == newChain(d)
<1>1. c \in CertificateChainData /\ Consistent(c, t) /\ (c.ca.key = NoKey => c.ca.cert = NoCert)
      /\ c.caCerts = d.caCerts
  BY NewChain
<1>2. mustRotateCA(c, t)
  <2> SUFFICES ASSUME ~ mustRotateCA(c, t) PROVE FALSE
    OBVIOUS
  <2>1. Established(c)
    <3> HIDE DEF c
    <3> QED  BY <1>1, NoRotationNeeded
  <2>2. c.ca = d.ca  BY <2>1 DEF Established, newChain
  <2>3. ASSUME NEW j \in Issues PROVE c.issued[j] = d.issued[j]
    <3>1. DOMAIN d.issued = Issues  BY ChainTypes
    <3> QED  BY <2>1, <3>1 DEF Established, newChain
  <2> HIDE DEF c
  <2>4. Established(d)  BY <1>1, <2>1, <2>2, <2>3 DEF Established
  <2> QED  BY <2>4
<1> QED  BY <1>2, ReplacedWithCA

\* What Update does to a chain whose lists are alike: it replaces everything, or leaves the
\* lists alone, or begins an overlap, or ends one.
LEMMA UpdateLists ==
    ASSUME NEW d \in CertificateChainData, NEW k \in Nat \ {0}, NEW t \in Nat, Issues # {},
           RotationsApart, Consistent(d, t), Established(d), Alike(d, t)
    PROVE  LET e == Update(d, k, t).data
           IN  /\ Alike(e, t)
               /\ \/ Rotates(d, t) /\ Replaced(e, k, t)
                  \/ /\ e.ca = d.ca
                     /\ \A j \in Issues : t <= d.issued[j].certs[1].notAfter
                     /\ \/ \A j \in Issues : e.issued[j] = d.issued[j]
                        \/ OverlapBegun(d, e, t)
                        \/ FirstDropped(d, e, t)
<1> DEFINE r == rotate(d, k, t)
           f == cleanUpCA(r, t)
           g == cleanUpIssued(f, t)
           new == Truncate(t + CertRotateInterval)
<1>1. newChain(d) = d  BY NewChainIdentity
<1>2. d.ca.key # NoKey  BY DEF Established
<1>3. r \in CertificateChainData /\ Consistent(r, t) /\ Established(r) /\ CAFresh(r, t) /\ CertsFresh(r, t)
  BY <1>2, Rotate
<1>4. f \in CertificateChainData /\ f.ca = r.ca /\ f.issued = r.issued /\ Consistent(f, t) /\ Established(f)
  <2> HIDE DEF r
  <2> QED  BY <1>3, CleanUpCA
<1>5. CertsFresh(f, t)
  <2> HIDE DEF r, f
  <2> QED  BY <1>3, <1>4 DEF CertsFresh
<1>6. g \in CertificateChainData /\ Consistent(g, t) /\ Established(g) /\ g.ca = f.ca
  <2> HIDE DEF f
  <2> QED  BY <1>4, <1>5, CleanUpIssued
<1>7. Update(d, k, t).data = g  BY <1>1 DEF Update, update
<1>8. /\ new \in Nat /\ t + MountLag + 1 + 2 * CertOverlapInterval < new
      /\ new <= t + CertRotateInterval
  BY NewDate
<1> HIDE DEF new
<1>9. CASE mustRotateCA(d, t)
  <2> HIDE DEF g
  <2> QED  BY <1>1, <1>7, <1>9, ReplacedWithCA
<1>10. CASE ~ mustRotateCA(d, t)
  <2>1. \A j \in Issues : t <= d.issued[j].certs[1].notAfter  BY <1>10, FirstUnexpired
  <2>2. CASE mustRotateCerts(d, t)
    <3>1. r = rotateCertsWithOverlap(d, k, t)  BY <1>10, <2>2 DEF rotate
    <3>2. \A j \in Issues : /\ Len(d.issued[j].certs) = 1
                            /\ d.issued[j].certs[1].notAfter - CertOverlapInterval <= t
      BY <2>1, <2>2, DueAlike
    <3>3. r.ca = d.ca  BY <3>1, RotateCertsKeyPairs
    <3>4. ASSUME NEW j \in Issues
          PROVE  /\ f.issued[j].key = k
                 /\ Len(f.issued[j].certs) = 2
                 /\ f.issued[j].certs[1] = d.issued[j].certs[1]
                 /\ f.issued[j].certs[2].key = k
                 /\ f.issued[j].certs[2].notAfter = new
                 /\ d.issued[j].certs[1].notAfter \in Nat
                 /\ f.issued[j].certs \in Seq(Certificate)
      <4> HIDE DEF f, r
      <4>1. d.issued[j].certs[1].notAfter \in Nat  BY AlikeTypes
      <4>2. f.issued[j].certs \in Seq(Certificate)  BY <1>4, ChainTypes
      <4>3. /\ r.issued[j].key = k
            /\ Len(r.issued[j].certs) = 2
            /\ r.issued[j].certs[1] = d.issued[j].certs[1]
            /\ r.issued[j].certs[2].key = k
            /\ r.issued[j].certs[2].notAfter = Truncate(t + CertRotateInterval)
        BY <3>1, <3>2, OverlapKeyPairs
      <4> QED  BY <1>4, <4>1, <4>2, <4>3 DEF new
    <3>5. \A j \in Issues : g.issued[j] = IF d.issued[j].certs[1].notAfter <= t
                                           THEN [key |-> k, certs |-> <<f.issued[j].certs[2]>>]
                                           ELSE f.issued[j]
      <4> HIDE DEF f, r
      <4> TAKE j \in Issues
      <4>0. f.issued[j].key = k /\ Len(f.issued[j].certs) = 2
            /\ f.issued[j].certs[1] = d.issued[j].certs[1] /\ f.issued[j].certs[2].notAfter = new
        BY <3>4
      <4>1. f.issued[j].certs[2].notAfter > t /\ Len(f.issued[j].certs) \in {1, 2}
        BY <1>8, <4>0, MountAssumption, OptionsAssumption
      <4>2. g.issued[j] = IF Len(f.issued[j].certs) = 2 /\ f.issued[j].certs[1].notAfter <= t
                            THEN [key |-> f.issued[j].key, certs |-> <<f.issued[j].certs[2]>>]
                            ELSE f.issued[j]
        BY <1>4, <4>1, CleanUpPairs
      <4> HIDE DEF g
      <4> QED  BY <4>0, <4>2
    <3>6. \A i, j \in Issues : d.issued[i].certs[1].notAfter = d.issued[j].certs[1].notAfter
      <4>1. \A i \in Issues : 1 \in DOMAIN d.issued[i].certs  BY AlikeTypes
      <4> QED  BY <4>1 DEF Alike
    <3> HIDE DEF g, f, r
    <3>7. CASE \A j \in Issues : d.issued[j].certs[1].notAfter > t
      <4>1. ASSUME NEW j \in Issues PROVE g.issued[j] = f.issued[j]
        <5>1. d.issued[j].certs[1].notAfter \in Nat /\ d.issued[j].certs[1].notAfter > t  BY <3>4, <3>7
        <5>2. ~ (d.issued[j].certs[1].notAfter <= t)  BY <5>1
        <5> QED  BY <3>5, <5>2
      <4>2. OverlapBegun(d, g, t)
        <5>1. ASSUME NEW j \in Issues
              PROVE  Len(g.issued[j].certs) = 2 /\ g.issued[j].certs[1] = d.issued[j].certs[1]
          BY <3>4, <4>1
        <5> QED  BY <3>2, <5>1 DEF OverlapBegun
      <4>3. ASSUME NEW i \in Issues
            PROVE  /\ Len(g.issued[i].certs) = 2
                   /\ DOMAIN g.issued[i].certs = {1, 2}
                   /\ g.issued[i].certs[1].notAfter = d.issued[i].certs[1].notAfter
                   /\ g.issued[i].certs[2].notAfter = new
        <5>1. Len(g.issued[i].certs) = 2 /\ g.issued[i].certs \in Seq(Certificate)  BY <3>4, <4>1
        <5>2. DOMAIN g.issued[i].certs = 1..2  BY <5>1
        <5>3. DOMAIN g.issued[i].certs = {1, 2}  BY <5>2
        <5> QED  BY <3>4, <4>1, <5>1, <5>3
      <4>4. ASSUME NEW i \in Issues
            PROVE  /\ d.issued[i].certs[1].notAfter + MountLag + 1 + CertOverlapInterval < new
                   /\ d.issued[i].certs[1].notAfter - CertOverlapInterval <= t
        <5>1. d.issued[i].certs[1].notAfter - CertOverlapInterval <= t /\ d.issued[i].certs[1].notAfter \in Nat
          BY <3>2, <3>4
        <5> QED  BY <1>8, <5>1, MountAssumption, OptionsAssumption
      <4>5. Alike(g, t)
        <5>1. PICK i \in Issues : TRUE  OBVIOUS
        <5>2. \A j \in Issues : g.issued[j].certs[1].notAfter = d.issued[i].certs[1].notAfter
          BY <3>6, <4>3
        <5> QED  BY <1>8, <4>3, <4>4, <5>2, PairsAlike
      <4> QED  BY <1>4, <1>6, <1>7, <2>1, <3>3, <4>2, <4>5
    <3>8. CASE ~ \A j \in Issues : d.issued[j].certs[1].notAfter > t
      <4>1. \A j \in Issues : d.issued[j].certs[1].notAfter = t
        <5>1. PICK i \in Issues : ~ (d.issued[i].certs[1].notAfter > t)  BY <3>8
        <5>2. d.issued[i].certs[1].notAfter = t  BY <2>1, <3>4, <5>1
        <5> QED  BY <3>6, <5>2
      <4>2. ASSUME NEW i \in Issues
            PROVE  /\ g.issued[i].key = k
                   /\ Len(g.issued[i].certs) = 1
                   /\ DOMAIN g.issued[i].certs = {1}
                   /\ g.issued[i].certs # << >>
                   /\ g.issued[i].certs[1] = f.issued[i].certs[2]
        <5>1. g.issued[i] = [key |-> k, certs |-> <<f.issued[i].certs[2]>>]  BY <3>4, <3>5, <4>1
        <5> QED  BY <5>1
      <4>3. ASSUME NEW i \in Issues
            PROVE  /\ g.issued[i].certs[1].notAfter = new
                   /\ LoadX509KeyPair(g.issued[i])
        BY <3>4, <4>2 DEF LoadX509KeyPair, NoKey
      <4>4. t + MountLag + 1 < new - CertOverlapInterval  BY <1>8, MountAssumption, OptionsAssumption
      <4>5. FirstDropped(d, g, t)  BY <1>8, <4>1, <4>2, <4>3, <4>4 DEF FirstDropped
      <4>6. Alike(g, t)
        <5>1. \A i \in Issues : /\ Len(g.issued[i].certs) = 1
                                /\ DOMAIN g.issued[i].certs = {1}
                                /\ g.issued[i].certs[1].notAfter = new
          BY <4>2, <4>3
        <5> QED  BY <5>1, SinglesAlike
      <4> QED  BY <1>4, <1>6, <1>7, <2>1, <3>3, <4>5, <4>6
    <3> QED  BY <3>7, <3>8
  <2>3. CASE ~ mustRotateCerts(d, t)
    <3>1. r = d  BY <1>10, <2>3 DEF rotate
    <3>2. ASSUME NEW j \in Issues
          PROVE  g.issued[j] = IF Len(d.issued[j].certs) = 2 /\ d.issued[j].certs[1].notAfter <= t
                                 THEN [key |-> d.issued[j].key, certs |-> <<d.issued[j].certs[2]>>]
                                 ELSE d.issued[j]
      <4>1. /\ Len(d.issued[j].certs) \in {1, 2}
            /\ d.issued[j].certs[1].notAfter \in Nat
            /\ Len(d.issued[j].certs) = 2 =>
                 /\ d.issued[j].certs[2].notAfter \in Nat
                 /\ d.issued[j].certs[1].notAfter + MountLag + 1 + CertOverlapInterval
                      < d.issued[j].certs[2].notAfter
        BY AlikeTypes
      <4>2. t <= d.issued[j].certs[1].notAfter  BY <2>1
      <4>3. Len(d.issued[j].certs) = 2 => d.issued[j].certs[2].notAfter > t
        BY <4>1, <4>2, MountAssumption, OptionsAssumption
      <4>4. f.issued[j] = d.issued[j]  BY <1>4, <3>1
      <4> HIDE DEF f
      <4> QED  BY <1>4, <4>1, <4>3, <4>4, CleanUpPairs
    <3> HIDE DEF g, f, r
    <3>3. \A i, j \in Issues : /\ Len(d.issued[i].certs) = Len(d.issued[j].certs)
                               /\ d.issued[i].certs[1].notAfter = d.issued[j].certs[1].notAfter
      <4>1. \A i \in Issues : 1 \in DOMAIN d.issued[i].certs  BY AlikeTypes
      <4> QED  BY <4>1 DEF Alike
    <3>4. CASE \E i \in Issues : Len(d.issued[i].certs) = 2 /\ d.issued[i].certs[1].notAfter <= t
      <4>1. ASSUME NEW j \in Issues
            PROVE  /\ Len(d.issued[j].certs) = 2
                   /\ d.issued[j].certs[1].notAfter = t
                   /\ 2 \in DOMAIN d.issued[j].certs
                   /\ d.issued[j].certs[2].notAfter \in Nat
                   /\ d.issued[j].certs[1].notAfter + MountLag + 1 + CertOverlapInterval
                        < d.issued[j].certs[2].notAfter
                   /\ d.issued[j].certs[2].notAfter <= t + CertRotateInterval
        <5>1. PICK i \in Issues : Len(d.issued[i].certs) = 2 /\ d.issued[i].certs[1].notAfter <= t
          BY <3>4
        <5>2. Len(d.issued[j].certs) = 2 /\ d.issued[j].certs[1].notAfter <= t  BY <3>3, <5>1
        <5>3. d.issued[j].certs[1].notAfter \in Nat /\ Len(d.issued[j].certs) \in DOMAIN d.issued[j].certs
              /\ d.issued[j].certs[2].notAfter \in Nat
              /\ d.issued[j].certs[1].notAfter + MountLag + 1 + CertOverlapInterval
                   < d.issued[j].certs[2].notAfter
              /\ d.issued[j].certs[2].notAfter <= t + CertRotateInterval
          BY <5>2, AlikeTypes
        <5>4. t <= d.issued[j].certs[1].notAfter  BY <2>1
        <5> QED  BY <5>2, <5>3, <5>4
      <4>2. ASSUME NEW i \in Issues
            PROVE  /\ g.issued[i].key = d.issued[i].key
                   /\ Len(g.issued[i].certs) = 1
                   /\ DOMAIN g.issued[i].certs = {1}
                   /\ g.issued[i].certs # << >>
                   /\ g.issued[i].certs[1] = d.issued[i].certs[2]
        <5>1. g.issued[i] = [key |-> d.issued[i].key, certs |-> <<d.issued[i].certs[2]>>]
          BY <3>2, <4>1
        <5> QED  BY <5>1
      <4>3. ASSUME NEW i \in Issues
            PROVE  LoadX509KeyPair(g.issued[i])
        <5>1. d.issued[i].key # NoKey /\ d.issued[i].certs # << >>  BY DEF Established
        <5>2. d.issued[i].certs[Len(d.issued[i].certs)].key = d.issued[i].key
          BY <5>1 DEF Consistent
        <5>3. d.issued[i].certs[2].key = d.issued[i].key  BY <4>1, <5>2
        <5> QED  BY <4>2, <5>1, <5>3 DEF LoadX509KeyPair
      <4>4. ASSUME NEW i \in Issues
            PROVE  t + MountLag + 1 < g.issued[i].certs[1].notAfter - CertOverlapInterval
        <5>1. g.issued[i].certs[1].notAfter = d.issued[i].certs[2].notAfter  BY <4>2
        <5>2. /\ t + MountLag + 1 + CertOverlapInterval < d.issued[i].certs[2].notAfter
              /\ d.issued[i].certs[2].notAfter \in Nat
          BY <4>1
        <5> QED  BY <5>1, <5>2, MountAssumption, OptionsAssumption
      <4>5. FirstDropped(d, g, t)  BY <4>1, <4>2, <4>3, <4>4 DEF FirstDropped
      <4>6. ASSUME NEW i \in Issues, NEW j \in Issues
            PROVE  d.issued[i].certs[2].notAfter = d.issued[j].certs[2].notAfter
        <5>1. 2 \in DOMAIN d.issued[i].certs  BY <4>1
        <5> QED  BY <5>1, Zenon DEF Alike
      <4>7. Alike(g, t)
        <5>1. PICK i \in Issues : TRUE  OBVIOUS
        <5>2. \A j \in Issues : g.issued[j].certs[1].notAfter = d.issued[i].certs[2].notAfter
          BY <4>2, <4>6
        <5>3. \A j \in Issues : Len(g.issued[j].certs) = 1 /\ DOMAIN g.issued[j].certs = {1}
          BY <4>2
        <5> QED  BY <5>2, <5>3, SinglesAlike
      <4> QED  BY <1>4, <1>6, <1>7, <2>1, <3>1, <4>5, <4>7
    <3>5. CASE ~ \E i \in Issues : Len(d.issued[i].certs) = 2 /\ d.issued[i].certs[1].notAfter <= t
      <4>1. \A j \in Issues : g.issued[j] = d.issued[j]  BY <3>2, <3>5
      <4>2. Alike(g, t)  BY <4>1, SameAlike
      <4> QED  BY <1>4, <1>6, <1>7, <2>1, <3>1, <4>1, <4>2
    <3> QED  BY <3>4, <3>5
  <2> QED  BY <2>2, <2>3
<1> QED  BY <1>9, <1>10

------------------------------------------------------------------------------------
(* The bundles.                                                                     *)

\* Keys are known, and the CA is nowhere but at the end of the bundles.
CALast(d, k) ==
    \A b \in Bundles : \A n \in DOMAIN d.caCerts[b] :
        /\ d.caCerts[b][n].key <= k
        /\ d.caCerts[b][n] = d.ca.cert => n = Len(d.caCerts[b])

\* Decoding keeps it.
LEMMA NewChainCALast ==
    ASSUME NEW d \in CertificateChainData, NEW t \in Nat, NEW k \in Nat, Consistent(d, t), CALast(d, k)
    PROVE  CALast(newChain(d), k)
<1> DEFINE c == newChain(d)
<1>1. c.caCerts = d.caCerts /\ c.ca.cert \in {d.ca.cert, NoCert}  BY DEF newChain
<1> HIDE DEF c
<1>2. ASSUME NEW b \in Bundles, NEW n \in DOMAIN c.caCerts[b]
      PROVE  /\ c.caCerts[b][n].key <= k
             /\ c.caCerts[b][n] = c.ca.cert => n = Len(c.caCerts[b])
  <2>1. n \in DOMAIN d.caCerts[b]  BY <1>1
  <2>2. d.caCerts[b][n].key # NoKey  BY <2>1 DEF Consistent
  <2>3. d.caCerts[b][n] # NoCert  BY <2>2 DEF NoCert
  <2> QED  BY <1>1, <2>1, <2>3 DEF CALast
<1>3. CALast(c, k)  BY <1>2 DEF CALast
<1> QED  BY <1>3 DEF c

\* So does the rotation of the CA, which adds one with a new key.
LEMMA RotateAllCALast ==
    ASSUME NEW d \in CertificateChainData, NEW t \in Nat, NEW k \in Nat, CALast(d, k)
    PROVE  CALast(rotateAll(d, k + 1, t), k + 1)
<1> DEFINE ca == NewCA(k + 1, t, CARotateInterval)
           e == rotateAll(d, k + 1, t)
<1>0. k + 1 \in Nat \ {0}  OBVIOUS
<1>1. ca.cert \in Certificate /\ ca.cert.key = k + 1
  <2>1. ca \in CA /\ ca.cert.key = k + 1  BY <1>0, NewCAProperties
  <2> QED  BY <2>1 DEF CA
<1>2. DOMAIN d.caCerts = Bundles  BY ChainTypes
<1>3. e.ca = ca /\ e.caCerts = [b \in Bundles |-> Append(d.caCerts[b], ca.cert)]
  BY <1>2 DEF rotateAll, rotateCertsWithoutOverlap, setCaKeyPair
<1> HIDE DEF ca, e
<1>4. ASSUME NEW b \in Bundles, NEW n \in DOMAIN e.caCerts[b]
      PROVE  /\ e.caCerts[b][n].key <= k + 1
             /\ e.caCerts[b][n] = e.ca.cert => n = Len(e.caCerts[b])
  <2> DEFINE l == d.caCerts[b]
             m == Append(l, ca.cert)
  <2>1. l \in Seq(Certificate) /\ e.caCerts[b] = m  BY <1>3, ChainTypes
  <2> HIDE DEF l
  <2>2. Len(m) = Len(l) + 1 /\ n \in 1..(Len(l) + 1) /\ Len(l) \in Nat  BY <1>1, <2>1
  <2>3. CASE n = Len(l) + 1
    <3>1. m[n] = ca.cert  BY <1>1, <2>1, <2>3
    <3> QED  BY <1>1, <2>1, <2>2, <2>3, <3>1
  <2>4. CASE n \in 1..Len(l)
    <3>1. m[n] = l[n] /\ n \in DOMAIN l  BY <1>1, <2>1, <2>4
    <3>2. l[n].key <= k  BY <3>1 DEF CALast, l
    <3>3. l[n].key \in Nat
      <4>1. l[n] \in Certificate  BY <2>1, <3>1
      <4> QED  BY <4>1 DEF Certificate
    <3>4. m[n] # ca.cert  BY <1>1, <3>1, <3>2, <3>3
    <3> QED  BY <1>3, <2>1, <3>1, <3>2, <3>3, <3>4
  <2> QED  BY <2>2, <2>3, <2>4
<1>5. CALast(e, k + 1)  BY <1>4 DEF CALast
<1> QED  BY <1>5 DEF e

\* So does the clean-up, which keeps the order.
LEMMA CleanUpCALast ==
    ASSUME NEW d \in CertificateChainData, NEW t \in Nat, NEW k \in Nat, CALast(d, k)
    PROVE  CALast(cleanUpCA(d, t), k)
<1> DEFINE e == cleanUpCA(d, t)
<1>1. /\ DOMAIN d.caCerts = Bundles /\ \A b \in Bundles : d.caCerts[b] \in Seq(Certificate)
      /\ d = [ca |-> d.ca, issued |-> d.issued, caCerts |-> d.caCerts]
  BY ChainTypes
<1>2. CASE e = d  BY <1>2
<1>3. CASE e = cleanUpCACerts(d, t)
  <2>1. e.ca = d.ca /\ \A b \in Bundles : e.caCerts[b] = cleanUpCertificateList(d.caCerts[b], t)
    BY <1>1, <1>3 DEF cleanUpCACerts
  <2> HIDE DEF e
  <2>2. ASSUME NEW b \in Bundles, NEW n \in DOMAIN e.caCerts[b]
        PROVE  /\ e.caCerts[b][n].key <= k
               /\ e.caCerts[b][n] = e.ca.cert => n = Len(e.caCerts[b])
    <3> DEFINE l == d.caCerts[b]
               m == e.caCerts[b]
    <3>1. l \in Seq(Certificate) /\ m = cleanUpCertificateList(l, t)  BY <1>1, <2>1
    <3>2. m \in Seq(Certificate)  BY <3>1, CleanUpList
    <3>3. \A j \in DOMAIN l : l[j].key <= k /\ (l[j] = d.ca.cert => j = Len(l))
      BY DEF CALast
    <3> HIDE DEF l, m
    <3>4. PICK f : FromPlaces(m, l, f)  BY <3>1, CleanUpInOrder
    <3>5. DOMAIN l = 1..Len(l) /\ DOMAIN m = 1..Len(m) /\ Len(l) \in Nat /\ Len(m) \in Nat
      BY <3>1, <3>2
    <3>6. n \in DOMAIN m  BY DEF m
    <3>7. Len(m) \in DOMAIN m /\ n \in 1..Len(m)  BY <3>5, <3>6
    <3>8. /\ m[n] = l[f[n]] /\ f[n] \in DOMAIN l /\ f[Len(m)] \in DOMAIN l
          /\ Len(m) - n <= f[Len(m)] - f[n]
      BY <3>4, <3>6, <3>7 DEF FromPlaces
    <3>9. m[n].key <= k  BY <3>3, <3>8
    <3>10. ASSUME m[n] = d.ca.cert PROVE n = Len(m)
      <4>1. f[n] = Len(l)  BY <3>3, <3>8, <3>10
      <4> QED  BY <3>5, <3>7, <3>8, <4>1
    <3> QED  BY <2>1, <3>9, <3>10 DEF m
  <2>3. CALast(e, k)  BY <2>2 DEF CALast
  <2> QED  BY <2>3 DEF e
<1> QED  BY <1>2, <1>3 DEF cleanUpCA

\* The CA is the last certificate of its key in every bundle, whatever Update does.
LEMMA UpdateCALast ==
    ASSUME NEW d \in CertificateChainData, NEW t \in Nat, NEW k \in Nat, Issues # {},
           Consistent(d, t), CALast(d, k)
    PROVE  CALast(Update(d, k + 1, t).data, IF Rotates(d, t) THEN k + 1 ELSE k)
<1> DEFINE c == newChain(d)
           r == rotate(c, k + 1, t)
           f == cleanUpCA(r, t)
           g == cleanUpIssued(f, t)
           s == IF Rotates(d, t) THEN k + 1 ELSE k
<1>0. k + 1 \in Nat \ {0} /\ s \in Nat  OBVIOUS
<1>1. c \in CertificateChainData /\ Consistent(c, t) /\ (c.ca.key = NoKey => c.ca.cert = NoCert)
      /\ CALast(c, k)
  BY NewChain, NewChainCALast
<1>2. /\ r \in CertificateChainData /\ Consistent(r, t) /\ Established(r)
      /\ CAFresh(r, t) /\ CertsFresh(r, t)
  <2> HIDE DEF c
  <2> QED  BY <1>0, <1>1, Rotate
<1>3. f \in CertificateChainData /\ f.issued = r.issued /\ Consistent(f, t) /\ Established(f)
  <2> HIDE DEF r
  <2> QED  BY <1>2, CleanUpCA
<1>4. CertsFresh(f, t)
  <2> HIDE DEF r, f
  <2> QED  BY <1>2, <1>3 DEF CertsFresh
<1>5. g.ca = f.ca /\ g.caCerts = f.caCerts
  <2> HIDE DEF f
  <2> QED  BY <1>3, <1>4, CleanUpIssued
<1>6. Update(d, k + 1, t).data = g  BY DEF Update, update
<1>7. CALast(r, s)
  <2>1. CASE mustRotateCA(c, t)
    <3>1. s = k + 1 /\ r = rotateAll(c, k + 1, t)  BY <2>1 DEF Rotates, rotate
    <3> HIDE DEF c
    <3> QED  BY <1>1, <3>1, RotateAllCALast
  <2>2. CASE ~ mustRotateCA(c, t)
    <3>1. r.ca = c.ca /\ r.caCerts = c.caCerts
      <4>1. c = [ca |-> c.ca, issued |-> c.issued, caCerts |-> c.caCerts]  BY <1>1, ChainTypes
      <4>2. r = rotateCertsWithOverlap(c, k + 1, t) \/ r = c  BY <2>2 DEF rotate
      <4> HIDE DEF c, r
      <4> QED  BY <4>1, <4>2 DEF rotateCertsWithOverlap
    <3>2. k <= s  BY <1>0
    <3> HIDE DEF c, r, s
    <3>3. ASSUME NEW b \in Bundles, NEW n \in DOMAIN c.caCerts[b]
          PROVE  c.caCerts[b][n].key <= s
      <4>1. c.caCerts[b][n].key <= k  BY <1>1 DEF CALast
      <4>2. c.caCerts[b][n].key \in Nat
        <5>1. c.caCerts[b][n] \in Certificate  BY <1>1, BundleTypes
        <5> QED  BY <5>1 DEF Certificate
      <4> QED  BY <1>0, <3>2, <4>1, <4>2
    <3> QED  BY <1>1, <3>1, <3>3 DEF CALast
  <2> QED  BY <2>1, <2>2
<1>8. CALast(f, s)
  <2> HIDE DEF r, s
  <2> QED  BY <1>0, <1>2, <1>7, CleanUpCALast
<1> HIDE DEF g, f, s
<1>9. CALast(g, s)  BY <1>5, <1>8 DEF CALast
<1> QED  BY <1>6, <1>9 DEF s

\* The inductive invariant.
BriefInv ==
    /\ TypesInv
    /\ KeysKnown
    /\ CALast(chain, serial)
    /\ BrokenInv
    /\ ListsInv
    /\ \A i \in Issues : Phase(i)

------------------------------------------------------------------------------------
(* Times, bounds and trust.                                                         *)

\* The bounds allow for one late clean-up and one late mount.
LEMMA Bounds ==
    ASSUME TypesInv, NEW i \in Issues
    PROVE  /\ RefusedBound(i) \in Nat /\ MaxLateness + MountLag <= RefusedBound(i)
           /\ DownBound \in Nat /\ CertOverlapInterval + MaxLateness + MountLag + 1 <= DownBound
<1>1. faults \in Nat /\ missed[i] \in Nat
  <2>1. faults \in 0..MaxFaults /\ missed \in [Issues -> Nat]
    BY DEF TypesInv, Inv, TypeOK, ServersTypeOK
  <2> QED  BY <2>1, TimeAssumption
<1>2. ASSUME NEW f \in Nat, NEW x \in Nat
      PROVE  (1 + f) * x \in Nat /\ x <= (1 + f) * x
  <2>1. f * x \in Nat  OBVIOUS
  <2>2. (1 + f) * x = x + f * x  OBVIOUS
  <2> QED  BY <2>1, <2>2
<1>3. /\ MaxLateness + MountLag \in Nat /\ MaxLateness + MountLag + 1 \in Nat
      /\ CertRotateInterval \in Nat
  BY TimeAssumption, MountAssumption, OptionsAssumption
<1>4. /\ (1 + (faults + missed[i])) * (MaxLateness + MountLag) \in Nat
      /\ MaxLateness + MountLag <= (1 + (faults + missed[i])) * (MaxLateness + MountLag)
      /\ (1 + faults) * (MaxLateness + MountLag + 1) \in Nat
      /\ MaxLateness + MountLag + 1 <= (1 + faults) * (MaxLateness + MountLag + 1)
      /\ missed[i] * CertRotateInterval \in Nat
  <2>1. faults + missed[i] \in Nat  BY <1>1
  <2>2. \A m \in Nat, x \in Nat : m * x \in Nat  OBVIOUS
  <2> QED  BY <1>1, <1>2, <1>3, <2>1, <2>2
<1>5. ASSUME NEW y \in Nat, MaxLateness + MountLag + 1 <= y
      PROVE  /\ CertOverlapInterval + y \in Nat
             /\ CertOverlapInterval + MaxLateness + MountLag + 1 <= CertOverlapInterval + y
  BY <1>5, OptionsAssumption, TimeAssumption, MountAssumption
<1>6. 1 + faults + missed[i] = 1 + (faults + missed[i])  BY <1>1
<1>7. ASSUME NEW x \in Nat, NEW z \in Nat, MaxLateness + MountLag <= x
      PROVE  x + z \in Nat /\ MaxLateness + MountLag <= x + z
  BY <1>3, <1>7
<1> QED  BY <1>4, <1>5, <1>6, <1>7 DEF RefusedBound, DownBound

\* They grow with every interference.
LEMMA BoundsGrow ==
    ASSUME TypesInv, NEW i \in Issues, faults' = faults + 1, missed'[i] = missed[i]
    PROVE  /\ RefusedBound(i)' = RefusedBound(i) + MaxLateness + MountLag
           /\ DownBound' = DownBound + MaxLateness + MountLag + 1
<1>1. faults \in Nat /\ missed[i] \in Nat
  <2>1. faults \in 0..MaxFaults /\ missed \in [Issues -> Nat]
    BY DEF TypesInv, Inv, TypeOK, ServersTypeOK
  <2> QED  BY <2>1, TimeAssumption
<1>2. ASSUME NEW f \in Nat, NEW x \in Nat
      PROVE  (f + 1) * x = f * x + x /\ f * x \in Nat
  OBVIOUS
<1>3. /\ MaxLateness + MountLag \in Nat /\ MaxLateness + MountLag + 1 \in Nat
      /\ CertRotateInterval \in Nat
  BY TimeAssumption, MountAssumption, OptionsAssumption
<1>4. /\ ((1 + faults + missed[i]) + 1) * (MaxLateness + MountLag)
           = (1 + faults + missed[i]) * (MaxLateness + MountLag) + (MaxLateness + MountLag)
      /\ (1 + faults + missed[i]) * (MaxLateness + MountLag) \in Nat
      /\ ((1 + faults) + 1) * (MaxLateness + MountLag + 1)
           = (1 + faults) * (MaxLateness + MountLag + 1) + (MaxLateness + MountLag + 1)
      /\ (1 + faults) * (MaxLateness + MountLag + 1) \in Nat
      /\ missed[i] * CertRotateInterval \in Nat
  <2>1. 1 + faults + missed[i] \in Nat /\ 1 + faults \in Nat  BY <1>1
  <2> QED  BY <1>1, <1>2, <1>3, <2>1
<1>5. /\ 1 + (faults + 1) + missed[i] = (1 + faults + missed[i]) + 1
      /\ 1 + (faults + 1) = (1 + faults) + 1
  BY <1>1
<1>6. /\ RefusedBound(i)' = (1 + (faults + 1) + missed[i]) * (MaxLateness + MountLag)
                              + missed[i] * CertRotateInterval
      /\ DownBound' = CertOverlapInterval + (1 + (faults + 1)) * (MaxLateness + MountLag + 1)
  BY DEF RefusedBound, DownBound
<1>7. RefusedBound(i)' = RefusedBound(i) + MaxLateness + MountLag
  <2>1. ASSUME NEW x \in Nat, NEW z \in Nat
        PROVE  (x + (MaxLateness + MountLag)) + z = x + z + MaxLateness + MountLag
    BY TimeAssumption, MountAssumption
  <2>2. RefusedBound(i) = (1 + faults + missed[i]) * (MaxLateness + MountLag)
                            + missed[i] * CertRotateInterval
    BY DEF RefusedBound
  <2>3. RefusedBound(i)' = ((1 + faults + missed[i]) * (MaxLateness + MountLag) + (MaxLateness + MountLag))
                             + missed[i] * CertRotateInterval
    BY <1>4, <1>5, <1>6
  <2> QED  BY <1>4, <2>1, <2>2, <2>3
<1>8. DownBound' = DownBound + MaxLateness + MountLag + 1
  <2>1. ASSUME NEW y \in Nat
        PROVE  CertOverlapInterval + (y + (MaxLateness + MountLag + 1))
                 = CertOverlapInterval + y + MaxLateness + MountLag + 1
    BY OptionsAssumption, TimeAssumption, MountAssumption
  <2> QED  BY <1>4, <1>5, <1>6, <2>1 DEF DownBound
<1> QED  BY <1>7, <1>8

\* And with every key pair that is lost, by the life of a certificate more.
LEMMA MissGrows ==
    ASSUME TypesInv, NEW i \in Issues, faults' = faults, missed'[i] = missed[i] + 1
    PROVE  RefusedBound(i)' = RefusedBound(i) + MaxLateness + MountLag + CertRotateInterval
<1>1. faults \in Nat /\ missed[i] \in Nat
  <2>1. faults \in 0..MaxFaults /\ missed \in [Issues -> Nat]
    BY DEF TypesInv, Inv, TypeOK, ServersTypeOK
  <2> QED  BY <2>1, TimeAssumption
<1>2. ASSUME NEW f \in Nat, NEW x \in Nat
      PROVE  (f + 1) * x = f * x + x /\ f * x \in Nat
  OBVIOUS
<1>3. MaxLateness + MountLag \in Nat /\ CertRotateInterval \in Nat
  BY TimeAssumption, MountAssumption, OptionsAssumption
<1>4. /\ ((1 + faults + missed[i]) + 1) * (MaxLateness + MountLag)
           = (1 + faults + missed[i]) * (MaxLateness + MountLag) + (MaxLateness + MountLag)
      /\ (1 + faults + missed[i]) * (MaxLateness + MountLag) \in Nat
      /\ (missed[i] + 1) * CertRotateInterval = missed[i] * CertRotateInterval + CertRotateInterval
      /\ missed[i] * CertRotateInterval \in Nat
  <2>1. 1 + faults + missed[i] \in Nat  BY <1>1
  <2> QED  BY <1>1, <1>2, <1>3, <2>1
<1>5. 1 + faults + (missed[i] + 1) = (1 + faults + missed[i]) + 1  BY <1>1
<1>6. ASSUME NEW x \in Nat, NEW z \in Nat
      PROVE  (x + (MaxLateness + MountLag)) + (z + CertRotateInterval)
               = x + z + MaxLateness + MountLag + CertRotateInterval
  BY OptionsAssumption, TimeAssumption, MountAssumption
<1>7. RefusedBound(i)' = (1 + faults + (missed[i] + 1)) * (MaxLateness + MountLag)
                           + (missed[i] + 1) * CertRotateInterval
  BY DEF RefusedBound
<1> QED  BY <1>4, <1>5, <1>6, <1>7 DEF RefusedBound

\* The times of a pod.
LEMMA PodTypes ==
    ASSUME TypesInv, NEW i \in Issues
    PROVE  /\ now \in Nat /\ wakeAt \in Nat /\ now <= wakeAt + MaxLateness
           /\ refused[i] \in Nat /\ down[i] \in Nat
           /\ lag[i] \in Nat /\ lag[i] <= MountLag
           /\ MountLag \in Nat /\ MaxLateness \in Nat /\ CertOverlapInterval \in Nat
           /\ server[i] \in {"waiting", "starting", "serving", "ended"}
           /\ event[i] \in BOOLEAN
           /\ CertRotateInterval \in Nat
           /\ server[i] = "serving" <=> LoadX509KeyPair(loaded[i])
           /\ event[i] => server[i] = "serving"
<1>1. now \in Nat /\ wakeAt \in Nat /\ now <= wakeAt + MaxLateness
  BY DEF TypesInv, Inv, TypeOK
<1>2. /\ lag[i] \in Nat /\ lag[i] <= MountLag  BY Types
<1>3. /\ refused[i] \in Nat /\ down[i] \in Nat
      /\ server[i] \in {"waiting", "starting", "serving", "ended"}
      /\ event[i] \in BOOLEAN
      /\ server[i] = "serving" <=> LoadX509KeyPair(loaded[i])
      /\ watching[i] => server[i] = "serving"
      /\ event[i] => watching[i]
  BY DEF TypesInv, ServersTypeOK
<1> QED  BY <1>1, <1>2, <1>3, TimeAssumption, MountAssumption, OptionsAssumption

\* What is certain of the certificates while the chain is intact.
LEMMA IntactTypes ==
    ASSUME TypesInv, ListsInv, intact, NEW i \in Issues
    PROVE  /\ chain \in CertificateChainData /\ Consistent(chain, now)
           /\ Established(chain) /\ NotOverdue(chain, wakeAt) /\ Alike(chain, now)
           /\ First(i).notAfter \in Nat /\ wakeAt <= First(i).notAfter
           /\ chain.issued[i].certs # << >> /\ 1 \in DOMAIN chain.issued[i].certs
           /\ Len(chain.issued[i].certs) = 1 => wakeAt <= First(i).notAfter - CertOverlapInterval
           /\ \A j \in Issues : First(j).notAfter = First(i).notAfter
<1>1. /\ chain \in CertificateChainData /\ Consistent(chain, now)
      /\ Established(chain) /\ NotOverdue(chain, wakeAt) /\ now \in Nat
  BY DEF TypesInv, Inv, TypeOK
<1>2. Alike(chain, now)  BY DEF ListsInv
<1>3. /\ First(i).notAfter \in Nat /\ 1 \in DOMAIN chain.issued[i].certs
      /\ chain.issued[i].certs # << >>
  BY <1>1, <1>2, AlikeTypes DEF First
<1>4. /\ wakeAt <= First(i).notAfter
      /\ Len(chain.issued[i].certs) = 1 => wakeAt <= First(i).notAfter - CertOverlapInterval
  BY <1>1, <1>3 DEF NotOverdue, First
<1>5. \A j \in Issues : First(j).notAfter = First(i).notAfter
  BY <1>2, <1>3, Zenon DEF Alike, First
<1> QED  BY <1>1, <1>2, <1>3, <1>4, <1>5

\* What is strictly trusted is verified by every client.
LEMMA StrictlyTrustedVerifies ==
    ASSUME TypesInv, NEW i \in Issues, NEW cert, StrictlyTrusted(chain, now, i, cert),
           NEW b \in Bundles, IssueOf[b] = i
    PROVE  VerifyCertificate(cert, chain.caCerts[b], now)
<1>1. PICK n \in DOMAIN chain.caCerts[b] : /\ chain.caCerts[b][n].key = cert.signer
                                           /\ chain.caCerts[b][n].notBefore <= now
                                           /\ now < chain.caCerts[b][n].notAfter
  BY DEF StrictlyTrusted
<1>2. chain.caCerts[b][n].notAfter \in Nat /\ now \in Nat
  BY BundleTypes DEF TypesInv, Inv, TypeOK
<1>3. ValidAt(chain.caCerts[b][n], now)  BY <1>1, <1>2 DEF ValidAt
<1> QED  BY <1>1, <1>3 DEF VerifyCertificate, StrictlyTrusted

\* The first certificate of a secret is trusted until it expires.
LEMMA FirstTrusted ==
    ASSUME TypesInv, ListsInv, intact, MaxLateness < CAOverlapInterval, NEW i \in Issues,
           now <= First(i).notAfter
    PROVE  StrictlyTrusted(chain, now, i, First(i))
<1>1. /\ chain \in CertificateChainData /\ Consistent(chain, now)
      /\ Established(chain) /\ NotOverdue(chain, wakeAt)
      /\ 1 \in DOMAIN chain.issued[i].certs
  BY IntactTypes
<1>2. now \in Nat /\ wakeAt \in Nat /\ now <= wakeAt + MaxLateness /\ MaxLateness \in Nat  BY PodTypes
<1>3. ValidAt(First(i), now)  BY <1>1 DEF Consistent, First, ValidAt
<1>4. First(i).signer = chain.ca.cert.key /\ chain.ca.cert.notBefore <= now
  BY <1>1 DEF Consistent, Established, First
<1>5. now < chain.ca.cert.notAfter
  <2>1. chain.ca.cert \in Certificate  BY <1>1, ChainTypes
  <2>2. chain.ca.cert.notAfter \in Nat  BY <2>1 DEF Certificate
  <2>3. wakeAt <= chain.ca.cert.notAfter - CAOverlapInterval  BY <1>1 DEF NotOverdue
  <2> QED  BY <1>2, <2>2, <2>3, OptionsAssumption
<1>6. ASSUME NEW b \in Bundles
      PROVE  \E n \in DOMAIN chain.caCerts[b] : chain.caCerts[b][n] = chain.ca.cert
  <2>1. chain.caCerts[b] # << >> /\ chain.caCerts[b][Len(chain.caCerts[b])] = chain.ca.cert
    BY <1>1 DEF Established
  <2>2. Len(chain.caCerts[b]) \in DOMAIN chain.caCerts[b]  BY <1>1, <2>1, BundleTypes
  <2> QED  BY <2>1, <2>2
<1>7. \A b \in Bundles : \E n \in DOMAIN chain.caCerts[b] :
         /\ chain.caCerts[b][n].key = First(i).signer
         /\ chain.caCerts[b][n].notBefore <= now
         /\ now < chain.caCerts[b][n].notAfter
  BY <1>4, <1>5, <1>6
<1> QED  BY <1>3, <1>7 DEF StrictlyTrusted

\* Until they expire, polling VerifyTLS succeeds.
LEMMA ChainReady ==
    ASSUME TypesInv, ListsInv, intact, MaxLateness < CAOverlapInterval, NEW i \in Issues,
           now <= First(i).notAfter
    PROVE  Verify(chain, now)
<1>1. /\ chain \in CertificateChainData /\ Consistent(chain, now) /\ Established(chain)
      /\ \A j \in Issues : First(j).notAfter = First(i).notAfter
  BY IntactTypes
<1>2. now \in Nat  BY PodTypes
<1>3. newChain(chain) = chain  BY <1>1, <1>2, NewChainIdentity
<1>4. DOMAIN chain.caCerts = Bundles  BY <1>1, ChainTypes
<1>5. ASSUME NEW b \in Bundles
      PROVE  /\ getLastCert(chain.caCerts[b]) = chain.ca.cert
             /\ VerifyTLS(chain.issued[IssueOf[b]], chain.caCerts[b], now)
  <2>1. IssueOf[b] \in Issues  BY BundlesAssumption
  <2>2. getLastCert(chain.caCerts[b]) = chain.ca.cert  BY <1>1 DEF Established, getLastCert
  <2>3. StrictlyTrusted(chain, now, IssueOf[b], First(IssueOf[b]))  BY <1>1, <2>1, FirstTrusted
  <2>4. VerifyCertificate(First(IssueOf[b]), chain.caCerts[b], now)
    BY <2>1, <2>3, StrictlyTrustedVerifies
  <2> QED  BY <1>1, <2>1, <2>2, <2>4 DEF Established, VerifyTLS, First
<1> QED  BY <1>3, <1>4, <1>5 DEF Verify, verifyTLS

\* Update keeps the CAs that are trusted and not expired.
LEMMA ReconcileTrusted ==
    ASSUME Issues # {}, TypesInv, Reconcile, NEW i \in Issues, NEW cert, StrictlyTrusted(chain, now, i, cert)
    PROVE  StrictlyTrusted(chain', now', i, cert)
<1> DEFINE r == Update(chain, serial + 1, now)
<1>1. chain \in CertificateChainData /\ Consistent(chain, now) /\ now \in Nat /\ serial \in Nat
  BY Types
<1>2. serial + 1 \in Nat \ {0}  BY <1>1
<1>3. Retained(chain, r.data, now)  BY <1>1, <1>2, UpdateEstablishes
<1>4. chain' = r.data /\ now' = now  BY DEF Reconcile
<1> HIDE DEF r
<1>5. ASSUME NEW b \in Bundles, IssueOf[b] = i
      PROVE  \E n \in DOMAIN chain'.caCerts[b] : /\ chain'.caCerts[b][n].key = cert.signer
                                                 /\ chain'.caCerts[b][n].notBefore <= now
                                                 /\ now < chain'.caCerts[b][n].notAfter
  <2>1. PICK n \in DOMAIN chain.caCerts[b] : /\ chain.caCerts[b][n].key = cert.signer
                                             /\ chain.caCerts[b][n].notBefore <= now
                                             /\ now < chain.caCerts[b][n].notAfter
    BY <1>5 DEF StrictlyTrusted
  <2>2. chain.caCerts[b][n].notAfter > now
    <3>1. chain.caCerts[b][n].notAfter \in Nat  BY <1>1, BundleTypes
    <3> QED  BY <1>1, <2>1, <3>1
  <2>3. PICK m \in DOMAIN r.data.caCerts[b] : r.data.caCerts[b][m] = chain.caCerts[b][n]
    BY <1>3, <2>2 DEF Retained
  <2> QED  BY <1>4, <2>1, <2>3
<1> QED  BY <1>4, <1>5 DEF StrictlyTrusted

------------------------------------------------------------------------------------
(* Reconciles.                                                                      *)

\* New key pairs are fresh when they arrive, and the files of all pods are older.
LEMMA ReplacedAwaited ==
    ASSUME RotationsApart, TypesInv, TypesInv', KeysKnown, now' = now, UNCHANGED podVars,
           Replaced(chain', serial + 1, now), NEW i \in Issues
    PROVE  /\ Outdated(i)' /\ SingleFresh(ArrivalBy(i) + 1)'
           /\ First(i)'.notAfter <= now + CertRotateInterval
<1>1. now \in Nat /\ serial \in Nat /\ mounted[i].key \in Nat  BY Types
<1>2. lag[i] \in Nat /\ MountLag \in Nat /\ CertOverlapInterval \in Nat  BY PodTypes
<1>3. mounted' = mounted /\ lag' = lag  BY DEF podVars
<1>4. Truncate(now + CertRotateInterval) \in Nat
      /\ now + MountLag + 1 + 2 * CertOverlapInterval < Truncate(now + CertRotateInterval)
      /\ Truncate(now + CertRotateInterval) <= now + CertRotateInterval
  BY <1>1, NewDate
<1>5. Outdated(i)'
  <2>1. chain'.issued[i].key = serial + 1 /\ mounted[i].key <= serial  BY DEF Replaced, KeysKnown
  <2>2. chain'.issued[i].key # mounted[i].key /\ chain'.issued[i].key # NoKey
    BY <1>1, <2>1 DEF NoKey
  <2> QED  BY <1>3, <2>2 DEF Outdated, NoPair
<1>6. now - lag[i] + MountLag + 1 < Truncate(now + CertRotateInterval) - CertOverlapInterval
  BY <1>1, <1>2, <1>4
<1>7. ASSUME NEW j \in Issues
      PROVE  /\ Len(chain'.issued[j].certs) = 1
             /\ LoadX509KeyPair(chain'.issued[j])
             /\ now' - lag'[i] + MountLag + 1 < chain'.issued[j].certs[1].notAfter - CertOverlapInterval
  <2>1. /\ chain'.issued[j].key = serial + 1
        /\ Len(chain'.issued[j].certs) = 1
        /\ chain'.issued[j].certs[1].key = serial + 1
        /\ chain'.issued[j].certs[1].notAfter = Truncate(now + CertRotateInterval)
    BY DEF Replaced
  <2>2. chain'.issued[j].certs # << >>
    <3>1. chain' \in CertificateChainData  BY DEF TypesInv, Inv, TypeOK
    <3>2. chain'.issued[j].certs \in Seq(Certificate)  BY <3>1, ChainTypes
    <3> QED  BY <2>1, <3>2
  <2>3. serial + 1 # NoKey  BY <1>1 DEF NoKey
  <2>4. LoadX509KeyPair(chain'.issued[j])  BY <2>1, <2>2, <2>3 DEF LoadX509KeyPair
  <2> QED  BY <1>3, <1>6, <2>1, <2>4
<1>8. SingleFresh(ArrivalBy(i) + 1)'  BY <1>7 DEF SingleFresh, ArrivalBy
<1>9. First(i)'.notAfter <= now + CertRotateInterval  BY <1>4 DEF Replaced, First
<1> QED  BY <1>5, <1>8, <1>9

\* So is the certificate that is left of an overlap.
LEMMA DroppedAwaited ==
    ASSUME TypesInv, TypesInv', now' = now, UNCHANGED podVars,
           FirstDropped(chain, chain', now), ListsInv', intact', NEW i \in Issues
    PROVE  /\ SingleFresh(ArrivalBy(i) + 1)'
           /\ First(i)'.notAfter <= now + CertRotateInterval
<1>1. now \in Nat /\ lag[i] \in Nat /\ MountLag \in Nat /\ CertOverlapInterval \in Nat  BY PodTypes
<1>2. lag' = lag  BY DEF podVars
<1>3. ASSUME NEW j \in Issues
      PROVE  /\ Len(chain'.issued[j].certs) = 1
             /\ LoadX509KeyPair(chain'.issued[j])
             /\ now' - lag'[i] + MountLag + 1 < chain'.issued[j].certs[1].notAfter - CertOverlapInterval
  <2>1. /\ Len(chain'.issued[j].certs) = 1
        /\ LoadX509KeyPair(chain'.issued[j])
        /\ now + MountLag + 1 < chain'.issued[j].certs[1].notAfter - CertOverlapInterval
    BY DEF FirstDropped
  <2>2. chain'.issued[j].certs[1].notAfter \in Nat
    <3>1. chain' \in CertificateChainData  BY DEF TypesInv, Inv, TypeOK
    <3>2. chain'.issued[j].certs \in Seq(Certificate)  BY <3>1, ChainTypes
    <3>3. 1 \in DOMAIN chain'.issued[j].certs  BY <2>1, <3>2
    <3> QED  BY <3>2, <3>3, ListTypes
  <2>3. now - lag[i] + MountLag + 1 < chain'.issued[j].certs[1].notAfter - CertOverlapInterval
    BY <1>1, <2>1, <2>2
  <2> QED  BY <1>2, <2>1, <2>3
<1>4. First(i)'.notAfter <= now + CertRotateInterval  BY DEF FirstDropped, First
<1> QED  BY <1>3, <1>4 DEF SingleFresh, ArrivalBy

\* What was fresh for an arrival is fresh now, and a moment later.
LEMMA SingleFreshNow ==
    ASSUME TypesInv, NEW i \in Issues, SingleFresh(ArrivalBy(i) + 1)
    PROVE  SingleFresh(now) /\ SingleFresh(now + 1)
<1>1. now \in Nat /\ lag[i] \in Nat /\ lag[i] <= MountLag /\ MountLag \in Nat /\ CertOverlapInterval \in Nat
  BY PodTypes
<1>2. ASSUME NEW j \in Issues
      PROVE  /\ Len(chain.issued[j].certs) = 1
             /\ LoadX509KeyPair(chain.issued[j])
             /\ now < chain.issued[j].certs[1].notAfter - CertOverlapInterval
             /\ now + 1 < chain.issued[j].certs[1].notAfter - CertOverlapInterval
  <2>1. /\ Len(chain.issued[j].certs) = 1
        /\ LoadX509KeyPair(chain.issued[j])
        /\ now - lag[i] + MountLag + 1 < chain.issued[j].certs[1].notAfter - CertOverlapInterval
    BY DEF SingleFresh, ArrivalBy
  <2>2. chain.issued[j].certs[1].notAfter \in Nat
    <3>1. chain \in CertificateChainData  BY DEF TypesInv, Inv, TypeOK
    <3>2. chain.issued[j].certs \in Seq(Certificate)  BY <3>1, ChainTypes
    <3>3. 1 \in DOMAIN chain.issued[j].certs  BY <2>1, <3>2
    <3> QED  BY <3>2, <3>3, ListTypes
  <2> QED  BY <1>1, <2>1, <2>2
<1> QED  BY <1>2 DEF SingleFresh

\* Server i is trusted with the first certificate until that expires.
LEMMA FirstServed ==
    ASSUME TypesInv, ListsInv, intact, MaxLateness < CAOverlapInterval, NEW i \in Issues,
           now <= First(i).notAfter,
           LoadX509KeyPair(mounted[i]) => mounted[i].certs[1] = First(i),
           server[i] = "serving" /\ ~ event[i] => loaded[i].certs[1] = First(i),
           event[i] => LoadX509KeyPair(mounted[i]) \/ loaded[i].certs[1] = First(i)
    PROVE  ServesTrusted(i)
<1>1. StrictlyTrusted(chain, now, i, First(i))  BY FirstTrusted
<1>2. LoadX509KeyPair(mounted[i]) => StrictlyTrusted(chain, now, i, mounted[i].certs[1])  BY <1>1
<1>3. ASSUME server[i] = "serving", ~ (event[i] /\ LoadX509KeyPair(mounted[i]))
      PROVE  StrictlyTrusted(chain, now, i, loaded[i].certs[1])
  <2>1. loaded[i].certs[1] = First(i)  BY <1>3
  <2> QED  BY <1>1, <2>1
<1> QED  BY <1>2, <1>3 DEF ServesTrusted

\* Whatever a pod serves, there is time for a new key pair to arrive.
LEMMA TimeToArrive ==
    ASSUME TypesInv, ListsInv, intact, MaxLateness < CAOverlapInterval, NEW i \in Issues,
           down[i] <= DownBound, SingleServed(i) \/ PairServed(i)
    PROVE  /\ ServesTrusted(i) \/ RefusedUntil(i, ArrivalBy(i))
           /\ \/ DownUntil(i, ArrivalBy(i) + 1)
              \/ /\ LoadX509KeyPair(mounted[i])
                 /\ DownUntil(i, IF server[i] = "ended" THEN now + 1 ELSE now)
<1>1. /\ now \in Nat /\ wakeAt \in Nat /\ now <= wakeAt + MaxLateness
      /\ refused[i] \in Nat /\ down[i] \in Nat
      /\ lag[i] \in Nat /\ lag[i] <= MountLag
      /\ MountLag \in Nat /\ MaxLateness \in Nat
      /\ event[i] => server[i] = "serving"
  BY PodTypes
<1>2. First(i).notAfter \in Nat /\ wakeAt <= First(i).notAfter  BY IntactTypes
<1>3. RefusedBound(i) \in Nat /\ DownBound \in Nat  BY Bounds
<1>4. /\ RefusedUntil(i, RepairBy) => RefusedUntil(i, ArrivalBy(i))
      /\ Delayed(i) => RefusedUntil(i, ArrivalBy(i))
      /\ DownUntil(i, RepairBy + 1) => DownUntil(i, ArrivalBy(i) + 1)
      /\ DownUntil(i, First(i).notAfter + MaxLateness + MountLag + 1) => DownUntil(i, ArrivalBy(i) + 1)
      /\ DownUntil(i, now)
  BY <1>1, <1>2, <1>3 DEF RefusedUntil, DownUntil, RepairBy, ArrivalBy, Delayed
<1>5. CASE SingleServed(i)
  <2>1. CASE now > First(i).notAfter  BY <1>4, <1>5, <2>1 DEF SingleServed
  <2>2. CASE ~ (now > First(i).notAfter)
    <3>1. ServesTrusted(i) \/ Delayed(i)
      <4> SUFFICES ASSUME ~ Delayed(i) PROVE ServesTrusted(i)
        OBVIOUS
      <4>1. now <= First(i).notAfter  BY <1>1, <1>2, <2>2
      <4>2. LoadX509KeyPair(mounted[i]) /\ mounted[i].certs[1] = First(i)  BY <1>5 DEF SingleServed, First
      <4>3. server[i] = "serving" /\ ~ event[i] => loaded[i].certs[1] = First(i)  BY <1>5 DEF SingleServed
      <4> QED  BY <4>1, <4>2, <4>3, FirstServed
    <3> QED  BY <1>4, <1>5, <3>1 DEF SingleServed
  <2> QED  BY <2>1, <2>2
<1>6. CASE PairServed(i)
  <2>1. DownUntil(i, ArrivalBy(i) + 1)  BY <1>4, <1>6 DEF PairServed
  <2>2. CASE now > First(i).notAfter  BY <1>4, <1>6, <2>1, <2>2 DEF PairServed
  <2>3. CASE ~ (now > First(i).notAfter)
    <3>1. ServesTrusted(i) \/ Delayed(i)
      <4> SUFFICES ASSUME ~ Delayed(i) PROVE ServesTrusted(i)
        OBVIOUS
      <4>1. now <= First(i).notAfter  BY <1>1, <1>2, <2>3
      <4>2. /\ LoadX509KeyPair(mounted[i]) => mounted[i].certs[1] = First(i)
            /\ server[i] = "serving" => loaded[i].certs[1] = First(i)
        BY <1>6 DEF PairServed
      <4> QED  BY <1>1, <4>1, <4>2, FirstServed
    <3> QED  BY <1>4, <2>1, <3>1
  <2> QED  BY <2>2, <2>3
<1> QED  BY <1>5, <1>6

\* A reconcile takes every pod to a phase, whichever it was in.
LEMMA ReconcilePhase ==
    ASSUME Issues # {}, RotationsApart, BriefInv, TypesInv', ListsInv', Reconcile,
           UNCHANGED <<podVars, historyVars>>, NEW i \in Issues,
           \/ Replaced(chain', serial + 1, now)
           \/ /\ intact
              /\ now <= First(i).notAfter
              /\ \/ \A j \in Issues : chain'.issued[j] = chain.issued[j]
                 \/ OverlapBegun(chain, chain', now)
                 \/ FirstDropped(chain, chain', now)
    PROVE  Phase(i)'
<1>0. TypesInv /\ KeysKnown /\ ListsInv /\ Phase(i) /\ MaxLateness < CAOverlapInterval
  BY DEF BriefInv, RotationsApart
<1>1. /\ server' = server /\ mounted' = mounted /\ lag' = lag /\ event' = event /\ loaded' = loaded
      /\ refused' = refused /\ down' = down /\ missed' = missed
      /\ UNCHANGED podVars
  BY DEF podVars, historyVars
<1>2. now' = now /\ faults' = faults /\ intact' = TRUE  BY DEF Reconcile
<1>3. RefusedBound(i)' = RefusedBound(i) /\ DownBound' = DownBound /\ ArrivalBy(i)' = ArrivalBy(i)
  BY <1>1, <1>2 DEF RefusedBound, DownBound, ArrivalBy
<1>4. refused[i] <= RefusedBound(i) /\ down[i] <= DownBound  BY <1>0 DEF Phase
<1>5. /\ now \in Nat /\ wakeAt \in Nat /\ now <= wakeAt + MaxLateness
      /\ refused[i] \in Nat /\ down[i] \in Nat
      /\ lag[i] \in Nat /\ lag[i] <= MountLag
      /\ MountLag \in Nat /\ MaxLateness \in Nat /\ CertOverlapInterval \in Nat
      /\ RefusedBound(i) \in Nat /\ DownBound \in Nat
      /\ CertOverlapInterval + MaxLateness + MountLag + 1 <= DownBound
  BY <1>0, PodTypes, Bounds
<1>6. ServesTrusted(i) => ServesTrusted(i)'
  <2>1. \A cert : StrictlyTrusted(chain, now, i, cert) => StrictlyTrusted(chain', now', i, cert)
    BY <1>0, ReconcileTrusted
  <2> QED  BY <1>1, <2>1 DEF ServesTrusted
<1>7. ASSUME Outdated(i)', SingleFresh(ArrivalBy(i) + 1)',
             First(i)'.notAfter <= now + CertRotateInterval,
             ServesTrusted(i) \/ RefusedUntil(i, ArrivalBy(i)),
             \/ DownUntil(i, ArrivalBy(i) + 1)
             \/ /\ LoadX509KeyPair(mounted[i])
                /\ DownUntil(i, IF server[i] = "ended" THEN now + 1 ELSE now)
      PROVE  Phase(i)'
  <2>1. ServesTrusted(i)' \/ RefusedUntil(i, ArrivalBy(i))'
    BY <1>1, <1>2, <1>3, <1>6, <1>7 DEF RefusedUntil
  <2>2. \/ DownUntil(i, ArrivalBy(i) + 1)'
        \/ /\ LoadX509KeyPair(mounted[i])'
           /\ DownUntil(i, IF server[i] = "ended" THEN now + 1 ELSE now)'
    BY <1>1, <1>2, <1>3, <1>7 DEF DownUntil
  <2>3. Awaited(i)'  BY <1>2, <1>7, <2>1, <2>2 DEF Awaited
  <2> QED  BY <1>1, <1>2, <1>3, <1>4, <2>3 DEF Phase
<1>8. CASE ~ intact
  <2>1. RefusedUntil(i, RepairBy) /\ DownUntil(i, RepairBy + 1)  BY <1>0, <1>8 DEF Phase
  <2>2. RefusedUntil(i, ArrivalBy(i)) /\ DownUntil(i, ArrivalBy(i) + 1)
    BY <1>5, <2>1 DEF RefusedUntil, DownUntil, RepairBy, ArrivalBy
  <2>3. Outdated(i)' /\ SingleFresh(ArrivalBy(i) + 1)' /\ First(i)'.notAfter <= now + CertRotateInterval
    BY <1>0, <1>1, <1>2, <1>8, ReplacedAwaited
  <2> QED  BY <1>7, <2>2, <2>3
<1>9. CASE intact /\ Awaited(i)
  <2>1. CASE Replaced(chain', serial + 1, now)
    <3>1. Outdated(i)' /\ SingleFresh(ArrivalBy(i) + 1)' /\ First(i)'.notAfter <= now + CertRotateInterval
      BY <1>0, <1>1, <1>2, <2>1, ReplacedAwaited
    <3> QED  BY <1>7, <1>9, <3>1 DEF Awaited
  <2>2. CASE \A j \in Issues : chain'.issued[j] = chain.issued[j]
    <3>1. Outdated(i)'  BY <1>1, <1>9, <2>2 DEF Awaited, Outdated
    <3>2. SingleFresh(ArrivalBy(i) + 1)'  BY <1>3, <1>9, <2>2 DEF Awaited, SingleFresh
    <3>3. First(i)'.notAfter <= now + CertRotateInterval  BY <1>9, <2>2 DEF Awaited, First
    <3> QED  BY <1>7, <1>9, <3>1, <3>2, <3>3 DEF Awaited
  <2>3. CASE OverlapBegun(chain, chain', now) \/ FirstDropped(chain, chain', now)
    <3>1. SingleFresh(now)  BY <1>0, <1>9, SingleFreshNow DEF Awaited
    <3>2. now < First(i).notAfter - CertOverlapInterval  BY <3>1 DEF SingleFresh, First
    <3>3. First(i).notAfter \in Nat  BY <1>0, <1>9, IntactTypes
    <3>4. First(i).notAfter - CertOverlapInterval <= now \/ First(i).notAfter = now
      BY <2>3 DEF OverlapBegun, FirstDropped, First
    <3> QED  BY <1>5, <3>2, <3>3, <3>4
  <2> QED  BY <2>1, <2>2, <2>3
<1>10. CASE intact /\ (SingleServed(i) \/ PairServed(i))
  <2>0. /\ ServesTrusted(i) \/ RefusedUntil(i, ArrivalBy(i))
        /\ \/ DownUntil(i, ArrivalBy(i) + 1)
           \/ /\ LoadX509KeyPair(mounted[i])
              /\ DownUntil(i, IF server[i] = "ended" THEN now + 1 ELSE now)
    BY <1>0, <1>4, <1>10, TimeToArrive
  <2>1. CASE Replaced(chain', serial + 1, now)
    <3>1. Outdated(i)' /\ SingleFresh(ArrivalBy(i) + 1)' /\ First(i)'.notAfter <= now + CertRotateInterval
      BY <1>0, <1>1, <1>2, <2>1, ReplacedAwaited
    <3> QED  BY <1>7, <2>0, <3>1
  <2>a. First(i).notAfter \in Nat  BY <1>0, <1>10, IntactTypes
  <2>2. CASE now <= First(i).notAfter /\ FirstDropped(chain, chain', now)
    <3>1. SingleFresh(ArrivalBy(i) + 1)' /\ First(i)'.notAfter <= now + CertRotateInterval
      BY <1>0, <1>1, <1>2, <2>2, DroppedAwaited
    <3>2. /\ First(i).notAfter = now /\ LoadX509KeyPair(chain'.issued[i])
          /\ now + MountLag + 1 < chain'.issued[i].certs[1].notAfter - CertOverlapInterval
      BY <2>2 DEF FirstDropped, First
    <3>3. First(i) # chain'.issued[i].certs[1]
      <4>1. chain'.issued[i].certs[1].notAfter \in Nat
        <5>1. First(i)' = chain'.issued[i].certs[1]  BY DEF First
        <5>2. chain' \in CertificateChainData  BY DEF TypesInv, Inv, TypeOK
        <5>3. chain'.issued[i].certs # << >>  BY <3>2 DEF LoadX509KeyPair
        <5>4. 1 \in DOMAIN chain'.issued[i].certs  BY <5>2, <5>3, IssueTypes
        <5> QED  BY <5>2, <5>4, IssueTypes
      <4> QED  BY <1>5, <3>2, <4>1
    <3>4. mounted[i] # chain'.issued[i]
      <4>1. LoadX509KeyPair(mounted[i]) => mounted[i].certs[1] = First(i)
        BY <1>10 DEF SingleServed, PairServed, First
      <4> QED  BY <3>2, <3>3, <4>1
    <3>5. chain'.issued[i] # NoPair  BY <3>2 DEF NoPair, LoadX509KeyPair
    <3>6. Outdated(i)'  BY <1>1, <3>4, <3>5 DEF Outdated
    <3> QED  BY <1>7, <2>0, <3>1, <3>6
  <2>3. CASE now <= First(i).notAfter /\ \A j \in Issues : chain'.issued[j] = chain.issued[j]
    <3>1. First(i)' = First(i) /\ chain'.issued[i] = chain.issued[i]  BY <2>3 DEF First
    <3>2. \A t : SingleFresh(t) => \A j \in Issues :
                   /\ Len(chain'.issued[j].certs) = 1
                   /\ LoadX509KeyPair(chain'.issued[j])
                   /\ t < chain'.issued[j].certs[1].notAfter - CertOverlapInterval
      BY <2>3 DEF SingleFresh
    <3>3. (SingleFresh(now) => SingleFresh(now)') /\ (SingleFresh(now + 1) => SingleFresh(now + 1)')
      BY <1>2, <3>2 DEF SingleFresh
    <3>4. /\ DownUntil(i, now + 1) => DownUntil(i, now + 1)'
          /\ DownUntil(i, First(i).notAfter + MaxLateness + MountLag + 1)
               => DownUntil(i, First(i).notAfter + MaxLateness + MountLag + 1)'
          /\ Delayed(i) => Delayed(i)'
      BY <1>1, <1>2, <1>3, <3>1 DEF DownUntil, RefusedUntil, Delayed
    <3>5. ~ (now > First(i).notAfter) /\ ~ (now' > First(i)'.notAfter)  BY <1>2, <1>5, <2>a, <2>3, <3>1
    <3>6. SingleServed(i) => SingleServed(i)'
      BY <1>1, <1>2, <3>1, <3>3, <3>4, <3>5 DEF SingleServed
    <3>7. PairServed(i) => PairServed(i)'
      BY <1>1, <1>2, <3>1, <3>4, <3>5 DEF PairServed
    <3> QED  BY <1>1, <1>2, <1>3, <1>4, <1>10, <3>6, <3>7 DEF Phase
  <2>4. CASE now <= First(i).notAfter /\ OverlapBegun(chain, chain', now)
    <3>1. /\ Len(chain.issued[i].certs) = 1
          /\ First(i).notAfter - CertOverlapInterval <= now
          /\ Len(chain'.issued[i].certs) = 2
          /\ First(i)' = First(i)
      BY <2>4 DEF OverlapBegun, First
    <3>2. SingleServed(i)  BY <1>10, <3>1 DEF PairServed
    <3>3. ~ SingleFresh(now) /\ ~ SingleFresh(now + 1)
      BY <1>5, <2>a, <3>1 DEF SingleFresh, First
    <3>4. ~ (now > First(i).notAfter) /\ ~ (now' > First(i)'.notAfter)  BY <1>2, <1>5, <2>a, <2>4, <3>1
    <3>5. down[i] = 0  BY <1>5, <3>2, <3>3, <3>4 DEF SingleServed
    <3>6. /\ mounted[i].certs[1] = First(i)
          /\ server[i] = "serving" => loaded[i].certs[1] = First(i) \/ Delayed(i)
          /\ Delayed(i) => Delayed(i)'
      BY <1>1, <1>2, <1>3, <3>1, <3>2, <3>3 DEF SingleServed, First, RefusedUntil, Delayed
    <3>7. DownUntil(i, First(i).notAfter + MaxLateness + MountLag + 1)'
      BY <1>1, <1>2, <1>3, <1>5, <2>a, <3>1, <3>5 DEF DownUntil
    <3>8. PairServed(i)'  BY <1>1, <3>1, <3>4, <3>6, <3>7 DEF PairServed
    <3> QED  BY <1>1, <1>2, <1>3, <1>4, <3>8 DEF Phase
  <2> QED  BY <2>1, <2>2, <2>3, <2>4
<1> QED  BY <1>0, <1>8, <1>9, <1>10 DEF Phase

\* A reconcile keeps the invariant.
LEMMA ReconcileBrief ==
    ASSUME Issues # {}, RotationsApart, BriefInv, TypesInv', Reconcile, UNCHANGED <<podVars, historyVars>>
    PROVE  BriefInv'
<1> DEFINE e == Update(chain, serial + 1, now).data
<1>0. TypesInv /\ KeysKnown /\ CALast(chain, serial) /\ BrokenInv /\ ListsInv  BY DEF BriefInv
<1>1. PICK i0 \in Issues : TRUE  OBVIOUS
<1>2. /\ chain \in CertificateChainData /\ Consistent(chain, now) /\ now \in Nat /\ serial \in Nat
  BY <1>0, <1>1, Types
<1>3. /\ chain' = e /\ now' = now /\ intact' = TRUE
      /\ serial' = IF Rotates(chain, now) THEN serial + 1 ELSE serial
      /\ mounted' = mounted
  BY DEF Reconcile, podVars
<1>4. serial + 1 \in Nat \ {0}  BY <1>2
<1>5. CALast(chain', serial')  BY <1>0, <1>2, <1>3, UpdateCALast
<1>6. KeysKnown'  BY <1>0, <1>3, ReconcileKeys
<1>7. /\ Alike(chain', now)
      /\ \/ Replaced(chain', serial + 1, now)
         \/ /\ intact
            /\ \A j \in Issues : now <= First(j).notAfter
            /\ \/ \A j \in Issues : chain'.issued[j] = chain.issued[j]
               \/ OverlapBegun(chain, chain', now)
               \/ FirstDropped(chain, chain', now)
  <2>1. CASE intact
    <3>1. Established(chain)  BY <1>0, <2>1 DEF TypesInv, Inv
    <3>2. Alike(chain, now)  BY <1>0, <2>1 DEF ListsInv
    <3>3. /\ Alike(e, now)
          /\ \/ Replaced(e, serial + 1, now)
             \/ /\ \A j \in Issues : now <= chain.issued[j].certs[1].notAfter
                /\ \/ \A j \in Issues : e.issued[j] = chain.issued[j]
                   \/ OverlapBegun(chain, e, now)
                   \/ FirstDropped(chain, e, now)
      <4> HIDE DEF e
      <4> QED  BY <1>2, <1>4, <3>1, <3>2, UpdateLists DEF e
    <3> HIDE DEF e
    <3> QED  BY <1>3, <2>1, <3>3 DEF First
  <2>2. CASE ~ intact
    <3>1. ~ Established(chain)  BY <1>0, <2>2 DEF BrokenInv
    <3>2. Replaced(e, serial + 1, now) /\ Alike(e, now)
      <4> HIDE DEF e
      <4> QED  BY <1>2, <1>4, <3>1, BrokenReplaced DEF e
    <3> HIDE DEF e
    <3> QED  BY <1>3, <3>2
  <2> QED  BY <2>1, <2>2
<1> HIDE DEF e
<1>8. ListsInv'  BY <1>3, <1>7 DEF ListsInv
<1>9. BrokenInv'  BY <1>3 DEF BrokenInv
<1>10. ASSUME NEW i \in Issues PROVE Phase(i)'
  <2>1. \/ Replaced(chain', serial + 1, now)
        \/ /\ intact
           /\ now <= First(i).notAfter
           /\ \/ \A j \in Issues : chain'.issued[j] = chain.issued[j]
              \/ OverlapBegun(chain, chain', now)
              \/ FirstDropped(chain, chain', now)
    BY <1>7
  <2> QED  BY <1>8, <2>1, ReconcilePhase
<1> QED  BY <1>5, <1>6, <1>8, <1>9, <1>10 DEF BriefInv

------------------------------------------------------------------------------------
(* Interferences.                                                                   *)

\* Every interference breaks the chain and leaves the CA where it was in the bundles.
LEMMA LossBreaks ==
    ASSUME Inv, CALast(chain, serial),
           \/ LoseCA
           \/ \E i \in Issues : LoseService(i)
           \/ \E b \in Bundles : LoseBundle(b)
    PROVE  CALast(chain', serial) /\ ~ Established(chain')
<1>1. chain \in CertificateChainData /\ Consistent(chain, now)  BY DEF Inv, TypeOK
<1>2. /\ chain = [ca |-> chain.ca, issued |-> chain.issued, caCerts |-> chain.caCerts]
      /\ DOMAIN chain.issued = Issues /\ DOMAIN chain.caCerts = Bundles
      /\ \A b \in Bundles : chain.caCerts[b] \in Seq(Certificate)
  BY <1>1, ChainTypes
<1>3. CASE LoseCA
  <2>1. PICK cert \in {NoCert, chain.ca.cert} :
               chain' = [chain EXCEPT !.ca = [key |-> NoKey, cert |-> cert]]
    BY <1>3 DEF LoseCA
  <2>2. chain'.caCerts = chain.caCerts /\ chain'.ca.cert = cert /\ chain'.ca.key = NoKey
    BY <1>2, <2>1
  <2>3. ASSUME NEW b \in Bundles, NEW n \in DOMAIN chain'.caCerts[b]
        PROVE  /\ chain'.caCerts[b][n].key <= serial
               /\ chain'.caCerts[b][n] = chain'.ca.cert => n = Len(chain'.caCerts[b])
    <3>1. n \in DOMAIN chain.caCerts[b]  BY <2>2
    <3>2. chain.caCerts[b][n].key # NoKey  BY <1>1, <3>1 DEF Consistent
    <3>3. chain.caCerts[b][n] # NoCert  BY <3>2 DEF NoCert
    <3> QED  BY <2>2, <3>1, <3>3 DEF CALast
  <2> QED  BY <2>2, <2>3 DEF CALast, Established
<1>4. ASSUME NEW i \in Issues, LoseService(i)
      PROVE  CALast(chain', serial) /\ ~ Established(chain')
  <2>1. PICK key \in {NoKey, chain.issued[i].key}, certs \in {<< >>, chain.issued[i].certs} :
               /\ key = NoKey \/ certs = << >>
               /\ chain' = [chain EXCEPT !.issued[i] = [key |-> key, certs |-> certs]]
    BY <1>4 DEF LoseService
  <2>2. /\ chain'.ca = chain.ca /\ chain'.caCerts = chain.caCerts
        /\ chain'.issued[i] = [key |-> key, certs |-> certs]
    BY <1>2, <2>1
  <2> QED  BY <2>1, <2>2 DEF CALast, Established
<1>5. ASSUME NEW b \in Bundles, LoseBundle(b)
      PROVE  CALast(chain', serial) /\ ~ Established(chain')
  <2> DEFINE old == chain.caCerts[b]
  <2>1. PICK bundle \in {<< >>, SubSeq(old, 1, Len(old) - 1)} :
               chain' = [chain EXCEPT !.caCerts[b] = bundle]
    BY <1>5 DEF LoseBundle
  <2>2. /\ chain'.ca = chain.ca /\ chain'.caCerts[b] = bundle
        /\ \A c \in Bundles \ {b} : chain'.caCerts[c] = chain.caCerts[c]
    BY <1>2, <2>1
  <2>3. old \in Seq(Certificate) /\ Len(old) \in Nat /\ DOMAIN old = 1..Len(old)  BY <1>2
  <2>4. \A n \in DOMAIN old : old[n].key <= serial /\ (old[n] = chain.ca.cert => n = Len(old))
    BY DEF CALast
  <2> HIDE DEF old
  <2>5. ASSUME NEW n \in DOMAIN bundle
        PROVE  n \in DOMAIN old /\ bundle[n] = old[n] /\ n # Len(old)
    <3>1. bundle = SubSeq(old, 1, Len(old) - 1)
      <4>1. DOMAIN << >> = {}  OBVIOUS
      <4> QED  BY <2>1, <4>1
    <3>2. CASE Len(old) = 0
      <4>1. bundle = << >>  BY <2>3, <3>1, <3>2
      <4> QED  BY <4>1
    <3>3. CASE Len(old) > 0
      <4>1. Len(bundle) = Len(old) - 1 /\ DOMAIN bundle = 1..(Len(old) - 1)
        BY <2>3, <3>1, <3>3
      <4>2. n \in 1..(Len(old) - 1)  BY <4>1
      <4>3. bundle[n] = old[n]  BY <2>3, <3>1, <3>3, <4>2
      <4> QED  BY <2>3, <4>2, <4>3
    <3> QED  BY <2>3, <3>2, <3>3
  <2>6. \A n \in DOMAIN bundle : bundle[n].key <= serial /\ bundle[n] # chain.ca.cert
    BY <2>4, <2>5
  <2>7. CALast(chain', serial)
    <3>1. ASSUME NEW c \in Bundles, NEW n \in DOMAIN chain'.caCerts[c]
          PROVE  /\ chain'.caCerts[c][n].key <= serial
                 /\ chain'.caCerts[c][n] = chain'.ca.cert => n = Len(chain'.caCerts[c])
      <4>1. CASE c = b  BY <2>2, <2>6, <4>1
      <4>2. CASE c # b
        <5>1. chain'.caCerts[c] = chain.caCerts[c]  BY <2>2, <4>2
        <5> QED  BY <2>2, <5>1 DEF CALast
      <4> QED  BY <4>1, <4>2
    <3> QED  BY <3>1 DEF CALast
  <2>8. ~ Established(chain')
    <3> SUFFICES ASSUME bundle # << >>, bundle[Len(bundle)] = chain.ca.cert PROVE FALSE
      BY <2>2 DEF Established
    <3>1. bundle \in Seq(Certificate)
      <4>1. bundle = SubSeq(old, 1, Len(old) - 1)  BY <2>1
      <4>2. Len(old) # 0
        <5>1. Len(old) = 0 => bundle = << >>  BY <2>3, <4>1
        <5> QED  BY <5>1
      <4> QED  BY <2>3, <4>1, <4>2
    <3>2. Len(bundle) \in DOMAIN bundle  BY <3>1, ListTypes
    <3> QED  BY <2>6, <3>2
  <2> QED  BY <2>7, <2>8
<1> QED  BY <1>3, <1>4, <1>5

\* An interference keeps the invariant: it adds the time of a repair to the bounds.
LEMMA LossBrief ==
    ASSUME BriefInv, TypesInv', UNCHANGED <<podVars, historyVars>>,
           \/ LoseCA
           \/ \E i \in Issues : LoseService(i)
           \/ \E b \in Bundles : LoseBundle(b)
    PROVE  BriefInv'
<1>0. TypesInv /\ Inv /\ KeysKnown /\ CALast(chain, serial) /\ BrokenInv
  BY DEF BriefInv, TypesInv
<1>1. Interfere  BY DEF LoseCA, LoseService, LoseBundle
<1>2. /\ faults' = faults + 1 /\ serial' = serial /\ now' = now /\ intact' = FALSE
      /\ wakeAt' = (IF wakeAt > now THEN now ELSE wakeAt)
  BY <1>1 DEF Interfere
<1>3. mounted' = mounted /\ refused' = refused /\ down' = down /\ missed' = missed  BY DEF podVars, historyVars
<1>4. KeysKnown'  BY <1>0, <1>3, LossKeys
<1>5. CALast(chain', serial') /\ ~ Established(chain')  BY <1>0, <1>2, LossBreaks
<1>6. now \in Nat /\ wakeAt \in Nat /\ wakeAt' <= now' /\ wakeAt' \in Nat
  <2>1. now \in Nat /\ wakeAt \in Nat  BY <1>0 DEF Inv, TypeOK
  <2> QED  BY <1>2, <2>1
<1>7. BrokenInv' /\ ListsInv'  BY <1>2, <1>5, <1>6 DEF BrokenInv, ListsInv
<1>8. ASSUME NEW i \in Issues PROVE Phase(i)'
  <2>1. refused[i] <= RefusedBound(i) /\ down[i] <= DownBound  BY DEF BriefInv, Phase
  <2>2. /\ RefusedBound(i)' = RefusedBound(i) + MaxLateness + MountLag
        /\ DownBound' = DownBound + MaxLateness + MountLag + 1
    BY <1>0, <1>2, <1>3, BoundsGrow
  <2>3. /\ refused[i] \in Nat /\ down[i] \in Nat /\ MountLag \in Nat /\ MaxLateness \in Nat
        /\ RefusedBound(i) \in Nat /\ DownBound \in Nat
    BY <1>0, PodTypes, Bounds
  <2>4. RefusedUntil(i, RepairBy)' /\ DownUntil(i, RepairBy + 1)'
    BY <1>2, <1>3, <1>6, <2>1, <2>2, <2>3 DEF RefusedUntil, DownUntil, RepairBy
  <2>5. refused'[i] <= RefusedBound(i)' /\ down'[i] <= DownBound'  BY <1>3, <2>1, <2>2, <2>3
  <2> QED  BY <1>2, <2>4, <2>5 DEF Phase
<1> QED  BY <1>4, <1>5, <1>7, <1>8 DEF BriefInv

------------------------------------------------------------------------------------
(* The passing of time.                                                             *)

\* A server that serves what clients trust is not refused.
LEMMA TrustedNotRefused ==
    ASSUME TypesInv, NEW i \in Issues,
           server[i] = "serving" => StrictlyTrusted(chain, now, i, loaded[i].certs[1])
    PROVE  ~ Refused(i)
<1> SUFFICES ASSUME Refused(i) PROVE FALSE
  OBVIOUS
<1>1. PICK b \in Bundles : IssueOf[b] = i /\ ~ VerifyCertificate(loaded[i].certs[1], chain.caCerts[b], now)
  BY DEF Refused
<1>2. StrictlyTrusted(chain, now, i, loaded[i].certs[1])  BY DEF Refused
<1> QED  BY <1>1, <1>2, StrictlyTrustedVerifies

\* A moment takes every pod to a phase; it counts where clients refuse it or it is down.
LEMMA TimePassesPhase ==
    ASSUME RotationsApart, BriefInv, TypesInv', TimePasses, NEW i \in Issues
    PROVE  Phase(i)'
<1>0. TypesInv /\ ListsInv /\ Phase(i) /\ MaxLateness < CAOverlapInterval
  BY DEF BriefInv, RotationsApart
<1>1. /\ mounted' = mounted /\ event' = event /\ loaded' = loaded /\ missed' = missed
      /\ lag' = [j \in Issues |-> IF Outdated(j) THEN lag[j] + 1 ELSE 0]
      /\ server' = [j \in Issues |-> IF server[j] = "ended" THEN "waiting" ELSE server[j]]
      /\ refused' = [j \in Issues |-> IF Refused(j) THEN refused[j] + 1 ELSE 0]
      /\ down' = [j \in Issues |-> IF server[j] # "serving" THEN down[j] + 1 ELSE 0]
      /\ ~ event[i] /\ server[i] # "starting" /\ ~ TLSReady(i) /\ (Outdated(i) => lag[i] < MountLag)
      /\ Tick
  BY DEF TimePasses
<1>2. /\ now' = now + 1 /\ now < wakeAt + MaxLateness
      /\ chain' = chain /\ wakeAt' = wakeAt /\ intact' = intact /\ faults' = faults
  BY <1>1 DEF Tick
<1>3. /\ lag'[i] = (IF Outdated(i) THEN lag[i] + 1 ELSE 0)
      /\ server'[i] = (IF server[i] = "ended" THEN "waiting" ELSE server[i])
      /\ refused'[i] = (IF Refused(i) THEN refused[i] + 1 ELSE 0)
      /\ down'[i] = (IF server[i] # "serving" THEN down[i] + 1 ELSE 0)
      /\ ~ event'[i] /\ mounted'[i] = mounted[i] /\ loaded'[i] = loaded[i]
  BY <1>1
<1>4. RefusedBound(i)' = RefusedBound(i) /\ DownBound' = DownBound /\ RepairBy' = RepairBy
      /\ First(i)' = First(i) /\ chain'.issued[i] = chain.issued[i]
  BY <1>1, <1>2 DEF RefusedBound, DownBound, RepairBy, First
<1>5. /\ now \in Nat /\ wakeAt \in Nat /\ now <= wakeAt + MaxLateness
      /\ refused[i] \in Nat /\ down[i] \in Nat
      /\ lag[i] \in Nat /\ lag[i] <= MountLag
      /\ MountLag \in Nat /\ MaxLateness \in Nat /\ CertOverlapInterval \in Nat
      /\ CertRotateInterval \in Nat
      /\ server[i] \in {"waiting", "starting", "serving", "ended"}
      /\ RefusedBound(i) \in Nat /\ DownBound \in Nat
      /\ MaxLateness + MountLag <= RefusedBound(i)
      /\ CertOverlapInterval + MaxLateness + MountLag + 1 <= DownBound
  BY <1>0, PodTypes, Bounds
<1>6. ASSUME NEW t \in Int, refused[i] + (t - now) <= RefusedBound(i), now < t
      PROVE  refused'[i] + (t - now') <= RefusedBound(i) /\ refused'[i] <= RefusedBound(i)
  BY <1>2, <1>3, <1>5, <1>6
<1>7. ASSUME NEW t \in Int, down[i] + (t - now) <= DownBound, now < t
      PROVE  down'[i] + (t - now') <= DownBound /\ down'[i] <= DownBound
  BY <1>2, <1>3, <1>5, <1>7
<1>a. ASSUME intact, Delayed(i)
      PROVE  /\ Delayed(i)' /\ refused'[i] <= RefusedBound(i)
             /\ RefusedUntil(i, RepairBy)'
  <2> DEFINE t == First(i).notAfter + MaxLateness + MountLag
  <2>1. First(i).notAfter \in Nat /\ wakeAt <= First(i).notAfter  BY <1>0, <1>a, IntactTypes
  <2>2. t \in Int /\ now < t /\ RepairBy \in Int /\ RepairBy <= t /\ now' \in Int
    BY <1>2, <1>5, <2>1 DEF RepairBy
  <2>3. refused[i] + (t - now) <= RefusedBound(i)  BY <1>a DEF Delayed, RefusedUntil
  <2>4. refused'[i] \in Nat  BY <1>3, <1>5
  <2>5. Delayed(i)' <=> refused'[i] + (t - now') <= RefusedBound(i)
    BY <1>4 DEF Delayed, RefusedUntil
  <2> HIDE DEF t
  <2>6. refused'[i] + (t - now') <= RefusedBound(i) /\ refused'[i] <= RefusedBound(i)
    BY <1>6, <2>2, <2>3
  <2>7. refused'[i] + (RepairBy - now') <= RefusedBound(i)  BY <1>5, <2>2, <2>4, <2>6
  <2> QED  BY <1>4, <2>5, <2>6, <2>7 DEF RefusedUntil
<1>8. CASE ~ intact
  <2>1. RefusedUntil(i, RepairBy) /\ DownUntil(i, RepairBy + 1)  BY <1>0, <1>8 DEF Phase
  <2>2. RepairBy \in Int /\ RepairBy + 1 \in Int /\ now < RepairBy /\ now < RepairBy + 1
    BY <1>2, <1>5 DEF RepairBy
  <2>3. /\ refused'[i] + (RepairBy - now') <= RefusedBound(i) /\ refused'[i] <= RefusedBound(i)
        /\ down'[i] + ((RepairBy + 1) - now') <= DownBound /\ down'[i] <= DownBound
    BY <1>6, <1>7, <2>1, <2>2 DEF RefusedUntil, DownUntil
  <2> QED  BY <1>2, <1>4, <1>8, <2>3 DEF Phase, RefusedUntil, DownUntil
<1>9. CASE intact /\ Awaited(i)
  <2>1. Outdated(i) /\ lag[i] < MountLag /\ lag'[i] = lag[i] + 1  BY <1>1, <1>3, <1>9 DEF Awaited
  <2>2. Outdated(i)'  BY <1>2, <1>3, <2>1 DEF Outdated
  <2>3. /\ ArrivalBy(i)' = ArrivalBy(i) /\ ArrivalBy(i) \in Int /\ now < ArrivalBy(i)
        /\ ArrivalBy(i) + 1 \in Int /\ now < ArrivalBy(i) + 1
        /\ ArrivalBy(i) - now' <= MountLag /\ (ArrivalBy(i) + 1) - now' <= MountLag + 1
    BY <1>2, <1>5, <2>1 DEF ArrivalBy
  <2>4. SingleFresh(ArrivalBy(i) + 1)'  BY <1>2, <1>9, <2>3 DEF Awaited, SingleFresh
  <2>5. RefusedUntil(i, ArrivalBy(i))' /\ refused'[i] <= RefusedBound(i)
    <3>1. CASE RefusedUntil(i, ArrivalBy(i))
      <4>1. refused[i] + (ArrivalBy(i) - now) <= RefusedBound(i)  BY <3>1 DEF RefusedUntil
      <4>2. refused'[i] + (ArrivalBy(i) - now') <= RefusedBound(i) /\ refused'[i] <= RefusedBound(i)
        BY <1>6, <2>3, <4>1
      <4> QED  BY <1>4, <2>3, <4>2 DEF RefusedUntil
    <3>2. CASE ServesTrusted(i)
      <4>1. server[i] = "serving" => StrictlyTrusted(chain, now, i, loaded[i].certs[1])
        BY <1>1, <3>2 DEF ServesTrusted
      <4>2. ~ Refused(i)  BY <1>0, <4>1, TrustedNotRefused
      <4>3. refused'[i] = 0  BY <1>3, <4>2
      <4>4. 0 + (ArrivalBy(i) - now') <= RefusedBound(i)
        <5>1. now' \in Int  BY <1>2, <1>5
        <5> QED  BY <1>5, <2>3, <5>1
      <4> QED  BY <1>4, <1>5, <2>3, <4>3, <4>4 DEF RefusedUntil
    <3> QED  BY <1>9, <3>1, <3>2 DEF Awaited
  <2>6. /\ down'[i] <= DownBound
        /\ \/ DownUntil(i, ArrivalBy(i) + 1)'
           \/ /\ LoadX509KeyPair(mounted[i])'
              /\ DownUntil(i, IF server[i] = "ended" THEN now + 1 ELSE now)'
    <3>1. CASE DownUntil(i, ArrivalBy(i) + 1)
      <4>1. down[i] + ((ArrivalBy(i) + 1) - now) <= DownBound  BY <3>1 DEF DownUntil
      <4>2. down'[i] + ((ArrivalBy(i) + 1) - now') <= DownBound /\ down'[i] <= DownBound
        BY <1>7, <2>3, <4>1
      <4> QED  BY <1>4, <2>3, <4>2 DEF DownUntil
    <3>2. CASE /\ LoadX509KeyPair(mounted[i])
               /\ DownUntil(i, IF server[i] = "ended" THEN now + 1 ELSE now)
      <4>1. server[i] # "waiting"
        <5>1. SingleFresh(now)  BY <1>0, <1>9, SingleFreshNow DEF Awaited
        <5>2. First(i).notAfter \in Nat  BY <1>0, <1>9, IntactTypes
        <5>3. now <= First(i).notAfter  BY <1>5, <5>1, <5>2 DEF SingleFresh, First
        <5>4. Verify(chain, now)  BY <1>0, <1>9, <5>3, ChainReady
        <5> QED  BY <1>1, <5>4 DEF TLSReady
      <4>2. CASE server[i] = "serving"
        <5>1. down'[i] = 0  BY <1>3, <4>2
        <5>2. 0 + ((ArrivalBy(i) + 1) - now') <= DownBound
          <6>1. now' \in Int  BY <1>2, <1>5
          <6> QED  BY <1>5, <2>3, <6>1
        <5> QED  BY <1>4, <1>5, <2>3, <5>1, <5>2 DEF DownUntil
      <4>3. CASE server[i] = "ended"
        <5>1. down[i] + ((now + 1) - now) <= DownBound  BY <3>2, <4>3 DEF DownUntil
        <5>2. down'[i] = down[i] + 1 /\ server'[i] = "waiting"  BY <1>3, <4>3
        <5>3. down'[i] <= DownBound /\ down'[i] + (now' - now') <= DownBound
          BY <1>2, <1>5, <5>1, <5>2
        <5>4. DownUntil(i, IF server[i] = "ended" THEN now + 1 ELSE now)'
          BY <1>4, <5>2, <5>3 DEF DownUntil
        <5> QED  BY <1>3, <3>2, <5>3, <5>4
      <4> QED  BY <1>1, <1>5, <4>1, <4>2, <4>3
    <3> QED  BY <1>9, <3>1, <3>2 DEF Awaited
  <2>7. First(i)'.notAfter <= now' + CertRotateInterval
    <3>1. First(i).notAfter \in Nat  BY <1>0, <1>9, IntactTypes
    <3>2. First(i).notAfter <= now + CertRotateInterval  BY <1>9 DEF Awaited
    <3> QED  BY <1>2, <1>4, <1>5, <3>1, <3>2
  <2>8. Awaited(i)'  BY <2>2, <2>4, <2>5, <2>6, <2>7 DEF Awaited
  <2> QED  BY <1>2, <1>4, <1>9, <2>5, <2>6, <2>8 DEF Phase
<1>10. CASE intact /\ SingleServed(i)
  <2>1. /\ Len(chain.issued[i].certs) = 1 /\ mounted[i] = chain.issued[i] /\ LoadX509KeyPair(mounted[i])
        /\ server[i] = "serving" => loaded[i].certs[1] = First(i) \/ Delayed(i)
        /\ server[i] = "ended" => SingleFresh(now + 1) /\ DownUntil(i, now + 1)
    BY <1>1, <1>10 DEF SingleServed
  <2>2. /\ First(i).notAfter \in Nat /\ wakeAt <= First(i).notAfter - CertOverlapInterval
    BY <1>0, <1>10, <2>1, IntactTypes
  <2>3. server'[i] # "ended" /\ (server'[i] = "serving" => loaded'[i].certs[1] = First(i)' \/ Delayed(i)')
    BY <1>3, <1>4, <1>10, <1>a, <2>1
  <2>4. ASSUME refused'[i] <= RefusedBound(i), down'[i] <= DownBound,
               IF now' > First(i)'.notAfter
                 THEN RefusedUntil(i, RepairBy)' /\ DownUntil(i, RepairBy + 1)'
                 ELSE down'[i] > 0 => SingleFresh(now)'
        PROVE  Phase(i)'
    <3>1. SingleServed(i)'
      BY <1>3, <1>4, <2>1, <2>3, <2>4 DEF SingleServed
    <3> QED  BY <1>2, <1>4, <1>10, <2>4, <3>1 DEF Phase
  <2>5. CASE now > First(i).notAfter
    <3>1. RefusedUntil(i, RepairBy) /\ DownUntil(i, RepairBy + 1)  BY <1>10, <2>5 DEF SingleServed
    <3>2. RepairBy \in Int /\ RepairBy + 1 \in Int /\ now < RepairBy /\ now < RepairBy + 1
      BY <1>2, <1>5 DEF RepairBy
    <3>3. /\ refused'[i] + (RepairBy - now') <= RefusedBound(i) /\ refused'[i] <= RefusedBound(i)
          /\ down'[i] + ((RepairBy + 1) - now') <= DownBound /\ down'[i] <= DownBound
      BY <1>6, <1>7, <3>1, <3>2 DEF RefusedUntil, DownUntil
    <3>4. RefusedUntil(i, RepairBy)' /\ DownUntil(i, RepairBy + 1)'
      BY <1>4, <3>3 DEF RefusedUntil, DownUntil
    <3>5. now' > First(i)'.notAfter  BY <1>2, <1>4, <1>5, <2>2, <2>5
    <3> QED  BY <2>4, <3>3, <3>4, <3>5
  <2>6. CASE ~ (now > First(i).notAfter)
    <3>1. now <= First(i).notAfter  BY <1>5, <2>2, <2>6
    <3>2. refused'[i] = 0 \/ Delayed(i)
      <4> SUFFICES ASSUME ~ Delayed(i) PROVE refused'[i] = 0
        OBVIOUS
      <4>1. StrictlyTrusted(chain, now, i, First(i))  BY <1>0, <1>10, <3>1, FirstTrusted
      <4>2. ~ Refused(i)  BY <1>0, <2>1, <4>1, TrustedNotRefused
      <4> QED  BY <1>3, <4>2
    <3>6. refused'[i] <= RefusedBound(i)  BY <1>5, <1>10, <1>a, <3>2
    <3>3. server[i] # "waiting"
      <4>1. Verify(chain, now)  BY <1>0, <1>10, <3>1, ChainReady
      <4> QED  BY <1>1, <4>1 DEF TLSReady
    <3>4. CASE server[i] = "ended"
      <4>1. SingleFresh(now + 1) /\ DownUntil(i, now + 1)  BY <2>1, <3>4
      <4>2. now + 1 < First(i).notAfter - CertOverlapInterval  BY <4>1 DEF SingleFresh, First
      <4>3. ~ (now' > First(i)'.notAfter)  BY <1>2, <1>4, <1>5, <2>2, <4>2
      <4>4. down[i] + ((now + 1) - now) <= DownBound  BY <4>1 DEF DownUntil
      <4>5. down'[i] <= DownBound /\ refused'[i] <= RefusedBound(i)
        BY <1>3, <1>5, <3>4, <3>6, <4>4
      <4>6. SingleFresh(now)'  BY <1>2, <4>1 DEF SingleFresh
      <4> QED  BY <2>4, <4>3, <4>5, <4>6
    <3>5. CASE server[i] = "serving"
      <4>1. down'[i] = 0  BY <1>3, <3>5
      <4>2. down'[i] <= DownBound /\ refused'[i] <= RefusedBound(i) /\ ~ (down'[i] > 0)
        BY <1>5, <3>6, <4>1
      <4>3. ASSUME now' > First(i)'.notAfter
            PROVE  RefusedUntil(i, RepairBy)' /\ DownUntil(i, RepairBy + 1)'
        <5>1. now + 1 > First(i).notAfter  BY <1>2, <1>4, <4>3
        <5>2. /\ 0 + ((wakeAt + MaxLateness + MountLag) - (now + 1)) <= RefusedBound(i)
              /\ 0 + ((wakeAt + MaxLateness + MountLag + 1) - (now + 1)) <= DownBound
          BY <1>5, <2>2, <5>1
        <5>3. RefusedUntil(i, RepairBy)'
          BY <1>2, <1>4, <1>10, <1>a, <3>2, <5>2 DEF RefusedUntil, RepairBy
        <5> QED  BY <1>2, <1>4, <4>1, <5>2, <5>3 DEF DownUntil, RepairBy
      <4> QED  BY <2>4, <4>2, <4>3
    <3> QED  BY <1>1, <1>5, <3>3, <3>4, <3>5
  <2> QED  BY <2>5, <2>6
<1>11. CASE intact /\ PairServed(i)
  <2>1. /\ Len(chain.issued[i].certs) = 2
        /\ LoadX509KeyPair(mounted[i]) => mounted[i].certs[1] = First(i)
        /\ server[i] = "serving" => loaded[i].certs[1] = First(i) \/ Delayed(i)
        /\ now > First(i).notAfter => RefusedUntil(i, RepairBy)
        /\ DownUntil(i, First(i).notAfter + MaxLateness + MountLag + 1)
    BY <1>11 DEF PairServed
  <2>2. First(i).notAfter \in Nat /\ wakeAt <= First(i).notAfter  BY <1>0, <1>11, IntactTypes
  <2>3. DownUntil(i, First(i).notAfter + MaxLateness + MountLag + 1)' /\ down'[i] <= DownBound
    <3> DEFINE t == First(i).notAfter + MaxLateness + MountLag + 1
    <3>1. t \in Int /\ now < t  BY <1>2, <1>5, <2>2
    <3>2. down[i] + (t - now) <= DownBound  BY <2>1 DEF DownUntil
    <3> HIDE DEF t
    <3>3. down'[i] + (t - now') <= DownBound /\ down'[i] <= DownBound  BY <1>7, <3>1, <3>2
    <3> QED  BY <1>4, <3>3 DEF DownUntil, t
  <2>4. refused'[i] <= RefusedBound(i) /\ (now' > First(i)'.notAfter => RefusedUntil(i, RepairBy)')
    <3>1. CASE now > First(i).notAfter
      <4>1. refused[i] + (RepairBy - now) <= RefusedBound(i)  BY <2>1, <3>1 DEF RefusedUntil
      <4>2. RepairBy \in Int /\ now < RepairBy  BY <1>2, <1>5 DEF RepairBy
      <4>3. refused'[i] + (RepairBy - now') <= RefusedBound(i) /\ refused'[i] <= RefusedBound(i)
        BY <1>6, <4>1, <4>2
      <4> QED  BY <1>4, <4>3 DEF RefusedUntil
    <3>2. CASE Delayed(i)  BY <1>11, <1>a, <3>2
    <3>3. CASE ~ (now > First(i).notAfter) /\ ~ Delayed(i)
      <4>1. now <= First(i).notAfter  BY <1>5, <2>2, <3>3
      <4>2. StrictlyTrusted(chain, now, i, First(i))  BY <1>0, <1>11, <4>1, FirstTrusted
      <4>3. ~ Refused(i)  BY <1>0, <2>1, <3>3, <4>2, TrustedNotRefused
      <4>4. refused'[i] = 0  BY <1>3, <4>3
      <4>5. ASSUME now' > First(i)'.notAfter PROVE RefusedUntil(i, RepairBy)'
        <5>1. now + 1 > First(i).notAfter  BY <1>2, <1>4, <4>5
        <5>2. 0 + ((wakeAt + MaxLateness + MountLag) - (now + 1)) <= RefusedBound(i)
          BY <1>5, <2>2, <5>1
        <5> QED  BY <1>2, <1>4, <4>4, <5>2 DEF RefusedUntil, RepairBy
      <4> QED  BY <1>5, <4>4, <4>5
    <3> QED  BY <3>1, <3>2, <3>3
  <2>5. server'[i] = "serving" => loaded'[i].certs[1] = First(i)' \/ Delayed(i)'
    BY <1>3, <1>4, <1>11, <1>a, <2>1
  <2>6. PairServed(i)'  BY <1>3, <1>4, <2>1, <2>3, <2>4, <2>5 DEF PairServed
  <2> QED  BY <1>2, <1>4, <1>11, <2>3, <2>4, <2>6 DEF Phase
<1> QED  BY <1>0, <1>8, <1>9, <1>10, <1>11 DEF Phase

\* The passing of time keeps the invariant.
LEMMA TimePassesBrief ==
    ASSUME RotationsApart, BriefInv, TypesInv', TimePasses
    PROVE  BriefInv'
<1>1. Tick /\ mounted' = mounted  BY DEF TimePasses
<1>2. now' = now + 1 /\ chain' = chain /\ serial' = serial /\ wakeAt' = wakeAt /\ intact' = intact
  BY <1>1 DEF Tick
<1>3. TypesInv /\ KeysKnown /\ CALast(chain, serial) /\ BrokenInv /\ ListsInv  BY DEF BriefInv
<1>4. now \in Nat /\ wakeAt \in Nat /\ chain \in CertificateChainData  BY <1>3 DEF TypesInv, Inv, TypeOK
<1>5. KeysKnown' /\ CALast(chain', serial')  BY <1>1, <1>2, <1>3 DEF KeysKnown
<1>6. BrokenInv'  BY <1>2, <1>3, <1>4 DEF BrokenInv
<1>7. ListsInv'
  <2> SUFFICES ASSUME intact PROVE Alike(chain, now + 1)
    BY <1>2 DEF ListsInv
  <2>1. Alike(chain, now)  BY <1>3 DEF ListsInv
  <2>2. ASSUME NEW i \in Issues, Len(chain.issued[i].certs) = 2
        PROVE  /\ chain.issued[i].certs[1].notAfter - CertOverlapInterval <= now + 1
               /\ chain.issued[i].certs[2].notAfter <= (now + 1) + CertRotateInterval
    <3>1. /\ chain.issued[i].certs[1].notAfter \in Nat
          /\ chain.issued[i].certs[1].notAfter - CertOverlapInterval <= now
          /\ chain.issued[i].certs[2].notAfter \in Nat
          /\ chain.issued[i].certs[2].notAfter <= now + CertRotateInterval
      BY <1>4, <2>1, <2>2, AlikeTypes
    <3> QED  BY <1>4, <3>1, OptionsAssumption
  <2>3. ASSUME NEW i \in Issues
        PROVE  /\ Len(chain.issued[i].certs) \in {1, 2}
               /\ Len(chain.issued[i].certs) = 2 =>
                    chain.issued[i].certs[1].notAfter + MountLag + 1 + CertOverlapInterval
                      < chain.issued[i].certs[2].notAfter
    BY <2>1 DEF Alike
  <2>4. ASSUME NEW i \in Issues, NEW j \in Issues
        PROVE  /\ Len(chain.issued[i].certs) = Len(chain.issued[j].certs)
               /\ \A n \in DOMAIN chain.issued[i].certs :
                    chain.issued[i].certs[n].notAfter = chain.issued[j].certs[n].notAfter
    BY <2>1 DEF Alike
  <2> QED  BY <2>2, <2>3, <2>4, Zenon DEF Alike
<1>8. \A i \in Issues : Phase(i)'  BY TimePassesPhase
<1> QED  BY <1>5, <1>6, <1>7, <1>8 DEF BriefInv

------------------------------------------------------------------------------------
(* The steps of the servers.                                                        *)

\* What they do not change.
LEMMA SameTimes ==
    ASSUME UNCHANGED vars, UNCHANGED historyVars, NEW i \in Issues
    PROVE  /\ missed'[i] = missed[i] => RefusedBound(i)' = RefusedBound(i)
           /\ DownBound' = DownBound /\ RepairBy' = RepairBy
           /\ First(i)' = First(i) /\ refused'[i] = refused[i] /\ down'[i] = down[i]
           /\ chain' = chain /\ now' = now /\ intact' = intact
           /\ \A t : SingleFresh(t) <=> \A j \in Issues :
                   /\ Len(chain'.issued[j].certs) = 1
                   /\ LoadX509KeyPair(chain'.issued[j])
                   /\ t < chain'.issued[j].certs[1].notAfter - CertOverlapInterval
<1>1. chain' = chain /\ now' = now /\ intact' = intact /\ wakeAt' = wakeAt /\ faults' = faults
  BY DEF vars
<1>2. refused' = refused /\ down' = down  BY DEF historyVars
<1> QED  BY <1>1, <1>2 DEF RefusedBound, DownBound, RepairBy, First, SingleFresh

\* The bound is the same unless a key pair is lost, which adds to it.
LEMMA LostBound ==
    ASSUME TypesInv, UNCHANGED vars, NEW i \in Issues, missed'[i] \in {missed[i], missed[i] + 1}
    PROVE  /\ RefusedBound(i) \in Nat /\ RefusedBound(i)' \in Nat
           /\ RefusedBound(i) <= RefusedBound(i)'
           /\ missed'[i] = missed[i] => RefusedBound(i)' = RefusedBound(i)
           /\ missed'[i] = missed[i] + 1 =>
                RefusedBound(i)' = RefusedBound(i) + MaxLateness + MountLag + CertRotateInterval
<1>1. faults' = faults  BY DEF vars
<1>2. RefusedBound(i) \in Nat  BY Bounds
<1>3. missed'[i] = missed[i] => RefusedBound(i)' = RefusedBound(i)  BY <1>1 DEF RefusedBound
<1>4. missed'[i] = missed[i] + 1 =>
        RefusedBound(i)' = RefusedBound(i) + MaxLateness + MountLag + CertRotateInterval
  BY <1>1, MissGrows
<1>5. MaxLateness \in Nat /\ MountLag \in Nat /\ CertRotateInterval \in Nat  BY PodTypes
<1> QED  BY <1>2, <1>3, <1>4, <1>5

\* A pod to which nothing happens.
LEMMA SamePhase ==
    ASSUME UNCHANGED vars, UNCHANGED historyVars, NEW i \in Issues, Phase(i),
           server'[i] = server[i], mounted'[i] = mounted[i], lag'[i] = lag[i],
           event'[i] = event[i], loaded'[i] = loaded[i], missed'[i] = missed[i]
    PROVE  Phase(i)'
<1>1. /\ RefusedBound(i)' = RefusedBound(i) /\ DownBound' = DownBound /\ RepairBy' = RepairBy
      /\ First(i)' = First(i) /\ refused'[i] = refused[i] /\ down'[i] = down[i]
      /\ chain' = chain /\ now' = now /\ intact' = intact
  BY SameTimes
<1>2. ArrivalBy(i)' = ArrivalBy(i) /\ Outdated(i)' = Outdated(i)  BY <1>1 DEF ArrivalBy, Outdated
<1>3. /\ SingleFresh(ArrivalBy(i) + 1)' <=> SingleFresh(ArrivalBy(i) + 1)
      /\ SingleFresh(now)' <=> SingleFresh(now)
      /\ SingleFresh(now + 1)' <=> SingleFresh(now + 1)
  BY <1>1, <1>2 DEF SingleFresh
<1>4. ServesTrusted(i)' <=> ServesTrusted(i)  BY <1>1 DEF ServesTrusted
<1>5. Awaited(i) => Awaited(i)'
  BY <1>1, <1>2, <1>3, <1>4 DEF Awaited, RefusedUntil, DownUntil
<1>6. SingleServed(i) => SingleServed(i)'
  BY <1>1, <1>3 DEF SingleServed, Delayed, RefusedUntil, DownUntil
<1>7. PairServed(i) => PairServed(i)'
  BY <1>1 DEF PairServed, Delayed, RefusedUntil, DownUntil
<1>8. /\ RefusedUntil(i, RepairBy) => RefusedUntil(i, RepairBy)'
      /\ DownUntil(i, RepairBy + 1) => DownUntil(i, RepairBy + 1)'
  BY <1>1 DEF RefusedUntil, DownUntil
<1> QED  BY <1>1, <1>5, <1>6, <1>7, <1>8 DEF Phase

\* Without the chain intact, only the times matter.
LEMMA BrokenPhase ==
    ASSUME TypesInv, UNCHANGED vars, UNCHANGED historyVars, NEW i \in Issues, Phase(i), ~ intact,
           missed'[i] \in {missed[i], missed[i] + 1}
    PROVE  Phase(i)'
<1>1. /\ missed'[i] = missed[i] => RefusedBound(i)' = RefusedBound(i)
      /\ DownBound' = DownBound /\ RepairBy' = RepairBy
      /\ refused'[i] = refused[i] /\ down'[i] = down[i]
      /\ now' = now /\ intact' = intact
  BY SameTimes
<1>2. RefusedBound(i) \in Nat /\ RefusedBound(i)' \in Nat /\ RefusedBound(i) <= RefusedBound(i)'
  BY <1>1, LostBound
<1>3. now \in Nat /\ refused[i] \in Nat /\ RepairBy \in Int  BY PodTypes DEF RepairBy
<1>4. /\ RefusedUntil(i, RepairBy) => RefusedUntil(i, RepairBy)'
      /\ refused[i] <= RefusedBound(i) => refused'[i] <= RefusedBound(i)'
  BY <1>1, <1>2, <1>3 DEF RefusedUntil
<1>5. DownUntil(i, RepairBy + 1) => DownUntil(i, RepairBy + 1)'  BY <1>1 DEF DownUntil
<1> QED  BY <1>1, <1>4, <1>5 DEF Phase

\* A step of one server keeps the invariant when its pod is in a phase afterwards.
LEMMA OnePodBrief ==
    ASSUME BriefInv, TypesInv', KeysKnown', UNCHANGED vars, UNCHANGED historyVars,
           NEW i \in Issues, Phase(i)',
           \A j \in Issues \ {i} :
              /\ server'[j] = server[j] /\ mounted'[j] = mounted[j] /\ lag'[j] = lag[j]
              /\ event'[j] = event[j] /\ loaded'[j] = loaded[j] /\ missed'[j] = missed[j]
    PROVE  BriefInv'
<1>1. chain' = chain /\ now' = now /\ intact' = intact /\ wakeAt' = wakeAt /\ serial' = serial
  BY DEF vars
<1>2. CALast(chain', serial') /\ BrokenInv' /\ ListsInv'
  BY <1>1 DEF BriefInv, BrokenInv, ListsInv
<1>3. ASSUME NEW j \in Issues PROVE Phase(j)'
  <2>1. CASE j = i  BY <2>1
  <2>2. CASE j # i
    <3>1. Phase(j)  BY DEF BriefInv
    <3> QED  BY <2>2, <3>1, SamePhase
  <2> QED  BY <2>1, <2>2
<1> QED  BY <1>2, <1>3 DEF BriefInv

\* A pod whose files stay while its server does something.
LEMMA ServerPhase ==
    ASSUME UNCHANGED vars, UNCHANGED historyVars, NEW i \in Issues, Phase(i), intact,
           mounted'[i] = mounted[i], lag'[i] = lag[i], missed'[i] = missed[i],
           server'[i] = "ended" => ~ LoadX509KeyPair(mounted[i]),
           event'[i] => event[i],
           ServesTrusted(i) => ServesTrusted(i)',
           SingleServed(i) /\ server'[i] = "serving" /\ ~ event'[i]
             => loaded'[i].certs[1] = First(i) \/ Delayed(i),
           PairServed(i) /\ server'[i] = "serving" => loaded'[i].certs[1] = First(i) \/ Delayed(i),
           server[i] # "ended"
    PROVE  Phase(i)'
<1>1. /\ RefusedBound(i)' = RefusedBound(i) /\ DownBound' = DownBound /\ RepairBy' = RepairBy
      /\ First(i)' = First(i) /\ refused'[i] = refused[i] /\ down'[i] = down[i]
      /\ chain' = chain /\ now' = now /\ intact' = intact
  BY SameTimes
<1>a. Delayed(i) => Delayed(i)'  BY <1>1 DEF Delayed, RefusedUntil
<1>2. ArrivalBy(i)' = ArrivalBy(i) /\ Outdated(i)' = Outdated(i)  BY <1>1 DEF ArrivalBy, Outdated
<1>3. /\ SingleFresh(ArrivalBy(i) + 1)' <=> SingleFresh(ArrivalBy(i) + 1)
      /\ SingleFresh(now)' <=> SingleFresh(now)
  BY <1>1, <1>2 DEF SingleFresh
<1>4. Awaited(i) => Awaited(i)'
  BY <1>1, <1>2, <1>3 DEF Awaited, RefusedUntil, DownUntil
<1>5. SingleServed(i) => SingleServed(i)'
  BY <1>1, <1>3, <1>a DEF SingleServed, RefusedUntil, DownUntil
<1>6. PairServed(i) => PairServed(i)'
  BY <1>1, <1>a DEF PairServed, RefusedUntil, DownUntil
<1> QED  BY <1>1, <1>4, <1>5, <1>6 DEF Phase

\* A server that finds its chain verified goes on in its phase.
LEMMA WaitPhase ==
    ASSUME TypesInv, NEW i \in Issues, Phase(i), intact, waitForTLSReadiness(i)
    PROVE  Phase(i)'
<1>1. /\ UNCHANGED vars /\ UNCHANGED historyVars
      /\ mounted' = mounted /\ lag' = lag /\ event' = event /\ loaded' = loaded /\ missed' = missed
      /\ server[i] = "waiting" /\ server' = [server EXCEPT ![i] = "starting"]
  BY DEF waitForTLSReadiness, TLSReady
<1>2. server'[i] = "starting"  BY <1>1 DEF TypesInv, ServersTypeOK
<1>3. ServesTrusted(i) => ServesTrusted(i)'  BY <1>1, <1>2 DEF ServesTrusted, vars
<1> QED  BY <1>1, <1>2, <1>3, ServerPhase

\* A server that starts loads the files of its pod or ends.
LEMMA StartPhase ==
    ASSUME TypesInv, NEW i \in Issues, Phase(i), intact, Start(i)
    PROVE  Phase(i)'
<1>1. /\ UNCHANGED vars /\ UNCHANGED historyVars
      /\ mounted' = mounted /\ lag' = lag /\ event' = event /\ missed' = missed
      /\ server[i] = "starting"
  BY DEF Start
<1>2. ServerTypes  BY DEF TypesInv, ServersTypeOK, ServerTypes
<1>3. /\ server'[i] = IF LoadX509KeyPair(mounted[i]) THEN "serving" ELSE "ended"
      /\ LoadX509KeyPair(mounted[i]) => loaded'[i] = mounted[i]
  BY <1>2 DEF Start, ServerTypes
<1>4. ServesTrusted(i) => ServesTrusted(i)'  BY <1>1, <1>3 DEF ServesTrusted, vars
<1>5. /\ SingleServed(i) => LoadX509KeyPair(mounted[i]) /\ mounted[i].certs[1] = First(i)
      /\ PairServed(i) /\ LoadX509KeyPair(mounted[i]) => mounted[i].certs[1] = First(i)
  BY DEF SingleServed, PairServed, First
<1> QED  BY <1>1, <1>3, <1>4, <1>5, ServerPhase

\* A server that begins to watch its files.
LEMMA WatchPhase ==
    ASSUME NEW i \in Issues, Phase(i), Watch(i)
    PROVE  Phase(i)'
BY SamePhase DEF Watch

\* A server that reads its files again keeps the pair it has when they cannot be loaded.
LEMMA ReadPhase ==
    ASSUME TypesInv, NEW i \in Issues, Phase(i), intact, ReadCertificate(i)
    PROVE  Phase(i)'
<1>1. /\ UNCHANGED vars /\ UNCHANGED historyVars
      /\ mounted' = mounted /\ lag' = lag /\ server' = server /\ missed' = missed /\ event[i]
      /\ event' = [event EXCEPT ![i] = FALSE]
      /\ loaded' = [loaded EXCEPT ![i] = IF LoadX509KeyPair(mounted[i]) THEN mounted[i] ELSE loaded[i]]
  BY DEF ReadCertificate
<1>2. ServerTypes  BY DEF TypesInv, ServersTypeOK, ServerTypes
<1>3. loaded'[i] = (IF LoadX509KeyPair(mounted[i]) THEN mounted[i] ELSE loaded[i]) /\ ~ event'[i]
  BY <1>1, <1>2 DEF ServerTypes
<1>4. server[i] = "serving"  BY <1>1, PodTypes
<1>5. ServesTrusted(i) => ServesTrusted(i)'  BY <1>1, <1>3, <1>4 DEF ServesTrusted, vars
<1>6. /\ SingleServed(i) => LoadX509KeyPair(mounted[i]) /\ mounted[i].certs[1] = First(i)
      /\ PairServed(i) /\ LoadX509KeyPair(mounted[i]) => mounted[i].certs[1] = First(i)
      /\ PairServed(i) => loaded[i].certs[1] = First(i) \/ Delayed(i)
  BY <1>4 DEF SingleServed, PairServed, First
<1> QED  BY <1>1, <1>3, <1>4, <1>5, <1>6, ServerPhase

\* The files of the pod become those of the secret.
LEMMA ProjectionPhase ==
    ASSUME TypesInv, ListsInv, NEW i \in Issues, Phase(i), intact, Outdated(i),
           UNCHANGED vars, UNCHANGED historyVars, mounted'[i] = chain.issued[i],
           missed'[i] \in {missed[i], missed[i] + 1},
           \/ event'[i]
           \/ server'[i] # "serving"
           \/ LoadX509KeyPair(chain.issued[i]) => missed'[i] = missed[i] + 1,
           server'[i] = "ended" => server[i] = "ended",
           server'[i] = "serving" => server[i] = "serving" /\ loaded'[i] = loaded[i]
    PROVE  Phase(i)'
<1>1. /\ DownBound' = DownBound /\ RepairBy' = RepairBy
      /\ First(i)' = First(i) /\ refused'[i] = refused[i] /\ down'[i] = down[i]
      /\ chain' = chain /\ now' = now /\ intact' = intact
  BY SameTimes
<1>2. /\ now \in Nat /\ down[i] \in Nat /\ lag[i] \in Nat /\ lag[i] <= MountLag /\ MountLag \in Nat
      /\ CertOverlapInterval \in Nat /\ DownBound \in Nat /\ First(i).notAfter \in Nat
  BY PodTypes, Bounds, IntactTypes
<1>a. /\ refused[i] \in Nat /\ wakeAt \in Nat /\ MaxLateness \in Nat /\ CertRotateInterval \in Nat
  BY PodTypes
<1>b. /\ RefusedBound(i) \in Nat /\ RefusedBound(i)' \in Nat /\ RefusedBound(i) <= RefusedBound(i)'
      /\ missed'[i] = missed[i] + 1 =>
           RefusedBound(i)' = RefusedBound(i) + MaxLateness + MountLag + CertRotateInterval
  BY LostBound
<1>c. refused[i] <= RefusedBound(i) /\ down[i] <= DownBound  BY DEF Phase
<1>d. refused'[i] <= RefusedBound(i)' /\ down'[i] <= DownBound'  BY <1>1, <1>a, <1>b, <1>c
<1>e. /\ Delayed(i) => Delayed(i)'
      /\ RefusedUntil(i, RepairBy) => RefusedUntil(i, RepairBy)'
  BY <1>1, <1>2, <1>a, <1>b DEF Delayed, RefusedUntil, RepairBy
<1>3. ~ SingleServed(i)  BY DEF Outdated, SingleServed
<1>4. CASE Awaited(i)
  <2>1. SingleFresh(now) /\ SingleFresh(now + 1)  BY <1>4, SingleFreshNow DEF Awaited
  <2>2. SingleFresh(now)' /\ SingleFresh(now + 1)'  BY <1>1, <2>1 DEF SingleFresh
  <2>3. Len(chain.issued[i].certs) = 1 /\ LoadX509KeyPair(chain.issued[i])
        /\ now < First(i).notAfter - CertOverlapInterval
    BY <2>1 DEF SingleFresh, First
  <2>4. ~ (now > First(i).notAfter)  BY <1>2, <2>3
  <2>5. server'[i] = "ended" => DownUntil(i, now + 1)'
    <3>1. DownUntil(i, ArrivalBy(i) + 1) => DownUntil(i, now + 1)
      BY <1>2 DEF DownUntil, ArrivalBy
    <3>2. server[i] = "ended" => DownUntil(i, now + 1)  BY <1>4, <3>1 DEF Awaited
    <3> QED  BY <1>1, <3>2 DEF DownUntil
  <2>6. missed'[i] = missed[i] + 1 => Delayed(i)'
    <3>1. First(i).notAfter <= now + CertRotateInterval  BY <1>4 DEF Awaited
    <3> QED  BY <1>1, <1>2, <1>a, <1>b, <1>c, <3>1 DEF Delayed, RefusedUntil
  <2>7. server'[i] = "serving" /\ ~ event'[i] => Delayed(i)'  BY <2>3, <2>6
  <2>8. SingleServed(i)'  BY <1>1, <2>2, <2>3, <2>4, <2>5, <2>7 DEF SingleServed
  <2> QED  BY <1>1, <1>d, <2>8 DEF Phase
<1>5. CASE PairServed(i)
  <2>1. mounted'[i].certs[1] = First(i)'  BY <1>1 DEF First
  <2>2. PairServed(i)'
    BY <1>1, <1>5, <1>e, <2>1 DEF PairServed, DownUntil
  <2> QED  BY <1>1, <1>d, <2>2 DEF Phase
<1> QED  BY <1>3, <1>4, <1>5 DEF Phase

\* The kubelet projects the secret.
LEMMA MountPhase ==
    ASSUME TypesInv, ListsInv, NEW i \in Issues, Phase(i), intact, Mount(i)
    PROVE  Phase(i)'
<1>1. /\ UNCHANGED vars /\ UNCHANGED historyVars /\ Outdated(i)
      /\ server' = server /\ loaded' = loaded
      /\ mounted' = [mounted EXCEPT ![i] = chain.issued[i]]
      /\ event' = [event EXCEPT ![i] = watching[i]]
      /\ missed' = [missed EXCEPT ![i] = IF Misses(i) THEN missed[i] + 1 ELSE missed[i]]
  BY DEF Mount
<1>2. ServerTypes  BY DEF TypesInv, ServersTypeOK, ServerTypes
<1>3. /\ mounted'[i] = chain.issued[i] /\ (event'[i] <=> watching[i])
      /\ missed'[i] = IF Misses(i) THEN missed[i] + 1 ELSE missed[i]
  <2>1. /\ mounted'[i] = chain.issued[i]
        /\ missed'[i] = IF Misses(i) THEN missed[i] + 1 ELSE missed[i]
    BY <1>1, <1>2 DEF ServerTypes
  <2>2. event \in [Issues -> BOOLEAN]  BY <1>2 DEF ServerTypes
  <2>3. event'[i] <=> watching[i]  BY <1>1, <2>2, Zenon
  <2> QED  BY <2>1, <2>3
<1>4. missed'[i] \in {missed[i], missed[i] + 1}  BY <1>3
<1>5. \/ event'[i]
      \/ server'[i] # "serving"
      \/ LoadX509KeyPair(chain.issued[i]) => missed'[i] = missed[i] + 1
  BY <1>1, <1>3 DEF Misses
<1> QED  BY <1>1, <1>3, <1>4, <1>5, ProjectionPhase

\* A restarted pod has its old files or those of the secret.
LEMMA RestartPhase ==
    ASSUME TypesInv, ListsInv, NEW i \in Issues, Phase(i), intact, Restart(i)
    PROVE  Phase(i)'
<1>1. /\ UNCHANGED vars /\ UNCHANGED historyVars
      /\ server[i] = "serving" /\ server' = [server EXCEPT ![i] = "waiting"]
      /\ event' = [event EXCEPT ![i] = FALSE] /\ missed' = missed
      /\ lag' = [lag EXCEPT ![i] = IF mounted'[i] = mounted[i] THEN lag[i] ELSE 0]
  BY DEF Restart
<1>2. PICK files \in {mounted[i], chain.issued[i]} : mounted' = [mounted EXCEPT ![i] = files]
  BY DEF Restart
<1>3. ServerTypes  BY DEF TypesInv, ServersTypeOK, ServerTypes
<1>4. mounted'[i] = files /\ server'[i] = "waiting" /\ ~ event'[i]
  BY <1>1, <1>2, <1>3 DEF ServerTypes
<1>5. CASE files = mounted[i]
  <2>1. lag'[i] = lag[i] /\ mounted'[i] = mounted[i]  BY <1>1, <1>3, <1>4, <1>5 DEF ServerTypes
  <2>2. ServesTrusted(i) => ServesTrusted(i)'  BY <1>1, <1>4, <2>1 DEF ServesTrusted, vars
  <2> QED  BY <1>1, <1>4, <2>1, <2>2, ServerPhase
<1>6. CASE files # mounted[i]
  <2>1. mounted'[i] = chain.issued[i] /\ chain.issued[i] # mounted[i]  BY <1>4, <1>6
  <2>2. chain.issued[i] # NoPair
    <3>1. Established(chain)  BY DEF TypesInv, Inv
    <3> QED  BY <3>1 DEF Established, NoPair
  <2>3. Outdated(i)  BY <2>1, <2>2 DEF Outdated
  <2> QED  BY <1>1, <1>4, <2>1, <2>3, ProjectionPhase
<1> QED  BY <1>5, <1>6

\* A step of one server leaves the other pods alone.
LEMMA OtherPods ==
    ASSUME TypesInv, NEW i \in Issues,
           \/ waitForTLSReadiness(i) \/ Start(i) \/ Watch(i)
           \/ ReadCertificate(i) \/ Mount(i) \/ Restart(i)
    PROVE  /\ UNCHANGED vars /\ UNCHANGED historyVars
           /\ \A j \in Issues \ {i} :
                /\ server'[j] = server[j] /\ mounted'[j] = mounted[j] /\ lag'[j] = lag[j]
                /\ event'[j] = event[j] /\ loaded'[j] = loaded[j] /\ missed'[j] = missed[j]
<1>1. ServerTypes  BY DEF TypesInv, ServersTypeOK, ServerTypes
<1>2. CASE waitForTLSReadiness(i)  BY <1>1, <1>2 DEF waitForTLSReadiness, ServerTypes
<1>3. CASE Start(i)  BY <1>1, <1>3 DEF Start, ServerTypes
<1>4. CASE ReadCertificate(i)  BY <1>1, <1>4 DEF ReadCertificate, ServerTypes
<1>5. CASE Mount(i)  BY <1>1, <1>5 DEF Mount, ServerTypes
<1>6. CASE Restart(i)
  <2>1. PICK files \in {mounted[i], chain.issued[i]} : mounted' = [mounted EXCEPT ![i] = files]
    BY <1>6 DEF Restart
  <2> QED  BY <1>1, <1>6, <2>1 DEF Restart, ServerTypes
<1>7. CASE Watch(i)  BY <1>7 DEF Watch
<1> QED  BY <1>2, <1>3, <1>4, <1>5, <1>6, <1>7

\* Every step of a server keeps the invariant.
LEMMA PodBrief ==
    ASSUME BriefInv, TypesInv', NEW i \in Issues,
           \/ waitForTLSReadiness(i) \/ Start(i) \/ Watch(i)
           \/ ReadCertificate(i) \/ Mount(i) \/ Restart(i)
    PROVE  BriefInv'
<1>1. TypesInv /\ KeysKnown /\ ListsInv /\ Phase(i)  BY DEF BriefInv
<1>2. KeysKnown'  BY <1>1, PodKeys
<1>3. /\ UNCHANGED vars /\ UNCHANGED historyVars
      /\ \A j \in Issues \ {i} :
           /\ server'[j] = server[j] /\ mounted'[j] = mounted[j] /\ lag'[j] = lag[j]
           /\ event'[j] = event[j] /\ loaded'[j] = loaded[j] /\ missed'[j] = missed[j]
  BY <1>1, OtherPods
<1>4. Phase(i)'
  <2>1. CASE ~ intact
    <3>1. missed'[i] \in {missed[i], missed[i] + 1}
      <4>1. ServerTypes  BY <1>1 DEF TypesInv, ServersTypeOK, ServerTypes
      <4>2. CASE Mount(i)  BY <4>1, <4>2 DEF Mount, ServerTypes
      <4>3. CASE ~ Mount(i)
        BY <4>3 DEF waitForTLSReadiness, Start, Watch, ReadCertificate, Restart
      <4> QED  BY <4>2, <4>3
    <3> QED  BY <1>1, <1>3, <2>1, <3>1, BrokenPhase
  <2>2. CASE intact
    BY <1>1, <2>2, WaitPhase, StartPhase, WatchPhase, ReadPhase, MountPhase, RestartPhase
  <2> QED  BY <2>1, <2>2
<1> QED  BY <1>2, <1>3, <1>4, OnePodBrief

\* The invariant holds of no chain and servers that wait for one.
LEMMA BriefStart == ServersInit => BriefInv
<1> SUFFICES ASSUME ServersInit PROVE BriefInv
  OBVIOUS
<1>1. TypesInv /\ KeysKnown  BY TypesInit, ServersStart DEF ServersInv
<1>2. /\ chain = EmptyChain /\ serial = 0 /\ intact = FALSE /\ wakeAt = StartTime /\ now = StartTime
      /\ refused = [i \in Issues |-> 0] /\ down = [i \in Issues |-> 0]
  BY DEF ServersInit, Init
<1>3. CALast(chain, serial)
  <2>1. \A b \in Bundles : DOMAIN chain.caCerts[b] = {}  BY <1>2 DEF EmptyChain
  <2> QED  BY <2>1 DEF CALast
<1>4. BrokenInv /\ ListsInv
  <2>1. ~ Established(chain)  BY <1>2 DEF Established, EmptyChain
  <2>2. wakeAt <= now  BY <1>2, TimeAssumption
  <2> QED  BY <1>2, <2>1, <2>2 DEF BrokenInv, ListsInv
<1>5. ASSUME NEW i \in Issues PROVE Phase(i)
  <2>1. refused[i] = 0 /\ down[i] = 0  BY <1>2
  <2>2. /\ RefusedBound(i) \in Nat /\ DownBound \in Nat
        /\ MaxLateness + MountLag <= RefusedBound(i)
        /\ CertOverlapInterval + MaxLateness + MountLag + 1 <= DownBound
    BY <1>1, Bounds
  <2>3. RefusedUntil(i, RepairBy) /\ DownUntil(i, RepairBy + 1)
    BY <1>2, <2>1, <2>2, TimeAssumption, MountAssumption, OptionsAssumption
       DEF RefusedUntil, DownUntil, RepairBy
  <2> QED  BY <1>2, <2>1, <2>2, <2>3 DEF Phase
<1> QED  BY <1>1, <1>3, <1>4, <1>5 DEF BriefInv

\* Every step keeps the invariant.
LEMMA BriefStep ==
    ASSUME Issues # {}, RotationsApart, BriefInv, [ServersNext]_serverVars
    PROVE  BriefInv'
<1>1. TypesInv'  BY TypesStep DEF BriefInv
<1>2. CASE ChainStep
  <2>1. UNCHANGED <<podVars, historyVars>>  BY <1>2 DEF ChainStep
  <2>2. CASE Reconcile  BY <1>1, <2>1, <2>2, ReconcileBrief
  <2>3. CASE LoseCA \/ (\E i \in Issues : LoseService(i)) \/ (\E b \in Bundles : LoseBundle(b))
    BY <1>1, <2>1, <2>3, LossBrief
  <2> QED  BY <1>2, <2>2, <2>3 DEF ChainStep
<1>3. CASE TimePasses  BY <1>1, <1>3, TimePassesBrief
<1>4. ASSUME NEW i \in Issues,
             \/ waitForTLSReadiness(i) \/ Start(i) \/ Watch(i)
           \/ ReadCertificate(i) \/ Mount(i) \/ Restart(i)
      PROVE  BriefInv'
  BY <1>1, <1>4, PodBrief
<1>5. CASE UNCHANGED serverVars
  <2>1. UNCHANGED vars /\ UNCHANGED podVars /\ UNCHANGED historyVars  BY <1>5 DEF serverVars
  <2>2. PICK i \in Issues : TRUE  OBVIOUS
  <2>3. Phase(i)'
    <3>1. Phase(i)  BY DEF BriefInv
    <3> QED  BY <2>1, <3>1, SamePhase DEF podVars
  <2>4. KeysKnown'  BY <2>1 DEF vars, BriefInv, KeysKnown, podVars
  <2> QED  BY <1>1, <2>1, <2>3, <2>4, OnePodBrief DEF podVars
<1> QED  BY <1>2, <1>3, <1>4, <1>5 DEF ServersNext

\* Clients refuse what a server serves only for as long as a late clean-up and a late mount
\* take, once, once more for every interference, and for every key pair that came before
\* the server watched its files once more and the life of a certificate.
THEOREM BrieflyRefused ==
    ASSUME Issues # {}, RotationsApart
    PROVE  ServersSpec => []RefusedBriefly
<1>1. BriefInv => RefusedBriefly  BY DEF BriefInv, Phase, RefusedBriefly, RefusedBound
<1>2. BriefInv /\ [ServersNext]_serverVars => BriefInv'  BY BriefStep
<1> QED  BY <1>1, <1>2, BriefStart, PTL DEF ServersSpec

\* A server is down only for an overlap, a late clean-up, a late mount and an attempt to
\* start, all but the overlap once more for every interference.
THEOREM BrieflyDown ==
    ASSUME Issues # {}, RotationsApart
    PROVE  ServersSpec => []DownBriefly
<1>1. BriefInv => DownBriefly  BY DEF BriefInv, Phase, DownBriefly, DownBound
<1>2. BriefInv /\ [ServersNext]_serverVars => BriefInv'  BY BriefStep
<1> QED  BY <1>1, <1>2, BriefStart, PTL DEF ServersSpec
====
