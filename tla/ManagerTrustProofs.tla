----------------------------- MODULE ManagerTrustProofs -----------------------------
(* Manager implements Trust, for every value of the constants: what the manager      *)
(* writes one by one, with caches of any age, keeps what the clients were promised.  *)
EXTENDS ManagerProofs

\* The CAs in the bundle of a webhook, as Trust sees them.
TrustedCAs(b) == {StoredBundle(b)[n] : n \in DOMAIN StoredBundle(b)}

\* SettledRightly of module Trust, in terms of the cluster.
QuietTrusted ==
    Quiet => \A b \in StoredBundles :
               api[CASecret].content.cert \in {ca \in TrustedCAs(b) : ca.notAfter > now}

\* The webhooks of a configuration have their bundles in its content.
LEMMA BundlesStored ==
    ASSUME VersionsInv
    PROVE  \A c \in Configs : \A b \in DOMAIN api[c].content :
             /\ b \in Bundles /\ ConfigOf[b] = c
             /\ b \in StoredBundles /\ StoredBundle(b) = api[c].content[b]
             /\ StoredBundle(b) \in Seq(Certificate)
<1> SUFFICES ASSUME NEW c \in Configs, NEW b \in DOMAIN api[c].content
             PROVE  /\ b \in Bundles /\ ConfigOf[b] = c
                    /\ b \in StoredBundles /\ StoredBundle(b) = api[c].content[b]
                    /\ StoredBundle(b) \in Seq(Certificate)
  OBVIOUS
<1>1. IsContent(c, api[c].content)  BY Names DEF VersionsInv, IsObject, IsVersion
<1>2. b \in Bundles /\ ConfigOf[b] = c /\ api[c].content[b] \in Seq(Certificate)
  BY <1>1, Contents
<1>3. b \in StoredBundles  BY DEF StoredBundles
<1> QED  BY <1>2, <1>3 DEF StoredBundle

\* When the manager has nothing to do, all clients trust the CA that issues.
LEMMA QuietTrusts ==
    ASSUME CAOverlapInterval > 0, Inv
    PROVE  QuietTrusted
<1> SUFFICES ASSUME Quiet, NEW b \in StoredBundles
             PROVE  /\ api[CASecret].content.cert \in TrustedCAs(b)
                    /\ api[CASecret].content.cert.notAfter > now
  BY DEF QuietTrusted
<1> DEFINE ca == api[CASecret].content
           l == StoredBundle(b)
<1>1. l \in Seq(Certificate) /\ Settled(ca, api[IssueOf[b]].content, l, now)
  BY QuietSettled
<1> HIDE DEF ca, l
<1>2. l # << >> /\ l[Len(l)] = ca.cert /\ now + CAOverlapInterval <= ca.cert.notAfter
  BY <1>1 DEF Settled
<1>3. Len(l) \in DOMAIN l /\ ca.cert.notAfter \in Nat  BY <1>1, <1>2, ListTypes
<1>4. now \in Nat /\ CAOverlapInterval \in Nat  BY OptionsAssumption DEF Inv, ScalarsInv
<1>5. ca.cert.notAfter > now  BY <1>2, <1>3, <1>4
<1>6. ca.cert \in TrustedCAs(b)  BY <1>2, <1>3 DEF TrustedCAs, l
<1> QED  BY <1>5, <1>6 DEF ca

\* A step that keeps the unexpired CAs of every bundle and adds at most one CA, a valid
\* one, is a publication.
LEMMA Publishes ==
    ASSUME QuietTrusted', now' = now, faults' = faults, StoredBundles' = StoredBundles, NEW ca,
           \A b \in StoredBundles :
             /\ \A x \in TrustedCAs(b) : x.notAfter > now => x \in TrustedCAs(b)'
             /\ \A x \in TrustedCAs(b)' : x \in TrustedCAs(b) \/ (x = ca /\ ca.notBefore <= now)
    PROVE  ClientTrust!Publish
<1> DEFINE old == [b \in StoredBundles |-> TrustedCAs(b)]
           new == [b \in StoredBundles' |-> TrustedCAs(b)']
           added == UNION {new[b] \ old[b] : b \in DOMAIN old}
<1>1. DOMAIN new = DOMAIN old  OBVIOUS
<1>2. \A b \in DOMAIN old : {x \in old[b] : x.notAfter > now} \subseteq new[b]  OBVIOUS
<1>3. \A x \in added : x = ca /\ ca.notBefore <= now  OBVIOUS
<1>4. Quiet' => \A b \in DOMAIN new : api'[CASecret].content.cert \in {x \in new[b] : x.notAfter > now'}
  BY DEF QuietTrusted
<1> HIDE DEF old, new, added
<1>5. /\ DOMAIN new = DOMAIN old
      /\ \A b \in DOMAIN old : {x \in old[b] : x.notAfter > now} \subseteq new[b]
      /\ \A x \in added : x.notBefore <= now
      /\ \A x, y \in added : x = y
      /\ Quiet' => \A b \in DOMAIN new : api'[CASecret].content.cert \in {x \in new[b] : x.notAfter > now'}
      /\ now' = now /\ faults' = faults
  BY <1>1, <1>2, <1>3, <1>4
<1> QED
  BY <1>5 DEF ClientTrust!Publish, ClientTrust!SettledRightly, ClientTrust!Unexpired,
              added, old, new, TrustedCAs

\* A step after which every bundle has only what it had before, or nothing if it is new,
\* is a disturbance.
LEMMA Disturbs ==
    ASSUME QuietTrusted', now' = now, faults' = faults + 1,
           \A b \in StoredBundles' : \A x \in TrustedCAs(b)' : b \in StoredBundles /\ x \in TrustedCAs(b)
    PROVE  ClientTrust!Disturb
<1> DEFINE old == [b \in StoredBundles |-> TrustedCAs(b)]
           new == [b \in StoredBundles' |-> TrustedCAs(b)']
<1>1. \A b \in DOMAIN new : IF b \in DOMAIN old THEN new[b] \subseteq old[b] ELSE new[b] = {}
  OBVIOUS
<1>2. Quiet' => \A b \in DOMAIN new : api'[CASecret].content.cert \in {x \in new[b] : x.notAfter > now'}
  BY DEF QuietTrusted
<1> HIDE DEF old, new
<1>3. /\ \A b \in DOMAIN new : IF b \in DOMAIN old THEN new[b] \subseteq old[b] ELSE new[b] = {}
      /\ Quiet' => \A b \in DOMAIN new : api'[CASecret].content.cert \in {x \in new[b] : x.notAfter > now'}
      /\ now' = now /\ faults' = faults + 1
  BY <1>1, <1>2
<1> QED
  BY <1>3 DEF ClientTrust!Disturb, ClientTrust!SettledRightly, ClientTrust!Unexpired,
              old, new, TrustedCAs

\* Who leaves the configurations alone leaves the bundles alone.
LEMMA ConfigsUnchanged ==
    ASSUME VersionsInv, \A c \in Configs : api'[c].content = api[c].content
    PROVE  /\ StoredBundles' = StoredBundles
           /\ \A b \in StoredBundles : TrustedCAs(b)' = TrustedCAs(b)
<1>1. StoredBundles' = StoredBundles  BY DEF StoredBundles
<1>2. ASSUME NEW b \in StoredBundles PROVE TrustedCAs(b)' = TrustedCAs(b)
  <2>1. PICK c \in Configs : b \in DOMAIN api[c].content  BY DEF StoredBundles
  <2>2. ConfigOf[b] = c  BY <2>1, BundlesStored
  <2> QED  BY <2>2 DEF TrustedCAs, StoredBundle
<1> QED  BY <1>1, <1>2

\* Besides the disturbances only the write of a configuration changes bundles.
LEMMA OperationPublishes ==
    ASSUME QuietTrusted', VersionsInv, now' = now, faults' = faults,
           \A c \in Configs : api'[c].content = api[c].content
    PROVE  ClientTrust!Publish
<1>1. StoredBundles' = StoredBundles /\ \A b \in StoredBundles : TrustedCAs(b)' = TrustedCAs(b)
  BY ConfigsUnchanged
<1>2. PICK ca : TRUE  OBVIOUS
<1>3. \A b \in StoredBundles :
        /\ \A x \in TrustedCAs(b) : x.notAfter > now => x \in TrustedCAs(b)'
        /\ \A x \in TrustedCAs(b)' : x \in TrustedCAs(b) \/ (x = ca /\ ca.notBefore <= now)
  BY <1>1
<1> QED  BY <1>1, <1>3, Publishes

\* The manager writes a configuration only if it still is the one it read, and Update
\* kept its bundles.
LEMMA WritePublishes ==
    ASSUME Inv, WriteObject, QuietTrusted'
    PROVE  ClientTrust!Publish
<1>1. ScalarsInv /\ VersionsInv /\ ObjectsInv  BY DEF Inv
<1>2. op = "write" /\ ReadBundlesKept  BY DEF WriteObject, Inv, OperationInv
<1>3. CASE Fail /\ UNCHANGED faults
  <2>1. now' = now /\ api' = api  BY <1>3 DEF Fail, clusterVars
  <2> QED  BY <1>1, <1>3, <2>1, OperationPublishes
<1>4. ASSUME NEW r \in todo, Dealt(r), UNCHANGED api PROVE ClientTrust!Publish
  <2>1. now' = now /\ faults' = faults  BY <1>4 DEF Dealt
  <2> QED  BY <1>1, <1>4, <2>1, OperationPublishes
<1>5. ASSUME NEW r \in todo, NEW v,
             Dealt(r), api' = [api EXCEPT ![ObjectOf(r)] = v],
             v.content = fromChainMapper(data, r, objects[r].content),
             r \in Configs => objects[r].content = api[r].content
      PROVE  ClientTrust!Publish
  <2>1. now' = now /\ faults' = faults  BY <1>5 DEF Dealt
  <2>2. r \in DOMAIN objects /\ r \in References /\ ObjectOf(r) \in Objects
    BY <1>1, Names DEF ObjectsInv
  <2>3. api'[ObjectOf(r)] = v /\ \A o \in Objects : o # ObjectOf(r) => api'[o] = api[o]
    BY <1>1, <1>5, <2>2 DEF VersionsInv
  <2>4. CASE r \notin Configs
    <3>1. ObjectOf(r) \notin Configs  BY <2>2, <2>4, Names DEF References
    <3>2. \A c \in Configs : api'[c].content = api[c].content  BY <2>3, <3>1, Names
    <3> QED  BY <1>1, <2>1, <3>2, OperationPublishes
  <2>5. CASE r \in Configs
    <3> DEFINE old == objects[r].content
    <3>1. ObjectOf(r) = r /\ r # CASecret /\ r \notin Bundles /\ old = api[r].content
      BY <1>5, <2>5, Names
    <3>2. DOMAIN old \subseteq DOMAIN data.caCerts
      <4>1. IsKobject(r, objects[r])  BY <1>1, <1>2, <2>2 DEF ObjectsInv
      <4>2. DOMAIN old \subseteq DOMAIN objects  BY <2>5, <4>1 DEF IsKobject
      <4>3. DOMAIN old \subseteq Bundles  BY <1>1, <2>5, <3>1, BundlesStored
      <4> QED  BY <1>1, <4>2, <4>3 DEF ObjectsInv
    <3>3. v.content = mapWebhookFromChain(data, old)
      BY <1>5, <3>1 DEF fromChainMapper
    <3>4. DOMAIN v.content = DOMAIN old /\ \A b \in DOMAIN old : v.content[b] = data.caCerts[b]
      BY <3>2, <3>3 DEF mapWebhookFromChain
    <3>5. \A c \in Configs : DOMAIN api'[c].content = DOMAIN api[c].content
      BY <2>3, <3>1, <3>4, Names
    <3>6. StoredBundles' = StoredBundles  BY <3>5 DEF StoredBundles
    <3>7. ASSUME NEW b \in StoredBundles
          PROVE  /\ \A x \in TrustedCAs(b) : x.notAfter > now => x \in TrustedCAs(b)'
                 /\ \A x \in TrustedCAs(b)' :
                      x \in TrustedCAs(b) \/ (x = data.ca.cert /\ data.ca.cert.notBefore <= now)
      <4>1. PICK c \in Configs : b \in DOMAIN api[c].content  BY DEF StoredBundles
      <4>2. ConfigOf[b] = c /\ StoredBundle(b) = api[c].content[b]  BY <1>1, <4>1, BundlesStored
      <4>3. StoredBundle(b)' = api'[c].content[b]  BY <4>2 DEF StoredBundle
      <4>4. CASE c # r
        <5>1. api'[c] = api[c]  BY <2>3, <3>1, <4>4, Names
        <5>2. TrustedCAs(b)' = TrustedCAs(b)  BY <4>2, <4>3, <5>1 DEF TrustedCAs
        <5> QED  BY <5>2
      <4>5. CASE c = r
        <5>1. b \in DOMAIN old /\ StoredBundle(b) = old[b] /\ StoredBundle(b)' = data.caCerts[b]
          BY <2>3, <3>1, <3>4, <4>1, <4>2, <4>3, <4>5
        <5>2. /\ \A m \in DOMAIN old[b] :
                   old[b][m].notAfter > now
                     => \E n \in DOMAIN data.caCerts[b] : data.caCerts[b][n] = old[b][m]
              /\ \A n \in DOMAIN data.caCerts[b] :
                   \/ \E m \in DOMAIN old[b] : data.caCerts[b][n] = old[b][m]
                   \/ data.caCerts[b][n] = data.ca.cert /\ data.ca.cert.notBefore <= now
          BY <1>2, <2>2, <2>5, <5>1 DEF ReadBundlesKept
        <5>3. /\ TrustedCAs(b) = {old[b][m] : m \in DOMAIN old[b]}
              /\ TrustedCAs(b)' = {data.caCerts[b][n] : n \in DOMAIN data.caCerts[b]}
          BY <5>1 DEF TrustedCAs
        <5> HIDE DEF old
        <5> QED  BY <5>2, <5>3
      <4> QED  BY <4>4, <4>5
    <3> QED  BY <2>1, <3>6, <3>7, Publishes
  <2> QED  BY <2>4, <2>5
<1> QED  BY <1>3, <1>4, <1>5, WriteCases

\* What others do to a configuration takes bundles away or adds empty ones.
LEMMA FaultDisturbs ==
    ASSUME Inv, QuietTrusted',
           \/ \E o \in Deletable : DeleteObject(o)
           \/ \E c \in Configs : ApplyConfig(c)
           \/ \E o \in Strippable : RemoveAnnotation(o)
           \/ RequestFails
           \/ Restart
    PROVE  ClientTrust!Disturb
<1>1. VersionsInv  BY DEF Inv
<1>2. now' = now /\ faults' = faults + 1
  BY DEF DeleteObject, ApplyConfig, RemoveAnnotation, RequestFails, Restart, Fault, Fail
<1>3. ASSUME NEW c \in Configs, NEW b \in DOMAIN api'[c].content, api'[c].content # api[c].content
      PROVE  api'[c].content[b] = << >>
  <2>1. ASSUME NEW o \in Deletable, DeleteObject(o) PROVE api'[c].content[b] = << >>
    <3>1. o \in Objects /\ DOMAIN api = Objects  BY <1>1, ObjectsAssumption DEF Objects, VersionsInv
    <3>2. o = c  BY <1>3, <2>1, <3>1, Names DEF DeleteObject
    <3>3. api'[c].content = creator(c)  BY <2>1, <3>1, <3>2 DEF DeleteObject, Missing
    <3> QED  BY <1>3, <3>3, Creators
  <2>2. ASSUME NEW e \in Configs, ApplyConfig(e) PROVE api'[c].content[b] = << >>
    <3>1. PICK webhooks \in Manifests :
            api' = [api EXCEPT ![e] = Stored(api[e].rv + 1, TRUE, Manifest(e, webhooks))]
      BY <2>2 DEF ApplyConfig
    <3>2. DOMAIN api = Objects /\ e \in Objects /\ c \in Objects  BY <1>1, Names DEF VersionsInv
    <3>3. e = c  BY <1>3, <3>1, <3>2
    <3>4. api'[c].content = Manifest(c, webhooks)  BY <3>1, <3>2, <3>3 DEF Stored
    <3> QED  BY <1>3, <3>4 DEF Manifest
  <2>3. ASSUME NEW o \in Strippable, RemoveAnnotation(o) PROVE FALSE
    <3>1. o \in Objects /\ DOMAIN api = Objects /\ o # c
      BY <1>1, ObjectsAssumption, Names DEF Objects, VersionsInv
    <3>2. api'[c] = api[c]  BY <2>3, <3>1, Names DEF RemoveAnnotation
    <3> QED  BY <1>3, <3>2
  <2>4. CASE RequestFails \/ Restart
    BY <1>3, <2>4 DEF RequestFails, Restart, Fail, clusterVars
  <2> QED  BY <2>1, <2>2, <2>3, <2>4
<1>4. ASSUME NEW b \in StoredBundles', NEW x \in TrustedCAs(b)'
      PROVE  b \in StoredBundles /\ x \in TrustedCAs(b)
  <2>1. VersionsInv'  BY NextInv DEF Next, Inv
  <2>2. PICK c \in Configs : b \in DOMAIN api'[c].content  BY DEF StoredBundles
  <2>3. ConfigOf[b] = c
    <3>1. IsContent(c, api'[c].content)
      BY <2>1, Names DEF VersionsInv, IsObject, IsVersion
    <3> QED  BY <2>2, <3>1, Contents
  <2>4. StoredBundle(b)' = api'[c].content[b]  BY <2>3 DEF StoredBundle
  <2>5. StoredBundle(b)' # << >>  BY <1>4 DEF TrustedCAs
  <2>6. api'[c].content = api[c].content  BY <1>3, <2>2, <2>4, <2>5
  <2>7. b \in StoredBundles /\ StoredBundle(b) = api[c].content[b]
    BY <1>1, <2>2, <2>6, BundlesStored
  <2> QED  BY <1>4, <2>4, <2>6, <2>7 DEF TrustedCAs
<1> QED  BY <1>2, <1>4, Disturbs

\* Every step of the manager and its surroundings is a step of Trust.
LEMMA StepTrust ==
    ASSUME Inv, QuietTrusted', [Next]_vars
    PROVE  [ClientTrust!Next]_(ClientTrust!vars)
<1>1. VersionsInv /\ ScalarsInv  BY DEF Inv
<1>2. CASE \/ \E o \in Objects : Sync(o)
           \/ Requeue \/ Resync \/ StartReconcile \/ StartVerifyTLS \/ VerifyTLSOnce
           \/ UpdateChain \/ FinishReconcile \/ ReadObject
  <2>1. now' = now /\ faults' = faults /\ api' = api
    BY <1>2 DEF Sync, Requeue, Resync, StartReconcile, StartVerifyTLS, VerifyTLSOnce, UpdateChain,
                FinishReconcile, ReadObject, readObjectToChain, Fail, clusterVars, boundVars
  <2> QED  BY <1>1, <2>1, OperationPublishes DEF ClientTrust!Next
<1>3. CASE WriteObject
  BY <1>3, WritePublishes DEF ClientTrust!Next
<1>4. CASE Tick
  <2>1. now' = now + 1 /\ now' > now /\ now \in Nat /\ wakeAt \in Nat
    BY <1>1, <1>4 DEF Tick, ScalarsInv
  <2>2. UNCHANGED <<api, cache, pending, wakeAt, op, faults>>
    BY <1>4 DEF Tick, clusterVars, queueVars, opVars
  <2>3. StoredBundles' = StoredBundles /\ \A b \in StoredBundles : StoredBundle(b)' = StoredBundle(b)
    BY <2>2 DEF StoredBundles, StoredBundle
  <2>4. Quiet' => Quiet  BY <2>1, <2>2 DEF Quiet, Synced
  <2> QED  BY <2>1, <2>2, <2>3, <2>4 DEF ClientTrust!Next, ClientTrust!Pass
<1>5. CASE \/ \E o \in Deletable : DeleteObject(o)
           \/ \E c \in Configs : ApplyConfig(c)
           \/ \E o \in Strippable : RemoveAnnotation(o)
           \/ RequestFails
           \/ Restart
  BY <1>5, FaultDisturbs DEF ClientTrust!Next
<1>6. CASE UNCHANGED vars
  <2>1. UNCHANGED <<api, cache, pending, wakeAt, op, now, faults>>
    BY <1>6 DEF vars, clusterVars, queueVars, opVars, boundVars
  <2>2. StoredBundles' = StoredBundles /\ \A b \in StoredBundles : StoredBundle(b)' = StoredBundle(b)
    BY <2>1 DEF StoredBundles, StoredBundle
  <2>3. Quiet' = Quiet  BY <2>1 DEF Quiet, Synced
  <2> QED  BY <2>1, <2>2, <2>3 DEF ClientTrust!vars
<1> QED  BY <1>2, <1>3, <1>4, <1>5, <1>6 DEF Next

\* However old the caches it reads, and whatever fails half way, the manager keeps the
\* promise of Trust: it takes no unexpired CA from a client, gives all the same new CA,
\* and has nothing to do only when all clients trust the CA that issues. An overlap of
\* zero is what the defaults replace.
THEOREM ManagerKeepsTrust ==
    ASSUME CAOverlapInterval > 0
    PROVE  Spec => ImplementsTrust
<1>1. Init => ClientTrust!Init
  <2> SUFFICES ASSUME Init PROVE ClientTrust!Init
    OBVIOUS
  <2>1. now \in Nat /\ faults = 0 /\ pending  BY BoundsAssumption DEF Init
  <2>2. Quiet = FALSE  BY <2>1 DEF Quiet
  <2>3. ASSUME NEW b \in StoredBundles PROVE StoredBundle(b) = << >>
    <3>1. VersionsInv  BY InitInv DEF Inv
    <3>2. PICK c \in Configs : b \in DOMAIN api[c].content  BY DEF StoredBundles
    <3>3. StoredBundle(b) = api[c].content[b]  BY <3>1, <3>2, BundlesStored
    <3>4. api[c].content = Manifest(c, Bundles)  BY Names DEF Init, Stored
    <3> QED  BY <3>2, <3>3, <3>4 DEF Manifest
  <2> QED  BY <2>1, <2>2, <2>3 DEF ClientTrust!Init
<1>2. Inv => QuietTrusted  BY QuietTrusts
<1>3. Inv /\ QuietTrusted' /\ [Next]_vars => [ClientTrust!Next]_(ClientTrust!vars)  BY StepTrust
<1> QED  BY <1>1, <1>2, <1>3, InvariantHolds, PTL DEF Spec, ImplementsTrust, ClientTrust!Spec
====
