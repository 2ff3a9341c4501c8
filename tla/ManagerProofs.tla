-------------------------------- MODULE ManagerProofs --------------------------------
(* The safety properties of Manager, for every value of its constants: any set of   *)
(* services, webhooks and configurations, any interference, and any number of       *)
(* faults, of stale reads and of rotations.                                         *)
EXTENDS Manager, PartialChainProofs

------------------------------------------------------------------------------------
(* The inductive invariant.                                                         *)

\* Keys are from rotations that happened.
Known(o, content) == o \notin Configs => content.key <= serial

\* A version of object o, stored or missing.
IsObject(o, v) ==
    /\ IsVersion(o, v)
    /\ Known(o, v.content)
    /\ v.found => v.rv > 0
    /\ ~ v.found => v.content = creator(o)
    /\ o \in Configs => v.annotated

\* A cache has an older version of an object than the API server, or the same. An object
\* without annotation in the cache has none at the API server: nobody puts it back.
VersionsInv ==
    /\ DOMAIN api = Objects /\ DOMAIN cache = Objects
    /\ \A o \in Objects :
         /\ IsObject(o, api[o]) /\ IsObject(o, cache[o])
         /\ cache[o].rv <= api[o].rv
         /\ cache[o].rv = api[o].rv => cache[o] = api[o]
         /\ cache[o].found /\ ~ cache[o].annotated => ~ api[o].annotated

\* The types of the other variables.
ScalarsInv ==
    /\ pending \in BOOLEAN
    /\ wakeAt \in Nat
    /\ now \in Nat
    /\ updateAt \in Int
    /\ op \in {"none", "reconcile", "write", "verify"}
    /\ verifying = (op = "verify")
    /\ server \in {"waiting", "started"}
    /\ serial \in 0..MaxRotations
    /\ faults \in 0..MaxFaults
    /\ stale \in 0..MaxStale

\* The kobject of a reference. A configuration is only kept when it was found, and its
\* bundles are in the object map and in the chain.
IsKobject(r, k) ==
    /\ k = [rv |-> k.rv, annotated |-> k.annotated, content |-> k.content]
    /\ k.rv \in Nat
    /\ k.annotated \in BOOLEAN
    /\ IsContent(ObjectOf(r), k.content)
    /\ Known(ObjectOf(r), k.content)
    /\ r \in Configs => k.rv > 0 /\ k.annotated /\ DOMAIN k.content \subseteq DOMAIN objects

ObjectsInv ==
    /\ DOMAIN objects \subseteq References
    /\ op # "none" => CASecret \in DOMAIN objects
    /\ DOMAIN objects \cap Bundles = DOMAIN data.caCerts
    /\ \A r \in DOMAIN objects : objects[r] # Unread => IsKobject(r, objects[r])
    /\ op = "write" => \A r \in DOMAIN objects : objects[r] # Unread
    /\ todo \subseteq DOMAIN objects
    /\ op # "write" => todo = {}

ChainInv ==
    /\ PartialChain(data)
    /\ data.ca.key <= serial
    /\ \A i \in DOMAIN data.issued : data.issued[i].key <= serial

\* There is or will be a request because of object o, or others made it one that the
\* manager does not watch.
Noticed(o) ==
    \/ pending
    \/ ~ api[o].annotated
    \/ cache[o] # api[o]
    \/ o \in Configs /\ ~ api[o].found

\* What an operation read of an object is what the cluster has, as long as no request
\* because of the object is on its way.
CacheRead ==
    /\ \A r \in DOMAIN objects :
         objects[r] # Unread /\ ~ Noticed(ObjectOf(r)) => objects[r] = Kobject(cache[ObjectOf(r)])
    /\ \A c \in Configs \ DOMAIN objects : ~ Noticed(c) => DOMAIN cache[c].content = {}

\* Until it is updated the chain has what was read.
DataRead ==
    /\ \A c \in Configs \cap DOMAIN objects : objects[c] # Unread =>
         \A b \in DOMAIN objects[c].content : data.caCerts[b] = objects[c].content[b]
    /\ \A i \in DOMAIN data.issued :
         ~ Noticed(i) => data.issued[i] \in {cache[i].content, NoIssue}

\* An object that was dealt with and that is not noticed had nothing to be written.
Written ==
    \A r \in DOMAIN objects \ todo :
        Noticed(ObjectOf(r)) \/ fromChainMapper(data, r, objects[r].content) = objects[r].content

\* A webhook of which Update changed nothing is in order until the next update is due.
SettledIfUnchanged ==
    \A c \in Configs \cap DOMAIN objects : \A b \in DOMAIN objects[c].content :
        /\ data.ca = objects[CASecret].content
        /\ ~ Noticed(IssueOf[b])
        /\ data.issued[IssueOf[b]] = objects[b].content
        /\ data.caCerts[b] = objects[c].content[b]
        => \A t \in now..updateAt : Settled(data.ca, data.issued[IssueOf[b]], data.caCerts[b], t)

\* The bundles to be written have the unexpired CAs of those that were read and at most
\* one more, the CA of the chain.
ReadBundlesKept ==
    \A c \in Configs \cap DOMAIN objects : \A b \in DOMAIN objects[c].content :
        /\ \A m \in DOMAIN objects[c].content[b] :
             objects[c].content[b][m].notAfter > now
               => \E n \in DOMAIN data.caCerts[b] : data.caCerts[b][n] = objects[c].content[b][m]
        /\ \A n \in DOMAIN data.caCerts[b] :
             \/ \E m \in DOMAIN objects[c].content[b] : data.caCerts[b][n] = objects[c].content[b][m]
             \/ data.caCerts[b][n] = data.ca.cert /\ data.ca.cert.notBefore <= now

\* Between reconciles a webhook is in order until the next one is due, unless one of its
\* objects is noticed.
IdleSettled ==
    \A c \in Configs : \A b \in DOMAIN api[c].content :
        \/ Noticed(c) \/ Noticed(CASecret) \/ Noticed(IssueOf[b])
        \/ \A t \in now..wakeAt :
             Settled(api[CASecret].content, api[IssueOf[b]].content, api[c].content[b], t)

OperationInv ==
    /\ op # "none" => CacheRead
    /\ op \in {"reconcile", "verify"} => DataRead
    /\ op = "write" => Written /\ SettledIfUnchanged /\ ReadBundlesKept
    /\ op \in {"none", "verify"} => IdleSettled

Inv == ScalarsInv /\ VersionsInv /\ ObjectsInv /\ ChainInv /\ OperationInv

------------------------------------------------------------------------------------
(* Names of objects, and what an object can contain.                                *)

\* The kinds of objects and references are disjoint.
LEMMA Names ==
    /\ CASecret \in Objects /\ Issues \subseteq Objects /\ Configs \subseteq Objects
    /\ CASecret \in References /\ Configs \subseteq References /\ Bundles \subseteq References
    /\ CASecret \notin Issues /\ CASecret \notin Configs /\ CASecret \notin Bundles
    /\ \A c \in Configs : c \notin Issues /\ c \notin Bundles /\ ObjectOf(c) = c /\ c # CASecret
    /\ \A b \in Bundles : /\ IssueOf[b] \in Issues /\ ObjectOf(b) = IssueOf[b]
                          /\ IssueOf[b] \notin Configs /\ IssueOf[b] # CASecret
                          /\ b \notin Configs /\ b # CASecret
    /\ ObjectOf(CASecret) = CASecret
    /\ \A r \in References : ObjectOf(r) \in Objects
BY BundlesAssumption, ObjectsAssumption DEF Objects, References, ObjectOf

\* The types of the contents.
LEMMA Contents ==
    /\ \A content : IsContent(CASecret, content) <=> content \in CA
    /\ \A i \in Issues : \A content : IsContent(i, content) <=> content \in CertificateIssue
    /\ \A c \in Configs : \A content :
         IsContent(c, content) <=> /\ DOMAIN content \subseteq BundlesOf(c)
                                   /\ \A b \in DOMAIN content : content[b] \in Seq(Certificate)
    /\ \A c \in Configs : BundlesOf(c) \subseteq Bundles
    /\ \A c \in Configs : \A b \in BundlesOf(c) : ConfigOf[b] = c
BY Names DEF IsContent, BundlesOf

\* A new object has a content of its kind and no key.
LEMMA Creators ==
    /\ \A o \in Objects : IsContent(o, creator(o))
    /\ \A o \in Objects : o \notin Configs => creator(o).key = 0
    /\ \A c \in Configs : creator(c) = [b \in {} |-> << >>] /\ DOMAIN creator(c) = {}
    /\ NoCA \in CA /\ NoIssue \in CertificateIssue
<1>1. NoCert \in Certificate /\ NoKey \in Nat /\ NoKey = 0
  BY DEF NoCert, NoKey, ZeroTime, Certificate
<1>2. NoCA \in CA /\ NoIssue \in CertificateIssue /\ NoCA.key = 0 /\ NoIssue.key = 0
  BY <1>1 DEF NoCA, NoIssue, CA, CertificateIssue
<1>3. creator(CASecret) = NoCA  BY DEF creator
<1>4. \A i \in Issues : creator(i) = NoIssue  BY Names DEF creator
<1>5. \A c \in Configs : creator(c) = [b \in {} |-> << >>] /\ DOMAIN creator(c) = {}
  BY Names DEF creator
<1>6. \A c \in Configs : IsContent(c, creator(c))  BY <1>5, Contents
<1>7. IsContent(CASecret, creator(CASecret))  BY <1>2, <1>3, Contents
<1>8. \A i \in Issues : IsContent(i, creator(i))  BY <1>2, <1>4, Contents
<1> QED  BY <1>2, <1>3, <1>4, <1>5, <1>6, <1>7, <1>8 DEF Objects

\* Keys are numbers.
LEMMA KeysAreNumbers ==
    ASSUME NEW o \in Objects, o \notin Configs, NEW content, IsContent(o, content)
    PROVE  content.key \in Nat
BY Contents DEF Objects, CA, CertificateIssue

\* What get leaves of an object of the cluster.
LEMMA Kobjects ==
    ASSUME VersionsInv, NEW o \in Objects
    PROVE  LET k == Kobject(cache[o])
           IN  /\ k = [rv |-> k.rv, annotated |-> k.annotated, content |-> k.content]
               /\ k.content = cache[o].content
               /\ k.rv \in Nat /\ k.annotated \in BOOLEAN
               /\ IsContent(o, k.content) /\ Known(o, k.content)
               /\ cache[o].found => k.rv = cache[o].rv /\ k.annotated = cache[o].annotated
               /\ o \in Configs /\ DOMAIN k.content # {} => cache[o].found /\ k.rv > 0 /\ k.annotated
<1>1. IsObject(o, cache[o])  BY DEF VersionsInv
<1>2. /\ cache[o].rv \in Nat /\ cache[o].found \in BOOLEAN /\ cache[o].annotated \in BOOLEAN
      /\ IsContent(o, cache[o].content) /\ Known(o, cache[o].content)
      /\ cache[o].found => cache[o].rv > 0
      /\ o \in Configs => cache[o].annotated
      /\ o \in Configs /\ ~ cache[o].found => DOMAIN cache[o].content = {}
  BY <1>1, Creators DEF IsObject, IsVersion
<1> QED  BY <1>2 DEF Kobject

------------------------------------------------------------------------------------
(* Steps that leave the operation alone.                                            *)

\* A step after which an object is not noticed did not change it, and it was not noticed
\* before. Of all steps only the start of a reconcile and of the process are not so.
NoticedKept ==
    \A o \in Objects :
        ~ Noticed(o)' => ~ Noticed(o) /\ cache'[o] = cache[o] /\ api'[o] = api[o]

\* A request is in the queue until a reconcile takes it.
LEMMA QueueKeepsNoticed ==
    ASSUME UNCHANGED <<api, cache>>, pending => pending'
    PROVE  NoticedKept
BY DEF NoticedKept, Noticed

\* The cluster's objects stay what they are when none is written.
LEMMA VersionsUnchanged ==
    ASSUME VersionsInv, ScalarsInv, UNCHANGED <<api, cache>>, serial' \in Nat, serial <= serial'
    PROVE  VersionsInv'
<1> SUFFICES ASSUME NEW o \in Objects
             PROVE  IsObject(o, api[o])' /\ IsObject(o, cache[o])'
  BY DEF VersionsInv
<1>1. IsObject(o, api[o]) /\ IsObject(o, cache[o])  BY DEF VersionsInv
<1>2. serial \in Nat  BY DEF ScalarsInv
<1>3. /\ o \notin Configs => api[o].content.key \in Nat
      /\ o \notin Configs => cache[o].content.key \in Nat
  BY <1>1, KeysAreNumbers DEF IsObject, IsVersion
<1>4. IsObject(o, api[o])'
  BY <1>1, <1>2, <1>3 DEF IsObject, IsVersion, Known
<1>5. IsObject(o, cache[o])'
  BY <1>1, <1>2, <1>3 DEF IsObject, IsVersion, Known
<1> QED  BY <1>4, <1>5

\* Who writes an object gives it a new version, which no cache has yet.
LEMMA ObjectWritten ==
    ASSUME VersionsInv, NEW o \in Objects, NEW v,
           UNCHANGED <<cache, serial>>, pending => pending',
           api' = [api EXCEPT ![o] = v],
           v.rv = api[o].rv + 1,
           IsObject(o, v),
           cache[o].found /\ ~ cache[o].annotated => ~ v.annotated
    PROVE  VersionsInv' /\ NoticedKept /\ Noticed(o)'
<1>1. /\ api'[o] = v
      /\ \A p \in Objects : p # o => api'[p] = api[p]
      /\ DOMAIN api' = Objects
  BY DEF VersionsInv
<1>2. /\ api[o].rv \in Nat /\ cache[o].rv \in Nat /\ cache[o].rv <= api[o].rv
  BY DEF VersionsInv, IsObject, IsVersion
<1>3. cache[o].rv < v.rv /\ cache[o] # v  BY <1>2
<1>4. IsObject(o, api[o])'
  BY <1>1 DEF IsObject, IsVersion, Known
<1>5. \A p \in Objects : IsObject(p, cache[p])'
  BY DEF VersionsInv, IsObject, IsVersion, Known
<1>6. \A p \in Objects : p # o => IsObject(p, api[p])'
  BY <1>1 DEF VersionsInv, IsObject, IsVersion, Known
<1>7. VersionsInv'
  BY <1>1, <1>2, <1>3, <1>4, <1>5, <1>6 DEF VersionsInv
<1>8. Noticed(o)'
  BY <1>1, <1>3 DEF Noticed
<1>9. NoticedKept
  BY <1>1, <1>8 DEF NoticedKept, Noticed
<1> QED  BY <1>7, <1>8, <1>9

\* A step of others, however much time passes, keeps what holds of the operation.
LEMMA OthersStep ==
    ASSUME Inv, NoticedKept, VersionsInv', ScalarsInv',
           UNCHANGED <<opVars, serial>>,
           wakeAt' = wakeAt \/ pending',
           now <= now'
    PROVE  Inv'
<1> USE DEF opVars
<1>1. ScalarsInv /\ VersionsInv /\ ObjectsInv /\ ChainInv /\ OperationInv  BY DEF Inv
<1>2. now \in Nat /\ now' \in Nat /\ updateAt \in Int /\ wakeAt \in Nat  BY <1>1 DEF ScalarsInv
<1>3. ObjectsInv'
  BY <1>1 DEF ObjectsInv, IsKobject, Known
<1>4. ChainInv'
  BY <1>1 DEF ChainInv, PartialChain
<1>5. ASSUME op # "none" PROVE CacheRead'
  <2>1. CacheRead  BY <1>1, <1>5 DEF OperationInv
  <2>2. ASSUME NEW r \in DOMAIN objects, objects[r] # Unread, ~ Noticed(ObjectOf(r))'
        PROVE  objects[r] = Kobject(cache[ObjectOf(r)]')
    <3>1. ObjectOf(r) \in Objects  BY <1>1, Names DEF ObjectsInv
    <3>2. ~ Noticed(ObjectOf(r)) /\ cache'[ObjectOf(r)] = cache[ObjectOf(r)]
      BY <2>2, <3>1 DEF NoticedKept
    <3> QED  BY <2>1, <2>2, <3>2 DEF CacheRead
  <2>3. ASSUME NEW c \in Configs \ DOMAIN objects, ~ Noticed(c)'
        PROVE  DOMAIN cache'[c].content = {}
    BY <2>1, <2>3, Names DEF CacheRead, NoticedKept
  <2> QED  BY <2>2, <2>3 DEF CacheRead
<1>6. ASSUME op \in {"reconcile", "verify"} PROVE DataRead'
  <2>1. DataRead  BY <1>1, <1>6 DEF OperationInv
  <2>2. ASSUME NEW i \in DOMAIN data.issued, ~ Noticed(i)'
        PROVE  data.issued[i] \in {cache'[i].content, NoIssue}
    <3>1. i \in Objects  BY <1>1, Names DEF ChainInv, PartialChain
    <3>2. ~ Noticed(i) /\ cache'[i] = cache[i]
      BY <2>2, <3>1 DEF NoticedKept
    <3> QED  BY <2>1, <3>2 DEF DataRead
  <2> QED  BY <2>1, <2>2 DEF DataRead
<1>7. ASSUME op = "write" PROVE (Written /\ SettledIfUnchanged /\ ReadBundlesKept)'
  <2>1. Written /\ SettledIfUnchanged /\ ReadBundlesKept  BY <1>1, <1>7 DEF OperationInv
  <2>2. Written'
    <3> SUFFICES ASSUME NEW r \in DOMAIN objects \ todo, ~ Noticed(ObjectOf(r))'
                 PROVE  fromChainMapper(data, r, objects[r].content) = objects[r].content
      BY DEF Written, fromChainMapper, mapWebhookFromChain
    <3>1. ObjectOf(r) \in Objects  BY <1>1, Names DEF ObjectsInv
    <3>2. ~ Noticed(ObjectOf(r))  BY <3>1 DEF NoticedKept
    <3> QED  BY <2>1, <3>2 DEF Written
  <2>3. SettledIfUnchanged'
    <3> SUFFICES ASSUME NEW c \in Configs \cap DOMAIN objects, NEW b \in DOMAIN objects[c].content,
                        data.ca = objects[CASecret].content,
                        ~ Noticed(IssueOf[b])',
                        data.issued[IssueOf[b]] = objects[b].content,
                        data.caCerts[b] = objects[c].content[b],
                        NEW t \in now'..updateAt
                 PROVE  Settled(data.ca, data.issued[IssueOf[b]], data.caCerts[b], t)
      BY DEF SettledIfUnchanged
    <3>1. b \in Bundles
      <4>1. IsKobject(c, objects[c])  BY <1>1, <1>7 DEF ObjectsInv
      <4>2. IsContent(c, objects[c].content)  BY <4>1, Names DEF IsKobject
      <4> QED  BY <4>2, Contents
    <3>2. IssueOf[b] \in Objects  BY <3>1, Names
    <3>3. ~ Noticed(IssueOf[b])  BY <3>2 DEF NoticedKept
    <3>4. t \in now..updateAt  BY <1>2
    <3> QED  BY <2>1, <3>3, <3>4 DEF SettledIfUnchanged
  <2>4. ReadBundlesKept'
    <3> SUFFICES ASSUME NEW c \in Configs \cap DOMAIN objects, NEW b \in DOMAIN objects[c].content
                 PROVE  /\ \A m \in DOMAIN objects[c].content[b] :
                             objects[c].content[b][m].notAfter > now' =>
                               \E n \in DOMAIN data.caCerts[b] :
                                  data.caCerts[b][n] = objects[c].content[b][m]
                        /\ \A n \in DOMAIN data.caCerts[b] :
                             \/ \E m \in DOMAIN objects[c].content[b] :
                                  data.caCerts[b][n] = objects[c].content[b][m]
                             \/ data.caCerts[b][n] = data.ca.cert /\ data.ca.cert.notBefore <= now'
      BY DEF ReadBundlesKept
    <3>1. objects[c].content[b] \in Seq(Certificate)
      <4>1. IsKobject(c, objects[c])  BY <1>1, <1>7 DEF ObjectsInv
      <4>2. IsContent(c, objects[c].content)  BY <4>1, Names DEF IsKobject
      <4> QED  BY <4>2, Contents
    <3>2. \A m \in DOMAIN objects[c].content[b] : objects[c].content[b][m].notAfter \in Nat
      BY <3>1, ListTypes
    <3>3. data.ca.cert.notBefore \in Nat
      BY <1>1 DEF ChainInv, PartialChain, CA, Certificate
    <3>4. \A m \in DOMAIN objects[c].content[b] :
            objects[c].content[b][m].notAfter > now' => objects[c].content[b][m].notAfter > now
      BY <1>2, <3>2
    <3>5. data.ca.cert.notBefore <= now => data.ca.cert.notBefore <= now'
      BY <1>2, <3>3
    <3>6. /\ \A m \in DOMAIN objects[c].content[b] :
               objects[c].content[b][m].notAfter > now =>
                 \E n \in DOMAIN data.caCerts[b] :
                    data.caCerts[b][n] = objects[c].content[b][m]
          /\ \A n \in DOMAIN data.caCerts[b] :
               \/ \E m \in DOMAIN objects[c].content[b] :
                    data.caCerts[b][n] = objects[c].content[b][m]
               \/ data.caCerts[b][n] = data.ca.cert /\ data.ca.cert.notBefore <= now
      BY <2>1 DEF ReadBundlesKept
    <3> QED  BY <3>4, <3>5, <3>6
  <2> QED  BY <2>2, <2>3, <2>4
<1>8. ASSUME op \in {"none", "verify"} PROVE IdleSettled'
  <2>1. IdleSettled  BY <1>1, <1>8 DEF OperationInv
  <2> SUFFICES ASSUME NEW c \in Configs, NEW b \in DOMAIN api'[c].content,
                      ~ Noticed(c)', ~ Noticed(CASecret)', ~ Noticed(IssueOf[b])',
                      NEW t \in now'..wakeAt'
               PROVE  Settled(api'[CASecret].content, api'[IssueOf[b]].content,
                              api'[c].content[b], t)
    BY DEF IdleSettled
  <2>2. ~ Noticed(c) /\ api'[c] = api[c]  BY Names DEF NoticedKept
  <2>3. ~ Noticed(CASecret) /\ api'[CASecret] = api[CASecret]  BY Names DEF NoticedKept
  <2>4. b \in Bundles
    <3>1. IsContent(c, api[c].content)  BY <1>1, Names DEF VersionsInv, IsObject, IsVersion
    <3> QED  BY <2>2, <3>1, Contents
  <2>5. ~ Noticed(IssueOf[b]) /\ api'[IssueOf[b]] = api[IssueOf[b]]
    BY <2>4, Names DEF NoticedKept
  <2>6. ~ pending'  BY DEF Noticed
  <2>7. t \in now..wakeAt  BY <1>2, <2>6
  <2> QED  BY <2>1, <2>2, <2>3, <2>5, <2>7 DEF IdleSettled
<1>9. OperationInv'
  BY <1>5, <1>6, <1>7, <1>8 DEF OperationInv
<1> QED  BY <1>3, <1>4, <1>9 DEF Inv

\* An informer that catches up puts a request into the queue unless the object is one
\* that the manager no longer watches.
LEMMA SyncStep ==
    ASSUME Inv, NEW o \in Objects, Sync(o)
    PROVE  Inv'
<1> USE DEF Sync, opVars, boundVars
<1>1. ScalarsInv /\ VersionsInv  BY DEF Inv
<1>2. cache'[o] = api[o] /\ DOMAIN cache' = Objects
      /\ \A p \in Objects : p # o => cache'[p] = cache[p]
  BY <1>1 DEF VersionsInv
<1>3. ScalarsInv'
  <2>1. pending' \in BOOLEAN  OBVIOUS
  <2> QED  BY <1>1, <2>1 DEF ScalarsInv
<1>4. VersionsInv'
  <2>1. \A p \in Objects : IsObject(p, api[p])'
    BY <1>1 DEF VersionsInv, IsObject, IsVersion, Known
  <2>2. ASSUME NEW p \in Objects PROVE IsObject(p, cache[p])'
    <3>1. CASE p = o
      <4>1. IsObject(p, cache[p])' <=> IsObject(p, api[p])'
        BY <1>2, <3>1 DEF IsObject, IsVersion, Known
      <4> QED  BY <2>1, <4>1
    <3>2. CASE p # o
      BY <1>1, <1>2, <3>2 DEF VersionsInv, IsObject, IsVersion, Known
    <3> QED  BY <3>1, <3>2
  <2>3. ASSUME NEW p \in Objects
        PROVE  /\ cache'[p].rv <= api'[p].rv
               /\ cache'[p].rv = api'[p].rv => cache'[p] = api'[p]
               /\ cache'[p].found /\ ~ cache'[p].annotated => ~ api'[p].annotated
    <3>1. CASE p = o
      <4>1. api[p].rv \in Nat  BY <1>1 DEF VersionsInv, IsObject, IsVersion
      <4> QED  BY <1>2, <3>1, <4>1
    <3>2. CASE p # o
      BY <1>1, <1>2, <3>2 DEF VersionsInv
    <3> QED  BY <3>1, <3>2
  <2> QED  BY <1>1, <1>2, <2>1, <2>2, <2>3 DEF VersionsInv
<1>5. ~ onEventForThisWebhook(o) => ~ api[o].annotated \/ (o \in Configs /\ ~ api[o].found)
  BY <1>1 DEF onEventForThisWebhook, VersionsInv
<1>6. NoticedKept
  <2> SUFFICES ASSUME NEW p \in Objects, ~ Noticed(p)'
               PROVE  ~ Noticed(p) /\ cache'[p] = cache[p] /\ api'[p] = api[p]
    BY DEF NoticedKept
  <2>1. /\ ~ pending /\ ~ onEventForThisWebhook(o)
        /\ api[p].annotated /\ (p \in Configs => api[p].found) /\ cache'[p] = api[p]
    BY DEF Noticed
  <2>2. p # o  BY <1>5, <2>1
  <2> QED  BY <1>2, <2>1, <2>2 DEF Noticed
<1>7. now <= now'  BY <1>1 DEF ScalarsInv
<1> QED  BY <1>3, <1>4, <1>6, <1>7, OthersStep

\* The timers of the queue and the clock.
LEMMA QueueStep ==
    ASSUME Inv, Requeue \/ Resync \/ Tick
    PROVE  Inv'
<1> USE DEF Requeue, Resync, Tick, opVars, boundVars, queueVars, clusterVars
<1>1. ScalarsInv /\ VersionsInv  BY DEF Inv
<1>2. UNCHANGED <<api, cache, opVars, serial>> /\ (wakeAt' = wakeAt \/ pending')
      /\ (pending => pending')
  OBVIOUS
<1>3. now <= now' /\ serial' \in Nat /\ serial <= serial'  BY <1>1 DEF ScalarsInv
<1>4. ScalarsInv'
  <2>1. wakeAt' \in Nat /\ now' \in Nat
    BY <1>1, BoundsAssumption DEF ScalarsInv, Never
  <2>2. pending' \in BOOLEAN  BY <1>1 DEF ScalarsInv
  <2>3. UNCHANGED <<op, verifying, updateAt, server, serial, faults, stale>>  OBVIOUS
  <2> QED  BY <1>1, <2>1, <2>2, <2>3 DEF ScalarsInv
<1>5. VersionsInv'  BY <1>1, <1>2, <1>3, VersionsUnchanged
<1>6. NoticedKept  BY <1>2, QueueKeepsNoticed
<1> QED  BY <1>2, <1>3, <1>4, <1>5, <1>6, OthersStep

\* Others interfere.
LEMMA InterferenceStep ==
    ASSUME Inv,
           \/ \E o \in Deletable : DeleteObject(o)
           \/ \E c \in Configs : ApplyConfig(c)
           \/ \E o \in Strippable : RemoveAnnotation(o)
    PROVE  Inv'
<1> USE DEF opVars, queueVars
<1>1. ScalarsInv /\ VersionsInv  BY DEF Inv
<1>2. /\ UNCHANGED <<cache, pending, wakeAt, op, verifying, objects, data, updateAt, todo,
                     server, serial, now, stale>>
      /\ Fault
  BY DEF DeleteObject, ApplyConfig, RemoveAnnotation
<1>3. ScalarsInv'
  <2>1. faults' \in 0..MaxFaults
    BY <1>1, <1>2, BoundsAssumption DEF ScalarsInv, Fault
  <2> QED  BY <1>1, <1>2, <2>1 DEF ScalarsInv
<1>4. \E o \in Objects : \E v :
        /\ api' = [api EXCEPT ![o] = v]
        /\ v.rv = api[o].rv + 1
        /\ IsObject(o, v)
        /\ cache[o].found /\ ~ cache[o].annotated => ~ v.annotated
  <2>1. ASSUME NEW o \in Objects
        PROVE  /\ IsObject(o, api[o]) /\ api[o].rv \in Nat /\ api[o].annotated \in BOOLEAN
               /\ o \in Configs => api[o].annotated
               /\ o \in Configs => cache[o].annotated
               /\ IsContent(o, api[o].content) /\ Known(o, api[o].content)
               /\ cache[o].found /\ ~ cache[o].annotated => ~ api[o].annotated
    BY <1>1 DEF VersionsInv, IsObject, IsVersion
  <2>2. serial \in Nat  BY <1>1 DEF ScalarsInv
  <2>3. ASSUME NEW o \in Deletable, DeleteObject(o)
        PROVE  \E v : /\ o \in Objects
                      /\ api' = [api EXCEPT ![o] = v]
                      /\ v.rv = api[o].rv + 1
                      /\ IsObject(o, v)
                      /\ cache[o].found /\ ~ cache[o].annotated => ~ v.annotated
    <3> DEFINE v == Missing(o, api[o].rv + 1, api[o].annotated)
    <3>1. o \in Objects  BY ObjectsAssumption DEF Objects
    <3>2. v.rv = api[o].rv + 1 /\ ~ v.found /\ v.found \in BOOLEAN
          /\ v.annotated = api[o].annotated /\ v.content = creator(o)
      BY DEF Missing
    <3>3. api' = [api EXCEPT ![o] = v]  BY <2>3 DEF DeleteObject
    <3> HIDE DEF v
    <3>4. IsObject(o, v)
      BY <2>1, <2>2, <3>1, <3>2, Creators DEF IsObject, IsVersion, Known
    <3> QED  BY <2>1, <3>1, <3>2, <3>3, <3>4
  <2>4. ASSUME NEW c \in Configs, ApplyConfig(c)
        PROVE  \E v : /\ api' = [api EXCEPT ![c] = v]
                      /\ v.rv = api[c].rv + 1
                      /\ IsObject(c, v)
                      /\ cache[c].found /\ ~ cache[c].annotated => ~ v.annotated
    <3>1. PICK webhooks \in Manifests :
            api' = [api EXCEPT ![c] = Stored(api[c].rv + 1, TRUE, Manifest(c, webhooks))]
      BY <2>4 DEF ApplyConfig
    <3> DEFINE v == Stored(api[c].rv + 1, TRUE, Manifest(c, webhooks))
    <3>2. v.rv = api[c].rv + 1 /\ v.found /\ v.annotated /\ v.found \in BOOLEAN
          /\ v.annotated \in BOOLEAN /\ v.content = Manifest(c, webhooks)
      BY DEF Stored
    <3>3. api' = [api EXCEPT ![c] = v]  BY <3>1
    <3>4. IsContent(c, Manifest(c, webhooks))
      <4> DEFINE m == Manifest(c, webhooks)
      <4>1. DOMAIN m \subseteq BundlesOf(c) /\ \A b \in DOMAIN m : m[b] = << >>  BY DEF Manifest
      <4>2. << >> \in Seq(Certificate)  OBVIOUS
      <4> HIDE DEF m
      <4>3. IsContent(c, m)  BY <4>1, <4>2, Contents
      <4> QED  BY <4>3 DEF m
    <3> HIDE DEF v
    <3>5. IsObject(c, v)
      BY <2>1, <3>2, <3>4, Names DEF IsObject, IsVersion, Known
    <3> QED  BY <2>1, <3>2, <3>3, <3>5, Names
  <2>5. ASSUME NEW o \in Strippable, RemoveAnnotation(o)
        PROVE  \E v : /\ o \in Objects
                      /\ api' = [api EXCEPT ![o] = v]
                      /\ v.rv = api[o].rv + 1
                      /\ IsObject(o, v)
                      /\ cache[o].found /\ ~ cache[o].annotated => ~ v.annotated
    <3> DEFINE v == Stored(api[o].rv + 1, FALSE, api[o].content)
    <3>1. o \in Objects /\ o \notin Configs  BY ObjectsAssumption DEF Objects
    <3>2. v.rv = api[o].rv + 1 /\ v.found /\ ~ v.annotated /\ v.found \in BOOLEAN
          /\ v.annotated \in BOOLEAN /\ v.content = api[o].content
      BY DEF Stored
    <3>3. api' = [api EXCEPT ![o] = v]  BY <2>5 DEF RemoveAnnotation
    <3> HIDE DEF v
    <3>4. IsObject(o, v)
      BY <2>1, <3>1, <3>2 DEF IsObject, IsVersion, Known
    <3> QED  BY <3>1, <3>2, <3>3, <3>4
  <2> QED  BY <2>3, <2>4, <2>5, Names
<1>5. PICK o \in Objects :
        \E v : /\ api' = [api EXCEPT ![o] = v]
               /\ v.rv = api[o].rv + 1
               /\ IsObject(o, v)
               /\ cache[o].found /\ ~ cache[o].annotated => ~ v.annotated
  BY <1>4
<1>6. PICK v : /\ api' = [api EXCEPT ![o] = v]
               /\ v.rv = api[o].rv + 1
               /\ IsObject(o, v)
               /\ cache[o].found /\ ~ cache[o].annotated => ~ v.annotated
  BY <1>5
<1>7. VersionsInv' /\ NoticedKept  BY <1>1, <1>2, <1>6, ObjectWritten
<1>8. now <= now'  BY <1>1, <1>2 DEF ScalarsInv
<1> QED  BY <1>2, <1>3, <1>7, <1>8, OthersStep

------------------------------------------------------------------------------------
(* The end of an operation.                                                         *)

\* An operation that ends leaves no state behind.
LEMMA Ended ==
    ASSUME End, serial' \in Nat
    PROVE  ObjectsInv' /\ ChainInv'
<1>1. op' = "none" /\ objects' = [r \in {} |-> Unread] /\ data' = NoData /\ todo' = {}
  BY DEF End
<1>2. DOMAIN objects' = {}  BY <1>1
<1>3. data'.ca = NoCA /\ data'.issued = [i \in {} |-> NoIssue] /\ data'.caCerts = [b \in {} |-> << >>]
      /\ data' = [ca |-> data'.ca, issued |-> data'.issued, caCerts |-> data'.caCerts]
  BY <1>1 DEF NoData
<1>4. DOMAIN data'.issued = {} /\ DOMAIN data'.caCerts = {}  BY <1>3
<1>5. ObjectsInv'  BY <1>1, <1>2, <1>4 DEF ObjectsInv
<1>6. data'.ca \in CA /\ data'.ca.key = 0  BY <1>3, Creators DEF NoCA, NoKey
<1>7. PartialChain(data)'
  BY <1>3, <1>4, <1>6 DEF PartialChain
<1>8. ChainInv'  BY <1>4, <1>6, <1>7 DEF ChainInv
<1> QED  BY <1>5, <1>8

\* A reconcile that fails is repeated, a VerifyTLS that fails changed nothing.
LEMMA FailStep ==
    ASSUME Inv, op # "none", Fail, faults' \in 0..MaxFaults
    PROVE  Inv'
<1> USE DEF Fail, clusterVars
<1>1. ScalarsInv /\ VersionsInv /\ OperationInv  BY DEF Inv
<1>2. serial' \in Nat /\ serial <= serial'  BY <1>1 DEF ScalarsInv
<1>3. ObjectsInv' /\ ChainInv'  BY <1>2, Ended
<1>4. VersionsInv'  BY <1>1, <1>2, VersionsUnchanged
<1>5. ScalarsInv'
  <2>1. pending' \in BOOLEAN /\ op' = "none" /\ verifying' = (op' = "verify") /\ updateAt' = 0
    BY DEF End, ZeroTime
  <2>2. UNCHANGED <<wakeAt, now, server, serial, stale>>  OBVIOUS
  <2> QED  BY <1>1, <2>1, <2>2 DEF ScalarsInv
<1>6. IdleSettled'
  <2>1. CASE op # "verify"
    <3>1. pending'  BY <2>1
    <3> QED  BY <3>1 DEF IdleSettled, Noticed
  <2>2. CASE op = "verify"
    <3>1. IdleSettled  BY <1>1, <2>2 DEF OperationInv
    <3>2. pending' = pending  BY <1>1, <2>2 DEF ScalarsInv
    <3> QED  BY <3>1, <3>2 DEF IdleSettled, Noticed
  <2> QED  BY <2>1, <2>2
<1>7. OperationInv'  BY <1>6 DEF OperationInv, End
<1> QED  BY <1>3, <1>4, <1>5, <1>7 DEF Inv

\* The new process has a request unless there is no configuration, and then there is no
\* webhook either.
LEMMA RestartStep ==
    ASSUME Inv, Restart
    PROVE  Inv'
<1> USE DEF Restart
<1>1. ScalarsInv /\ VersionsInv  BY DEF Inv
<1>2. serial' \in Nat /\ serial' = serial  BY <1>1 DEF ScalarsInv
<1>3. ObjectsInv' /\ ChainInv'  BY <1>2, Ended
<1>4. VersionsInv'
  <2>1. \A o \in Objects : IsObject(o, api[o])' /\ IsObject(o, cache[o])' /\ api[o].rv \in Nat
    BY <1>1, <1>2 DEF VersionsInv, IsObject, IsVersion, Known
  <2> QED  BY <1>1, <2>1 DEF VersionsInv
<1>5. ScalarsInv'
  <2>1. Never \in Nat  BY BoundsAssumption DEF Never
  <2>2. faults' \in 0..MaxFaults
    BY <1>1, BoundsAssumption DEF ScalarsInv, Fault
  <2>3. op' = "none" /\ verifying' = (op' = "verify") /\ updateAt' = 0
    BY DEF End, ZeroTime
  <2>4. pending' \in BOOLEAN  OBVIOUS
  <2>5. UNCHANGED <<now, serial, stale>> /\ server' = "waiting" /\ wakeAt' = Never  OBVIOUS
  <2> HIDE DEF Restart
  <2> QED  BY <1>1, <2>1, <2>2, <2>3, <2>4, <2>5 DEF ScalarsInv
<1>6. IdleSettled'
  <2> SUFFICES ASSUME ~ pending', NEW c \in Configs PROVE Noticed(c)'
    BY DEF IdleSettled, Noticed
  <2>1. ~ api[c].found  BY Names
  <2> QED  BY <2>1 DEF Noticed
<1>7. OperationInv'  BY <1>6 DEF OperationInv, End
<1> QED  BY <1>3, <1>4, <1>5, <1>7 DEF Inv

------------------------------------------------------------------------------------
(* The steps of an operation.                                                       *)

\* An operation begins with nothing read.
LEMMA Begun ==
    ASSUME Inv, NEW operation \in {"reconcile", "verify"}, Begin(operation), serial' = serial
    PROVE  ObjectsInv' /\ ChainInv' /\ CacheRead' /\ DataRead'
<1>1. /\ ScalarsInv /\ ObjectsInv
      /\ op = "none" /\ op' = operation /\ data' = NoData /\ todo' = todo
      /\ objects' = [r \in {CASecret} \cup Configs |-> Unread]
  BY DEF Begin, Inv
<1>2. DOMAIN objects' = {CASecret} \cup Configs /\ \A r \in DOMAIN objects' : objects'[r] = Unread
  BY <1>1
<1>3. data'.ca = NoCA /\ data'.issued = [i \in {} |-> NoIssue] /\ data'.caCerts = [b \in {} |-> << >>]
      /\ data' = [ca |-> data'.ca, issued |-> data'.issued, caCerts |-> data'.caCerts]
  BY <1>1 DEF NoData
<1>4. DOMAIN data'.issued = {} /\ DOMAIN data'.caCerts = {}  BY <1>3
<1>5. todo' = {}  BY <1>1 DEF ObjectsInv
<1>6. ObjectsInv'
  <2>1. DOMAIN objects' \subseteq References /\ DOMAIN objects' \cap Bundles = {}
    BY <1>2, Names
  <2> QED  BY <1>1, <1>2, <1>4, <1>5, <2>1 DEF ObjectsInv
<1>7. data'.ca \in CA /\ data'.ca.key = 0  BY <1>3, Creators DEF NoCA, NoKey
<1>8. PartialChain(data)'
  BY <1>3, <1>4, <1>7 DEF PartialChain
<1>9. serial' \in Nat  BY <1>1 DEF ScalarsInv
<1>10. ChainInv'  BY <1>4, <1>7, <1>8, <1>9 DEF ChainInv
<1>11. CacheRead'  BY <1>2 DEF CacheRead
<1>12. DataRead'  BY <1>2, <1>4 DEF DataRead
<1> QED  BY <1>6, <1>10, <1>11, <1>12

\* The start of a reconcile keeps the invariant.
LEMMA StartReconcileStep ==
    ASSUME Inv, StartReconcile
    PROVE  Inv'
<1> USE DEF StartReconcile, clusterVars
<1>1. ScalarsInv /\ VersionsInv  BY DEF Inv
<1>2. ObjectsInv' /\ ChainInv' /\ CacheRead' /\ DataRead'
  <2>1. "reconcile" \in {"reconcile", "verify"}  OBVIOUS
  <2> QED  BY <2>1, Begun
<1>3. VersionsInv'
  <2>1. serial' \in Nat /\ serial <= serial'  BY <1>1 DEF ScalarsInv
  <2> QED  BY <1>1, <2>1, VersionsUnchanged
<1>4. op = "none" /\ op' = "reconcile" /\ updateAt' = updateAt  BY DEF Begin
<1>5. ScalarsInv'
  <2>1. stale' \in 0..MaxStale
    BY <1>1, BoundsAssumption DEF ScalarsInv
  <2>2. UNCHANGED <<wakeAt, verifying, server, serial, now, faults>> /\ pending' = FALSE  OBVIOUS
  <2>3. verifying' = (op' = "verify")  BY <1>1, <1>4, <2>2 DEF ScalarsInv
  <2> HIDE DEF StartReconcile
  <2> QED  BY <1>1, <1>4, <2>1, <2>2, <2>3 DEF ScalarsInv
<1>6. OperationInv'
  BY <1>2, <1>4 DEF OperationInv
<1> QED  BY <1>2, <1>3, <1>5, <1>6 DEF Inv

\* So does the start of VerifyTLS.
LEMMA StartVerifyTLSStep ==
    ASSUME Inv, StartVerifyTLS
    PROVE  Inv'
<1> USE DEF StartVerifyTLS, clusterVars, queueVars, boundVars
<1>1. ScalarsInv /\ VersionsInv /\ OperationInv  BY DEF Inv
<1>2. ObjectsInv' /\ ChainInv' /\ CacheRead' /\ DataRead'
  <2>1. "verify" \in {"reconcile", "verify"}  OBVIOUS
  <2> QED  BY <2>1, Begun
<1>3. VersionsInv'
  <2>1. serial' \in Nat /\ serial <= serial'  BY <1>1 DEF ScalarsInv
  <2> QED  BY <1>1, <2>1, VersionsUnchanged
<1>4. op = "none" /\ op' = "verify" /\ updateAt' = updateAt  BY DEF Begin
<1>5. ScalarsInv'
  <2>1. UNCHANGED <<pending, wakeAt, server, serial, now, faults, stale>>  OBVIOUS
  <2>2. verifying' = (op' = "verify")  BY <1>4
  <2> HIDE DEF StartVerifyTLS
  <2> QED  BY <1>1, <1>4, <2>1, <2>2 DEF ScalarsInv
<1>6. IdleSettled'
  <2>1. IdleSettled  BY <1>1, <1>4 DEF OperationInv
  <2> QED  BY <2>1 DEF IdleSettled, Noticed
<1>7. OperationInv'
  BY <1>2, <1>4, <1>6 DEF OperationInv
<1> QED  BY <1>2, <1>3, <1>5, <1>7 DEF Inv

\* So does its end.
LEMMA VerifyTLSOnceStep ==
    ASSUME Inv, VerifyTLSOnce
    PROVE  Inv'
<1> USE DEF VerifyTLSOnce, clusterVars, queueVars, boundVars
<1>1. ScalarsInv /\ VersionsInv /\ OperationInv  BY DEF Inv
<1>2. serial' \in Nat /\ serial <= serial'  BY <1>1 DEF ScalarsInv
<1>3. ObjectsInv' /\ ChainInv'  BY <1>2, Ended
<1>4. VersionsInv'  BY <1>1, <1>2, VersionsUnchanged
<1>5. ScalarsInv'
  <2>1. op' = "none" /\ verifying' = (op' = "verify") /\ updateAt' = 0
    BY DEF End, ZeroTime
  <2>2. UNCHANGED <<pending, wakeAt, now, serial, faults, stale>>
        /\ server' \in {"waiting", "started"}
    OBVIOUS
  <2> HIDE DEF VerifyTLSOnce
  <2> QED  BY <1>1, <2>1, <2>2 DEF ScalarsInv
<1>6. IdleSettled'
  <2>1. IdleSettled  BY <1>1 DEF OperationInv
  <2> QED  BY <2>1 DEF IdleSettled, Noticed
<1>7. OperationInv'  BY <1>6 DEF OperationInv, End
<1> QED  BY <1>3, <1>4, <1>5, <1>7 DEF Inv

\* What mapping an object to the chain does to its parts.
LEMMA ToChain ==
    ASSUME NEW d, PartialChain(d), NEW n \in Nat, d.ca.key <= n,
           \A i \in DOMAIN d.issued : d.issued[i].key <= n,
           NEW r \in References, r \in Bundles => r \in DOMAIN d.caCerts,
           NEW content, IsContent(ObjectOf(r), content),
           r \notin Configs => content.key <= n
    PROVE  LET e == toChainMapper(d, r, content)
           IN  /\ PartialChain(e)
               /\ e.ca.key <= n
               /\ \A i \in DOMAIN e.issued : e.issued[i].key <= n
               /\ r \notin Configs => e.caCerts = d.caCerts
               /\ r \in Configs => /\ DOMAIN e.caCerts = DOMAIN d.caCerts \cup DOMAIN content
                                   /\ \A b \in DOMAIN content : e.caCerts[b] = content[b]
                                   /\ \A b \in DOMAIN d.caCerts \ DOMAIN content :
                                        e.caCerts[b] = d.caCerts[b]
               /\ \A i \in DOMAIN e.issued :
                    \/ i \in DOMAIN d.issued /\ e.issued[i] = d.issued[i]
                    \/ e.issued[i] = NoIssue
                    \/ i = ObjectOf(r) /\ e.issued[i] = content
<1> DEFINE e == toChainMapper(d, r, content)
<1>1. d = [ca |-> d.ca, issued |-> d.issued, caCerts |-> d.caCerts]  BY DEF PartialChain
<1>2. CASE r = CASecret
  <2>1. e = IF content.key = NoKey \/ content.cert = NoCert THEN d ELSE [d EXCEPT !.ca = content]
    BY <1>2 DEF toChainMapper, mapCASecretToChain
  <2>2. r \notin Configs /\ content \in CA  BY <1>2, Names, Contents
  <2> HIDE DEF e
  <2>3. e.ca \in {d.ca, content} /\ e.issued = d.issued /\ e.caCerts = d.caCerts
        /\ e = [ca |-> e.ca, issued |-> e.issued, caCerts |-> e.caCerts]
    BY <1>1, <2>1
  <2>4. PartialChain(e)  BY <2>2, <2>3 DEF PartialChain
  <2> QED  BY <2>2, <2>3, <2>4 DEF e
<1>3. CASE r \in Bundles
  <2> DEFINE j == IssueOf[r]
  <2>1. r \notin Configs /\ r # CASecret /\ ObjectOf(r) = j /\ content \in CertificateIssue
    BY <1>3, Names, Contents
  <2>2. e = IF content.key = NoKey \/ content.certs = << >> THEN d ELSE [d EXCEPT !.issued[j] = content]
    BY <1>3, <2>1 DEF toChainMapper, mapServiceSecretToChain
  <2>3. j \in DOMAIN d.issued  BY <1>3 DEF PartialChain
  <2> HIDE DEF e, j
  <2>4. /\ e.ca = d.ca /\ e.caCerts = d.caCerts
        /\ e.issued = d.issued \/ e.issued = [d.issued EXCEPT ![j] = content]
        /\ e = [ca |-> e.ca, issued |-> e.issued, caCerts |-> e.caCerts]
    BY <1>1, <2>2
  <2>5. DOMAIN e.issued = DOMAIN d.issued
        /\ \A i \in DOMAIN e.issued : e.issued[i] = d.issued[i] \/ (i = j /\ e.issued[i] = content)
    BY <2>3, <2>4
  <2>6. e.issued = [i \in DOMAIN e.issued |-> e.issued[i]]
    BY <2>3, <2>4 DEF PartialChain
  <2>7. \A i \in DOMAIN e.issued : e.issued[i] \in CertificateIssue /\ e.issued[i].key <= n
    BY <2>1, <2>5 DEF PartialChain
  <2>8. PartialChain(e)  BY <2>4, <2>5, <2>6, <2>7 DEF PartialChain
  <2> QED  BY <2>1, <2>4, <2>5, <2>7, <2>8 DEF e
<1>4. CASE r \in Configs
  <2>1. /\ r \notin Bundles /\ r # CASecret /\ ObjectOf(r) = r
        /\ DOMAIN content \subseteq Bundles
        /\ \A b \in DOMAIN content : content[b] \in Seq(Certificate)
    BY <1>4, Names, Contents
  <2> DEFINE new == {IssueOf[b] : b \in DOMAIN content}
             f == Extend([i \in new |-> NoIssue], d.issued)
             g == Extend(d.caCerts, content)
  <2>2. e = [d EXCEPT !.issued = f, !.caCerts = g]
    BY <2>1 DEF toChainMapper, mapWebhookToChain
  <2>3. /\ DOMAIN f = DOMAIN d.issued \cup new
        /\ f = [i \in DOMAIN f |-> f[i]]
        /\ \A i \in DOMAIN f : f[i] = IF i \in DOMAIN d.issued THEN d.issued[i] ELSE NoIssue
    BY DEF Extend
  <2>4. /\ DOMAIN g = DOMAIN d.caCerts \cup DOMAIN content
        /\ g = [b \in DOMAIN g |-> g[b]]
        /\ \A b \in DOMAIN g : g[b] = IF b \in DOMAIN content THEN content[b] ELSE d.caCerts[b]
    BY DEF Extend
  <2> HIDE DEF e, f, g
  <2>5. /\ e.ca = d.ca /\ e.issued = f /\ e.caCerts = g
        /\ e = [ca |-> e.ca, issued |-> e.issued, caCerts |-> e.caCerts]
    BY <1>1, <2>2
  <2>6. NoIssue \in CertificateIssue /\ NoIssue.key = 0  BY Creators DEF NoIssue, NoKey
  <2>7. ASSUME NEW i \in DOMAIN f PROVE f[i] \in CertificateIssue /\ f[i].key <= n
    <3>1. CASE i \in DOMAIN d.issued  BY <2>3, <3>1 DEF PartialChain
    <3>2. CASE i \notin DOMAIN d.issued  BY <2>3, <2>6, <3>2
    <3> QED  BY <3>1, <3>2
  <2>8. \A b \in DOMAIN g : g[b] \in Seq(Certificate)
    BY <2>1, <2>4 DEF PartialChain
  <2>9. DOMAIN f = {IssueOf[b] : b \in DOMAIN g} /\ DOMAIN g \subseteq Bundles
    BY <2>1, <2>3, <2>4 DEF PartialChain
  <2>10. PartialChain(e)
    BY <2>3, <2>4, <2>5, <2>7, <2>8, <2>9 DEF PartialChain
  <2> QED  BY <1>4, <2>3, <2>4, <2>5, <2>7, <2>10 DEF e
<1> QED  BY <1>2, <1>3, <1>4 DEF References

\* A read adds what the cache has to the objects and to the chain.
LEMMA ReadObjectStep ==
    ASSUME Inv, ReadObject
    PROVE  Inv'
<1>1. ScalarsInv /\ VersionsInv /\ ObjectsInv /\ ChainInv /\ OperationInv  BY DEF Inv
<1>2. op \in {"reconcile", "verify"} /\ CacheRead /\ DataRead
  BY <1>1 DEF ReadObject, OperationInv
<1>3. PICK r \in DOMAIN objects : readObjectToChain(r)  BY DEF ReadObject
<1> DEFINE o == ObjectOf(r)
           kobject == Kobject(cache[o])
           content == cache[o].content
           added == [b \in (IF r \in Configs THEN DOMAIN content ELSE {}) |-> Unread]
           Rest == UNCHANGED <<api, cache, pending, wakeAt, op, verifying, updateAt, todo,
                               server, serial, now, faults, stale>>
<1>4. /\ r \in References /\ o \in Objects
      /\ kobject = [rv |-> kobject.rv, annotated |-> kobject.annotated, content |-> kobject.content]
      /\ kobject.content = content
      /\ kobject.rv \in Nat /\ kobject.annotated \in BOOLEAN
      /\ IsContent(o, content) /\ Known(o, content)
      /\ o \in Configs /\ DOMAIN content # {} => kobject.rv > 0 /\ kobject.annotated
  <2>1. r \in References /\ o \in Objects  BY <1>1, Names DEF ObjectsInv
  <2> HIDE DEF o
  <2> QED  BY <1>1, <2>1, Kobjects
<1>5. \/ Fail /\ UNCHANGED faults
      \/ /\ r \in Configs /\ DOMAIN content = {} /\ Rest
         /\ objects' = [q \in DOMAIN objects \ {r} |-> objects[q]]
         /\ data' = data
      \/ /\ r \in Configs => DOMAIN content # {}
         /\ Rest
         /\ objects' = Extend(Extend(added, objects), [q \in {r} |-> kobject])
         /\ data' = toChainMapper(data, r, content)
  BY <1>3, <1>4 DEF readObjectToChain, clusterVars, queueVars, boundVars
<1> HIDE DEF o, kobject, content
<1>6. CASE Fail /\ UNCHANGED faults
  <2>1. op # "none" /\ faults' \in 0..MaxFaults  BY <1>1, <1>2, <1>6 DEF ScalarsInv
  <2> QED  BY <1>6, <2>1, FailStep
<1>7. ASSUME Rest PROVE ScalarsInv' /\ VersionsInv' /\ (op \in {"none", "verify"} => IdleSettled')
  <2>1. ScalarsInv'  BY <1>1, <1>7 DEF ScalarsInv
  <2>2. serial' \in Nat /\ serial <= serial'  BY <1>1, <1>7 DEF ScalarsInv
  <2>3. VersionsInv'  BY <1>1, <1>7, <2>2, VersionsUnchanged
  <2>4. op = "verify" => IdleSettled  BY <1>1 DEF OperationInv
  <2> QED  BY <1>2, <1>7, <2>1, <2>3, <2>4 DEF IdleSettled, Noticed
<1>8. CASE /\ r \in Configs /\ DOMAIN content = {} /\ Rest
           /\ objects' = [q \in DOMAIN objects \ {r} |-> objects[q]]
           /\ data' = data
  <2>1. DOMAIN objects' = DOMAIN objects \ {r} /\ \A q \in DOMAIN objects' : objects'[q] = objects[q]
    BY <1>8
  <2>2. r # CASecret /\ r \notin Bundles /\ o = r  BY <1>8, Names DEF o
  <2>3. todo = {}  BY <1>1, <1>2 DEF ObjectsInv
  <2>4. ASSUME NEW q \in DOMAIN objects', objects'[q] # Unread PROVE IsKobject(q, objects[q])'
    <3>1. IsKobject(q, objects[q])  BY <1>1, <2>1, <2>4 DEF ObjectsInv
    <3>2. q \in Configs => r \notin DOMAIN objects[q].content
      <4>1. q \in Configs => IsContent(q, objects[q].content)  BY <3>1, Names DEF IsKobject
      <4> QED  BY <2>2, <4>1, Contents
    <3> QED  BY <1>8, <2>1, <3>1, <3>2 DEF IsKobject, Known
  <2>5. ObjectsInv'
    <3>1. DOMAIN objects' \cap Bundles = DOMAIN data'.caCerts
      BY <1>1, <1>8, <2>1, <2>2 DEF ObjectsInv
    <3>2. CASecret \in DOMAIN objects' /\ DOMAIN objects' \subseteq References
      BY <1>1, <1>2, <2>1, <2>2 DEF ObjectsInv
    <3>3. op' = op /\ todo' = {}  BY <1>8, <2>3
    <3> QED  BY <1>2, <2>4, <3>1, <3>2, <3>3 DEF ObjectsInv
  <2>6. ChainInv'  BY <1>1, <1>8 DEF ChainInv, PartialChain
  <2>7. CacheRead'
    <3>1. \A q \in DOMAIN objects' : objects'[q] # Unread /\ ~ Noticed(ObjectOf(q))'
                                       => objects'[q] = Kobject(cache[ObjectOf(q)]')
      BY <1>2, <1>8, <2>1 DEF CacheRead, Noticed
    <3>2. \A c \in Configs \ DOMAIN objects' : ~ Noticed(c)' => DOMAIN cache'[c].content = {}
      BY <1>2, <1>8, <2>1, <2>2 DEF CacheRead, Noticed, content
    <3> QED  BY <3>1, <3>2 DEF CacheRead
  <2>8. DataRead'  BY <1>2, <1>8, <2>1 DEF DataRead, Noticed
  <2>9. OperationInv'
    BY <1>2, <1>7, <1>8, <2>7, <2>8 DEF OperationInv
  <2> QED  BY <1>7, <1>8, <2>5, <2>6, <2>9 DEF Inv
<1>9. CASE /\ r \in Configs => DOMAIN content # {}
           /\ Rest
           /\ objects' = Extend(Extend(added, objects), [q \in {r} |-> kobject])
           /\ data' = toChainMapper(data, r, content)
  <2>1. /\ DOMAIN objects' = DOMAIN added \cup DOMAIN objects
        /\ objects'[r] = kobject
        /\ \A q \in DOMAIN objects : q # r => objects'[q] = objects[q]
        /\ \A q \in DOMAIN objects' \ DOMAIN objects : objects'[q] = Unread
        /\ DOMAIN added = IF r \in Configs THEN DOMAIN content ELSE {}
    <3>1. DOMAIN Extend(added, objects) = DOMAIN added \cup DOMAIN objects
          /\ \A q \in DOMAIN added \cup DOMAIN objects :
               Extend(added, objects)[q] = IF q \in DOMAIN objects THEN objects[q] ELSE added[q]
      BY DEF Extend
    <3>2. \A q \in DOMAIN added : added[q] = Unread  OBVIOUS
    <3>3. DOMAIN added = IF r \in Configs THEN DOMAIN content ELSE {}  OBVIOUS
    <3> DEFINE f == Extend(added, objects)
    <3>4. objects' = [q \in DOMAIN f \cup {r} |-> IF q \in {r} THEN kobject ELSE f[q]]
      BY <1>9 DEF Extend
    <3> HIDE DEF f, added
    <3> QED  BY <3>1, <3>2, <3>3, <3>4 DEF f
  <2> HIDE DEF added
  <2>2. r \in Configs => o = r /\ DOMAIN content \subseteq BundlesOf(r) /\ DOMAIN content \subseteq Bundles
    BY <1>4, Names, Contents DEF o
  <2>3. todo = {}  BY <1>1, <1>2 DEF ObjectsInv
  <2>4. r \in Bundles => r \in DOMAIN data.caCerts  BY <1>1 DEF ObjectsInv
  <2>5. r \notin Configs => o \notin Configs  BY <1>4, Names DEF o, References
  <2>6. /\ PartialChain(data')
        /\ data'.ca.key <= serial
        /\ \A i \in DOMAIN data'.issued : data'.issued[i].key <= serial
        /\ r \notin Configs => data'.caCerts = data.caCerts
        /\ r \in Configs => /\ DOMAIN data'.caCerts = DOMAIN data.caCerts \cup DOMAIN content
                            /\ \A b \in DOMAIN content : data'.caCerts[b] = content[b]
                            /\ \A b \in DOMAIN data.caCerts \ DOMAIN content :
                                 data'.caCerts[b] = data.caCerts[b]
        /\ \A i \in DOMAIN data'.issued :
             \/ i \in DOMAIN data.issued /\ data'.issued[i] = data.issued[i]
             \/ data'.issued[i] = NoIssue
             \/ i = o /\ data'.issued[i] = content
    <3>1. serial \in Nat  BY <1>1 DEF ScalarsInv
    <3>2. /\ PartialChain(data) /\ data.ca.key <= serial
          /\ \A i \in DOMAIN data.issued : data.issued[i].key <= serial
      BY <1>1 DEF ChainInv
    <3>3. IsContent(ObjectOf(r), content)  BY <1>4 DEF o
    <3>4. r \notin Configs => content.key <= serial  BY <1>4, <2>5 DEF Known
    <3>5. data' = toChainMapper(data, r, content)  BY <1>9
    <3> QED  BY <1>4, <2>4, <3>1, <3>2, <3>3, <3>4, <3>5, ToChain DEF o
  <2>7. ChainInv'
    BY <1>9, <2>6 DEF ChainInv, PartialChain
  <2>8. ASSUME NEW q \in DOMAIN objects', objects'[q] # Unread PROVE IsKobject(q, objects[q])'
    <3>1. CASE q = r
      BY <1>4, <1>9, <2>1, <2>2, <3>1, Names DEF IsKobject, Known, o
    <3>2. CASE q # r
      <4>1. q \in DOMAIN objects /\ objects'[q] = objects[q]  BY <2>1, <2>8, <3>2
      <4>2. IsKobject(q, objects[q])  BY <1>1, <2>8, <4>1 DEF ObjectsInv
      <4> QED  BY <1>9, <2>1, <4>1, <4>2 DEF IsKobject, Known
    <3> QED  BY <3>1, <3>2
  <2>9. ObjectsInv'
    <3>1. DOMAIN objects' \cap Bundles = DOMAIN data'.caCerts
      BY <1>1, <2>1, <2>2, <2>6 DEF ObjectsInv
    <3>2. CASecret \in DOMAIN objects' /\ DOMAIN objects' \subseteq References
      BY <1>1, <1>2, <2>1, <2>2, Names DEF ObjectsInv
    <3>3. op' = op /\ todo' = {}  BY <1>9, <2>3
    <3> QED  BY <1>2, <2>8, <3>1, <3>2, <3>3 DEF ObjectsInv
  <2>10. CacheRead'
    <3>1. ASSUME NEW q \in DOMAIN objects', objects'[q] # Unread, ~ Noticed(ObjectOf(q))'
          PROVE  objects'[q] = Kobject(cache[ObjectOf(q)]')
      <4>1. CASE q = r  BY <1>9, <2>1, <4>1 DEF kobject, o
      <4>2. CASE q # r
        <5>1. q \in DOMAIN objects /\ objects'[q] = objects[q]  BY <2>1, <3>1, <4>2
        <5> QED  BY <1>2, <1>9, <3>1, <5>1 DEF CacheRead, Noticed
      <4> QED  BY <4>1, <4>2
    <3>2. \A c \in Configs \ DOMAIN objects' : ~ Noticed(c)' => DOMAIN cache'[c].content = {}
      BY <1>2, <1>9, <2>1 DEF CacheRead, Noticed
    <3> QED  BY <3>1, <3>2 DEF CacheRead
  <2>11. DataRead'
    <3>1. ASSUME NEW c \in Configs \cap DOMAIN objects', objects'[c] # Unread,
                 NEW b \in DOMAIN objects'[c].content
          PROVE  data'.caCerts[b] = objects'[c].content[b]
      <4>1. CASE c = r  BY <1>4, <2>1, <2>6, <4>1
      <4>2. CASE c # r
        <5>1. c \in DOMAIN objects /\ objects'[c] = objects[c]  BY <2>1, <3>1, <4>2
        <5>2. data.caCerts[b] = objects[c].content[b]  BY <1>2, <3>1, <5>1 DEF DataRead
        <5>3. IsKobject(c, objects[c])  BY <1>1, <3>1, <5>1 DEF ObjectsInv
        <5>4. DOMAIN objects[c].content \subseteq BundlesOf(c)
              /\ DOMAIN objects[c].content \subseteq DOMAIN objects
          BY <5>3, Names, Contents DEF IsKobject
        <5>5. b \in DOMAIN data.caCerts /\ ConfigOf[b] = c
          BY <1>1, <5>1, <5>4, Contents DEF ObjectsInv
        <5>6. r \in Configs => b \notin DOMAIN content  BY <2>2, <4>2, <5>5, Contents
        <5> QED  BY <2>6, <5>1, <5>2, <5>5, <5>6
      <4> QED  BY <4>1, <4>2
    <3>2. ASSUME NEW i \in DOMAIN data'.issued, ~ Noticed(i)'
          PROVE  data'.issued[i] \in {cache'[i].content, NoIssue}
      <4>1. ~ Noticed(i) /\ cache' = cache  BY <1>9, <3>2 DEF Noticed
      <4>2. i \in DOMAIN data.issued => data.issued[i] \in {cache[i].content, NoIssue}
        BY <1>2, <4>1 DEF DataRead
      <4> QED  BY <2>6, <4>1, <4>2 DEF content
    <3> QED  BY <3>1, <3>2 DEF DataRead
  <2>12. OperationInv'
    BY <1>2, <1>7, <1>9, <2>10, <2>11 DEF OperationInv
  <2> QED  BY <1>7, <1>9, <2>7, <2>9, <2>12 DEF Inv
<1> QED  BY <1>5, <1>6, <1>8, <1>9

\* What an operation that has read everything knows of a webhook.
LEMMA ReadWebhook ==
    ASSUME Inv, AllRead, op # "none", NEW c \in Configs \cap DOMAIN objects,
           NEW b \in DOMAIN objects[c].content
    PROVE  /\ b \in Bundles /\ IssueOf[b] \in Issues /\ ConfigOf[b] = c
           /\ b \in DOMAIN objects
           /\ b \in DOMAIN data.caCerts
           /\ IssueOf[b] \in DOMAIN data.issued
           /\ objects[c].content[b] \in Seq(Certificate)
           /\ objects[CASecret].content.key \in Nat /\ objects[CASecret].content.key <= serial
           /\ objects[b].content.key \in Nat /\ objects[b].content.key <= serial
           /\ ~ Noticed(IssueOf[b]) => objects[b] = Kobject(cache[IssueOf[b]])
<1>1. ObjectsInv /\ ChainInv /\ CacheRead  BY DEF Inv, OperationInv
<1>2. \A r \in DOMAIN objects : objects[r] # Unread /\ IsKobject(r, objects[r])
  BY <1>1 DEF ObjectsInv, AllRead
<1>3. IsContent(c, objects[c].content) /\ DOMAIN objects[c].content \subseteq DOMAIN objects
  BY <1>2, Names DEF IsKobject
<1>4. b \in BundlesOf(c) /\ b \in Bundles /\ ConfigOf[b] = c /\ objects[c].content[b] \in Seq(Certificate)
  BY <1>3, Contents
<1>5. b \in DOMAIN objects /\ b \in DOMAIN data.caCerts  BY <1>1, <1>3, <1>4 DEF ObjectsInv
<1>6. IssueOf[b] \in DOMAIN data.issued  BY <1>1, <1>5 DEF ChainInv, PartialChain
<1>7. IssueOf[b] \in Issues /\ ObjectOf(b) = IssueOf[b] /\ IssueOf[b] \notin Configs
      /\ IssueOf[b] \in Objects
  BY <1>4, Names
<1>8. IsContent(IssueOf[b], objects[b].content) /\ objects[b].content.key <= serial
  BY <1>2, <1>5, <1>7 DEF IsKobject, Known
<1>9. IsContent(CASecret, objects[CASecret].content) /\ objects[CASecret].content.key <= serial
  BY <1>1, <1>2, Names DEF ObjectsInv, IsKobject, Known
<1>10. objects[b].content.key \in Nat /\ objects[CASecret].content.key \in Nat
  BY <1>7, <1>8, <1>9, Names, KeysAreNumbers
<1>11. ~ Noticed(IssueOf[b]) => objects[b] = Kobject(cache[IssueOf[b]])
  BY <1>1, <1>2, <1>5, <1>7 DEF CacheRead
<1> QED  BY <1>4, <1>5, <1>6, <1>7, <1>8, <1>9, <1>10, <1>11

\* Update is given a mixture of versions. What it leaves alone was in order.
LEMMA UpdateChainStep ==
    ASSUME Inv, UpdateChain
    PROVE  Inv'
<1> DEFINE k == serial + 1
           result == Update(data, k, now)
<1>1. ScalarsInv /\ VersionsInv /\ ObjectsInv /\ ChainInv /\ OperationInv  BY DEF Inv
<1>2. /\ op = "reconcile" /\ AllRead
      /\ Rotates(data, now) => serial < MaxRotations
      /\ op' = "write" /\ data' = result.data /\ updateAt' = result.updateAt
      /\ todo' = DOMAIN objects
      /\ serial' = IF Rotates(data, now) THEN serial + 1 ELSE serial
      /\ UNCHANGED <<api, cache, pending, wakeAt, verifying, objects, server, now, faults, stale>>
  BY DEF UpdateChain, Rotates, clusterVars, queueVars, boundVars
<1>3. CacheRead /\ DataRead  BY <1>1, <1>2 DEF OperationInv
<1>4. serial \in Nat /\ k \in Nat \ {0} /\ now \in Nat  BY <1>1 DEF ScalarsInv
<1>5. /\ PartialChain(data) /\ data.ca.key < k
      /\ \A i \in DOMAIN data.issued : data.issued[i].key < k
  <2>1. PartialChain(data)  BY <1>1 DEF ChainInv
  <2>2. data.ca.key \in Nat /\ \A i \in DOMAIN data.issued : data.issued[i].key \in Nat
    BY <2>1 DEF PartialChain, CA, CertificateIssue
  <2> QED  BY <1>1, <1>4, <2>1, <2>2 DEF ChainInv
<1>6. PartialChain(data') /\ updateAt' \in Int /\ DOMAIN data'.issued = DOMAIN data.issued
  <2> HIDE DEF k
  <2>1. Parts(data, k, now, newChain(data), rotate(newChain(data), k, now),
              Update(data, k, now).data, Update(data, k, now).updateAt)
    BY <1>4, <1>5, UpdateParts
  <2> QED  BY <1>2, <2>1 DEF Parts
<1>7. BundlesKept(data, data', now)
  <2> HIDE DEF k
  <2> QED  BY <1>2, <1>4, <1>5, UpdateKeepsBundles
<1>8. /\ data'.ca.key <= k
      /\ \A i \in DOMAIN data'.issued : data'.issued[i].key <= k
      /\ ~ Rotates(data, now) => /\ data'.ca.key < k
                                 /\ \A i \in DOMAIN data'.issued : data'.issued[i].key < k
  <2> HIDE DEF k
  <2> QED  BY <1>2, <1>4, <1>5, UpdateKeys
<1>9. serial' \in Nat /\ serial <= serial' /\ serial' \in 0..MaxRotations
  BY <1>1, <1>2, <1>4, BoundsAssumption DEF ScalarsInv
<1>10. VersionsInv'  BY <1>1, <1>2, <1>9, VersionsUnchanged
<1>11. ScalarsInv'
  <2>1. verifying' = (op' = "verify")  BY <1>1, <1>2 DEF ScalarsInv
  <2> QED  BY <1>1, <1>2, <1>6, <1>9, <2>1 DEF ScalarsInv
<1>12. ChainInv'
  <2>1. data'.ca.key \in Nat /\ \A i \in DOMAIN data'.issued : data'.issued[i].key \in Nat
    BY <1>6 DEF PartialChain, CA, CertificateIssue
  <2>2. data'.ca.key <= serial' /\ \A i \in DOMAIN data'.issued : data'.issued[i].key <= serial'
    <3> HIDE DEF result
    <3> QED  BY <1>2, <1>4, <1>8, <2>1
  <2>3. PartialChain(data)'  BY <1>6 DEF PartialChain
  <2> QED  BY <2>2, <2>3 DEF ChainInv
<1>13. ObjectsInv'
  <2>1. ASSUME NEW r \in DOMAIN objects PROVE IsKobject(r, objects[r])' /\ objects[r] # Unread
    <3>1. objects[r] # Unread  BY <1>2 DEF AllRead
    <3>2. IsKobject(r, objects[r])  BY <1>1, <3>1 DEF ObjectsInv
    <3>3. ObjectOf(r) \in Objects  BY <1>1, Names DEF ObjectsInv
    <3>4. ObjectOf(r) \notin Configs => objects[r].content.key \in Nat /\ objects[r].content.key <= serial
      BY <3>2, <3>3, KeysAreNumbers DEF IsKobject, Known
    <3>5. ObjectOf(r) \notin Configs => objects[r].content.key <= serial'
      BY <1>4, <1>9, <3>4
    <3> QED  BY <1>2, <3>1, <3>2, <3>5 DEF IsKobject, Known
  <2>2. DOMAIN data'.caCerts = DOMAIN data.caCerts  BY <1>7 DEF BundlesKept
  <2> QED  BY <1>1, <1>2, <2>1, <2>2 DEF ObjectsInv
<1>14. CacheRead'  BY <1>2, <1>3 DEF CacheRead, Noticed
<1>15. Written'  BY <1>2 DEF Written
<1>16. SettledIfUnchanged'
  <2> SUFFICES ASSUME NEW c \in Configs \cap DOMAIN objects, NEW b \in DOMAIN objects[c].content,
                      data'.ca = objects[CASecret].content,
                      ~ Noticed(IssueOf[b])',
                      data'.issued[IssueOf[b]] = objects[b].content,
                      data'.caCerts[b] = objects[c].content[b],
                      NEW t \in now..updateAt'
               PROVE  Settled(data'.ca, data'.issued[IssueOf[b]], data'.caCerts[b], t)
    BY <1>2 DEF SettledIfUnchanged
  <2>1. ~ Noticed(IssueOf[b])  BY <1>2 DEF Noticed
  <2>2. /\ b \in Bundles /\ IssueOf[b] \in Issues
        /\ b \in DOMAIN data.caCerts /\ IssueOf[b] \in DOMAIN data.issued
        /\ objects[CASecret].content.key \in Nat /\ objects[CASecret].content.key <= serial
        /\ objects[b].content.key \in Nat /\ objects[b].content.key <= serial
        /\ objects[b] = Kobject(cache[IssueOf[b]])
    BY <1>2, <2>1, ReadWebhook
  <2>3. objects[b].content = cache[IssueOf[b]].content
    BY <1>1, <2>2, Names, Kobjects
  <2>4. data.issued[IssueOf[b]] \in {data'.issued[IssueOf[b]], [key |-> NoKey, certs |-> << >>]}
    BY <1>3, <2>1, <2>2, <2>3 DEF DataRead, NoIssue
  <2>5. data'.caCerts[b] = data.caCerts[b]
    BY <1>2, <1>3 DEF DataRead, AllRead
  <2>6. data'.ca.key # k /\ data'.issued[IssueOf[b]].key # k
    BY <1>4, <2>2
  <2> HIDE DEF k
  <2> QED  BY <1>2, <1>4, <1>5, <2>2, <2>4, <2>5, <2>6, UpdateUnchanged
<1>17. ReadBundlesKept'
  <2> SUFFICES ASSUME NEW c \in Configs \cap DOMAIN objects, NEW b \in DOMAIN objects[c].content
               PROVE  /\ \A m \in DOMAIN objects[c].content[b] :
                           objects[c].content[b][m].notAfter > now =>
                             \E n \in DOMAIN data'.caCerts[b] :
                                data'.caCerts[b][n] = objects[c].content[b][m]
                      /\ \A n \in DOMAIN data'.caCerts[b] :
                           \/ \E m \in DOMAIN objects[c].content[b] :
                                data'.caCerts[b][n] = objects[c].content[b][m]
                           \/ data'.caCerts[b][n] = data'.ca.cert /\ data'.ca.cert.notBefore <= now
    BY <1>2 DEF ReadBundlesKept
  <2>1. b \in DOMAIN data.caCerts  BY <1>2, ReadWebhook
  <2>2. data.caCerts[b] = objects[c].content[b]
    BY <1>2, <1>3 DEF DataRead, AllRead
  <2> QED  BY <1>7, <2>1, <2>2 DEF BundlesKept
<1>18. OperationInv'
  BY <1>2, <1>14, <1>15, <1>16, <1>17 DEF OperationInv
<1> QED  BY <1>10, <1>11, <1>12, <1>13, <1>18 DEF Inv

\* What an operation writes is a content of the object's kind, and the same whatever
\* version of a configuration with the same webhooks it is written to.
LEMMA FromChain ==
    ASSUME Inv, op = "write", NEW r \in DOMAIN objects, NEW content, IsContent(ObjectOf(r), content)
    PROVE  LET mapped == fromChainMapper(data, r, content)
           IN  /\ IsContent(ObjectOf(r), mapped)
               /\ Known(ObjectOf(r), mapped)
               /\ r \in Configs => DOMAIN mapped = DOMAIN content
               /\ mapped = objects[r].content
                    => fromChainMapper(data, r, objects[r].content) = objects[r].content
<1> DEFINE mapped == fromChainMapper(data, r, content)
           old == objects[r].content
<1>1. ObjectsInv /\ ChainInv  BY DEF Inv
<1>2. PartialChain(data) /\ r \in References  BY <1>1 DEF ChainInv, ObjectsInv
<1>3. CASE r = CASecret
  <2>1. mapped = data.ca /\ fromChainMapper(data, r, old) = data.ca  BY <1>3 DEF fromChainMapper
  <2>2. data.ca \in CA /\ data.ca.key <= serial  BY <1>1, <1>2 DEF ChainInv, PartialChain
  <2>3. r \notin Configs /\ ObjectOf(r) = CASecret  BY <1>3, Names
  <2> HIDE DEF mapped
  <2>4. IsContent(ObjectOf(r), mapped) /\ Known(ObjectOf(r), mapped)
    BY <2>1, <2>2, <2>3, Contents DEF Known
  <2> QED  BY <2>1, <2>3, <2>4 DEF mapped
<1>4. CASE r \in Bundles
  <2> DEFINE i == IssueOf[r]
  <2>1. /\ r # CASecret /\ r \notin Configs /\ ObjectOf(r) = i /\ i \in Issues
        /\ i \in DOMAIN data.issued
    BY <1>1, <1>2, <1>4, Names DEF ObjectsInv, PartialChain
  <2>2. mapped = data.issued[i] /\ fromChainMapper(data, r, old) = data.issued[i]
    BY <1>4, <2>1 DEF fromChainMapper
  <2>3. data.issued[i] \in CertificateIssue /\ data.issued[i].key <= serial
    BY <1>1, <1>2, <2>1 DEF ChainInv, PartialChain
  <2> HIDE DEF mapped, i
  <2>4. IsContent(ObjectOf(r), mapped) /\ Known(ObjectOf(r), mapped)
    BY <2>1, <2>2, <2>3, Contents DEF Known
  <2> QED  BY <2>1, <2>2, <2>4 DEF mapped
<1>5. CASE r \in Configs
  <2>1. r # CASecret /\ r \notin Bundles /\ ObjectOf(r) = r  BY <1>5, Names
  <2>2. ASSUME NEW f
        PROVE  fromChainMapper(data, r, f)
                 = [b \in DOMAIN f |-> IF b \in DOMAIN data.caCerts THEN data.caCerts[b] ELSE f[b]]
    BY <2>1 DEF fromChainMapper, mapWebhookFromChain
  <2>3. DOMAIN content \subseteq BundlesOf(r) /\ \A b \in DOMAIN content : content[b] \in Seq(Certificate)
    BY <1>5, <2>1, Contents
  <2>4. /\ DOMAIN mapped = DOMAIN content
        /\ \A b \in DOMAIN content : mapped[b] \in Seq(Certificate)
    BY <1>2, <2>2, <2>3 DEF PartialChain
  <2>5. ASSUME mapped = old PROVE fromChainMapper(data, r, old) = old
    <3>1. old = [b \in DOMAIN content |-> IF b \in DOMAIN data.caCerts THEN data.caCerts[b] ELSE content[b]]
      BY <2>2, <2>5
    <3>2. IsKobject(r, objects[r])  BY <1>1 DEF ObjectsInv
    <3>3. DOMAIN old \subseteq DOMAIN objects  BY <1>5, <3>2 DEF IsKobject
    <3>4. DOMAIN old \subseteq Bundles
      BY <1>5, <2>1, <3>2, Contents DEF IsKobject
    <3>5. DOMAIN old \subseteq DOMAIN data.caCerts  BY <1>1, <3>3, <3>4 DEF ObjectsInv
    <3>6. old = [b \in DOMAIN old |-> data.caCerts[b]]  BY <3>1, <3>5
    <3>7. fromChainMapper(data, r, old) = [b \in DOMAIN old |-> data.caCerts[b]]
      BY <2>2, <3>5
    <3> QED  BY <3>6, <3>7
  <2> HIDE DEF mapped
  <2>6. IsContent(ObjectOf(r), mapped) /\ Known(ObjectOf(r), mapped)
    BY <1>5, <2>1, <2>3, <2>4, Contents DEF Known
  <2> QED  BY <2>4, <2>5, <2>6 DEF mapped
<1> QED  BY <1>2, <1>3, <1>4, <1>5 DEF References

\* What a write that does not fail does besides the write.
Dealt(r) ==
    /\ todo' = todo \ {r}
    /\ UNCHANGED <<cache, pending, wakeAt, op, verifying, objects, data, updateAt, server,
                   serial, now, faults, stale>>

\* The outcomes of a write: there was nothing to write; the object was still the one that
\* was read, and is written; or it fails. A configuration that was deleted is not created
\* again.
LEMMA WriteCases ==
    ASSUME Inv, WriteObject
    PROVE  \/ Fail /\ UNCHANGED faults
           \/ \E r \in todo :
                /\ Dealt(r) /\ UNCHANGED api
                /\ fromChainMapper(data, r, objects[r].content) = objects[r].content
           \/ \E r \in todo : \E v :
                /\ Dealt(r) /\ api' = [api EXCEPT ![ObjectOf(r)] = v]
                /\ v.rv = api[ObjectOf(r)].rv + 1
                /\ IsObject(ObjectOf(r), v)
                /\ cache[ObjectOf(r)].found /\ ~ cache[ObjectOf(r)].annotated => ~ v.annotated
                /\ v.content = fromChainMapper(data, r, objects[r].content)
                /\ r \in Configs => objects[r].content = api[r].content
<1>1. ScalarsInv /\ VersionsInv /\ ObjectsInv /\ ChainInv  BY DEF Inv
<1>2. op = "write"  BY DEF WriteObject
<1>3. PICK r \in todo : writeObjectFromChain(r)  BY DEF WriteObject
<1> DEFINE o == ObjectOf(r)
           old == objects[r]
           current == IF cache[o].found THEN Kobject(cache[o]) ELSE old
           mapped == [current EXCEPT !.content = fromChainMapper(data, r, current.content)]
           accepts == IF cache[o].found
                        THEN api[o].found /\ api[o].rv = mapped.rv
                        ELSE ~ api[o].found /\ mapped.rv = 0
           v == Stored(api[o].rv + 1, mapped.annotated, mapped.content)
<1>4. \/ mapped = old /\ Dealt(r) /\ UNCHANGED api
      \/ /\ mapped # old /\ old = current /\ accepts
         /\ api' = [api EXCEPT ![o] = v] /\ Dealt(r)
      \/ Fail /\ UNCHANGED faults
  BY <1>3 DEF writeObjectFromChain, Dealt, queueVars, boundVars
<1>5. r \in DOMAIN objects /\ r \in References /\ o \in Objects  BY <1>1, Names DEF ObjectsInv
<1>6. old # Unread /\ IsKobject(r, old)  BY <1>1, <1>2, <1>5 DEF ObjectsInv
<1>7. /\ current = [rv |-> current.rv, annotated |-> current.annotated, content |-> current.content]
      /\ current.rv \in Nat /\ current.annotated \in BOOLEAN
      /\ IsContent(o, current.content)
      /\ cache[o].found => /\ current.rv = cache[o].rv /\ current.annotated = cache[o].annotated
                           /\ current.content = cache[o].content
      /\ o \in Configs => current.annotated
  <2>1. CASE cache[o].found
    <3>1. current = Kobject(cache[o])  BY <2>1
    <3>2. o \in Configs => cache[o].annotated  BY <1>1, <1>5 DEF VersionsInv, IsObject
    <3> HIDE DEF current, o
    <3> QED  BY <1>1, <1>5, <2>1, <3>1, <3>2, Kobjects
  <2>2. CASE ~ cache[o].found
    <3>1. current = old  BY <2>2
    <3>2. o \in Configs => r \in Configs  BY <1>5, Names DEF References
    <3> HIDE DEF current, old
    <3> QED  BY <1>6, <2>2, <3>1, <3>2 DEF IsKobject
  <2> QED  BY <2>1, <2>2
<1> HIDE DEF current
<1>8. /\ mapped.rv = current.rv /\ mapped.annotated = current.annotated
      /\ mapped.content = fromChainMapper(data, r, current.content)
  BY <1>7
<1> HIDE DEF mapped
<1>9. /\ IsContent(o, mapped.content) /\ Known(o, mapped.content)
      /\ mapped.content = old.content => fromChainMapper(data, r, old.content) = old.content
  BY <1>2, <1>5, <1>7, <1>8, FromChain
<1>10. CASE mapped = old /\ Dealt(r) /\ UNCHANGED api
  <2>1. fromChainMapper(data, r, objects[r].content) = objects[r].content  BY <1>9, <1>10
  <2> QED  BY <1>10, <2>1
<1>11. CASE /\ mapped # old /\ old = current /\ accepts
            /\ api' = [api EXCEPT ![o] = v] /\ Dealt(r)
  <2>1. /\ v.rv = api[o].rv + 1 /\ v.found /\ v.annotated = mapped.annotated
        /\ v.content = mapped.content /\ v.found \in BOOLEAN
    BY DEF Stored
  <2>2. api[o].rv \in Nat  BY <1>1, <1>5 DEF VersionsInv, IsObject, IsVersion
  <2>3. api' = [api EXCEPT ![o] = v] /\ Dealt(r) /\ old = current /\ accepts  BY <1>11
  <2> HIDE DEF v
  <2>4. IsObject(o, v)
    BY <1>7, <1>8, <1>9, <2>1, <2>2 DEF IsObject, IsVersion
  <2>5. cache[o].found /\ ~ cache[o].annotated => ~ v.annotated
    BY <1>7, <1>8, <2>1
  <2>6. v.content = fromChainMapper(data, r, objects[r].content)
    BY <1>8, <2>1, <2>3
  <2>7. ASSUME r \in Configs PROVE objects[r].content = api[r].content
    <3>1. o = r  BY <2>7, Names
    <3>2. old.rv > 0  BY <1>6, <2>7 DEF IsKobject
    <3>3. cache[o].found /\ api[o].rv = cache[o].rv
      <4>1. mapped.rv # 0  BY <1>8, <2>3, <3>2
      <4> QED  BY <1>7, <1>8, <2>3, <4>1
    <3>4. api[o] = cache[o]  BY <1>1, <1>5, <3>3 DEF VersionsInv
    <3> QED  BY <1>7, <2>3, <3>1, <3>3, <3>4
  <2> QED  BY <2>1, <2>3, <2>4, <2>5, <2>6, <2>7
<1>12. CASE Fail /\ UNCHANGED faults
  BY <1>12
<1> QED  BY <1>4, <1>10, <1>11, <1>12

\* A written object is noticed, one with nothing to write agrees with the chain.
LEMMA WriteObjectStep ==
    ASSUME Inv, WriteObject
    PROVE  Inv'
<1>1. ScalarsInv /\ VersionsInv /\ ObjectsInv /\ ChainInv /\ OperationInv  BY DEF Inv
<1>2. op = "write"  BY DEF WriteObject
<1>3. CacheRead /\ Written /\ SettledIfUnchanged /\ ReadBundlesKept  BY <1>1, <1>2 DEF OperationInv
<1>4. CASE Fail /\ UNCHANGED faults
  <2>1. op # "none" /\ faults' \in 0..MaxFaults  BY <1>1, <1>2, <1>4 DEF ScalarsInv
  <2> QED  BY <1>4, <2>1, FailStep
<1>5. ASSUME NEW r \in todo, Dealt(r), VersionsInv', NoticedKept,
             \/ Noticed(ObjectOf(r))'
             \/ fromChainMapper(data, r, objects[r].content) = objects[r].content
      PROVE  Inv'
  <2> USE <1>5 DEF Dealt
  <2>1. ScalarsInv'  BY <1>1 DEF ScalarsInv
  <2>2. ObjectsInv'
    <3>1. \A q \in DOMAIN objects : IsKobject(q, objects[q]) <=> IsKobject(q, objects[q])'
      BY DEF IsKobject, Known
    <3> QED  BY <1>1, <1>2, <3>1 DEF ObjectsInv
  <2>3. ChainInv'  BY <1>1 DEF ChainInv, PartialChain
  <2>4. ASSUME NEW q \in DOMAIN objects, ~ Noticed(ObjectOf(q))'
        PROVE  ~ Noticed(ObjectOf(q)) /\ cache'[ObjectOf(q)] = cache[ObjectOf(q)]
    <3>1. ObjectOf(q) \in Objects  BY <1>1, Names DEF ObjectsInv
    <3> QED  BY <2>4, <3>1 DEF NoticedKept
  <2>5. CacheRead'
    <3>1. \A q \in DOMAIN objects : objects[q] # Unread /\ ~ Noticed(ObjectOf(q))'
                                      => objects[q] = Kobject(cache[ObjectOf(q)]')
      BY <1>3, <2>4 DEF CacheRead
    <3>2. \A c \in Configs \ DOMAIN objects : ~ Noticed(c)' => DOMAIN cache'[c].content = {}
      BY <1>3, Names DEF CacheRead, NoticedKept
    <3> QED  BY <3>1, <3>2 DEF CacheRead
  <2>6. Written'
    <3> SUFFICES ASSUME NEW q \in DOMAIN objects \ (todo \ {r}), ~ Noticed(ObjectOf(q))'
                 PROVE  fromChainMapper(data, q, objects[q].content) = objects[q].content
      BY DEF Written, fromChainMapper, mapWebhookFromChain
    <3>1. CASE q = r  BY <3>1
    <3>2. CASE q # r
      <4>1. ~ Noticed(ObjectOf(q))  BY <2>4
      <4> QED  BY <1>3, <3>2, <4>1 DEF Written
    <3> QED  BY <3>1, <3>2
  <2>7. SettledIfUnchanged'
    <3> SUFFICES ASSUME NEW c \in Configs \cap DOMAIN objects, NEW b \in DOMAIN objects[c].content,
                        data.ca = objects[CASecret].content,
                        ~ Noticed(IssueOf[b])',
                        data.issued[IssueOf[b]] = objects[b].content,
                        data.caCerts[b] = objects[c].content[b],
                        NEW t \in now..updateAt
                 PROVE  Settled(data.ca, data.issued[IssueOf[b]], data.caCerts[b], t)
      BY DEF SettledIfUnchanged
    <3>1. AllRead  BY <1>1, <1>2 DEF ObjectsInv, AllRead
    <3>2. IssueOf[b] \in Objects  BY <1>2, <3>1, Names, ReadWebhook
    <3>3. ~ Noticed(IssueOf[b])  BY <3>2 DEF NoticedKept
    <3> QED  BY <1>3, <3>3 DEF SettledIfUnchanged
  <2>8. ReadBundlesKept'  BY <1>3 DEF ReadBundlesKept
  <2>9. OperationInv'  BY <1>2, <2>5, <2>6, <2>7, <2>8 DEF OperationInv
  <2> QED  BY <2>1, <2>2, <2>3, <2>9 DEF Inv
<1>6. ASSUME NEW r \in todo, Dealt(r), UNCHANGED api,
             fromChainMapper(data, r, objects[r].content) = objects[r].content
      PROVE  Inv'
  <2>1. serial' \in Nat /\ serial <= serial' /\ UNCHANGED <<api, cache>> /\ (pending => pending')
    BY <1>1, <1>6 DEF ScalarsInv, Dealt
  <2>2. VersionsInv'  BY <1>1, <2>1, VersionsUnchanged
  <2>3. NoticedKept  BY <2>1, QueueKeepsNoticed
  <2> QED  BY <1>5, <1>6, <2>2, <2>3
<1>7. ASSUME NEW r \in todo, NEW v,
             Dealt(r), api' = [api EXCEPT ![ObjectOf(r)] = v],
             v.rv = api[ObjectOf(r)].rv + 1,
             IsObject(ObjectOf(r), v),
             cache[ObjectOf(r)].found /\ ~ cache[ObjectOf(r)].annotated => ~ v.annotated
      PROVE  Inv'
  <2>1. ObjectOf(r) \in Objects  BY <1>1, Names DEF ObjectsInv
  <2>2. UNCHANGED <<cache, serial>> /\ (pending => pending')  BY <1>7 DEF Dealt
  <2>3. VersionsInv' /\ NoticedKept /\ Noticed(ObjectOf(r))'
    BY <1>1, <1>7, <2>1, <2>2, ObjectWritten
  <2> QED  BY <1>5, <1>7, <2>3
<1> QED  BY <1>4, <1>6, <1>7, WriteCases

\* A reconcile that wrote everything leaves every webhook in order until RequeueAfter has
\* passed, if none of its objects is noticed.
LEMMA FinishReconcileStep ==
    ASSUME Inv, FinishReconcile
    PROVE  Inv'
<1> USE DEF FinishReconcile, clusterVars, boundVars
<1>1. ScalarsInv /\ VersionsInv /\ ObjectsInv /\ ChainInv /\ OperationInv  BY DEF Inv
<1>2. op = "write" /\ todo = {}  OBVIOUS
<1>3. CacheRead /\ Written /\ SettledIfUnchanged  BY <1>1, <1>2 DEF OperationInv
<1>4. serial' \in Nat /\ serial <= serial'  BY <1>1 DEF ScalarsInv
<1>5. ObjectsInv' /\ ChainInv'  BY <1>4, Ended
<1>6. VersionsInv'  BY <1>1, <1>4, VersionsUnchanged
<1>7. ScalarsInv'
  <2>1. op' = "none" /\ verifying' = (op' = "verify") /\ updateAt' = 0
    BY DEF End, ZeroTime
  <2>2. UNCHANGED <<now, serial, server, faults, stale>> /\ pending' \in BOOLEAN
    OBVIOUS
  <2>3. wakeAt' \in Nat  BY <1>1 DEF ScalarsInv
  <2> HIDE DEF FinishReconcile
  <2> QED  BY <1>1, <2>1, <2>2, <2>3 DEF ScalarsInv
<1>8. IdleSettled'
  <2> SUFFICES ASSUME NEW c \in Configs, NEW b \in DOMAIN api[c].content,
                      ~ Noticed(c)', ~ Noticed(CASecret)', ~ Noticed(IssueOf[b])',
                      NEW t \in now..wakeAt'
               PROVE  Settled(api[CASecret].content, api[IssueOf[b]].content, api[c].content[b], t)
    BY DEF IdleSettled
  <2>1. ~ pending' /\ ~ pending /\ ~ (updateAt <= now)  BY DEF Noticed
  <2>2. wakeAt' = updateAt  BY <1>1, <2>1 DEF ScalarsInv
  <2>3. ~ Noticed(c) /\ ~ Noticed(CASecret) /\ ~ Noticed(IssueOf[b])  BY <2>1 DEF Noticed
  <2>4. cache[c] = api[c] /\ cache[CASecret] = api[CASecret] /\ cache[IssueOf[b]] = api[IssueOf[b]]
    BY <2>3 DEF Noticed
  <2>5. c \in DOMAIN objects  BY <1>3, <2>3, <2>4 DEF CacheRead
  <2>6. \A r \in DOMAIN objects : objects[r] # Unread  BY <1>1, <1>2 DEF ObjectsInv
  <2>7. objects[c] = Kobject(cache[c])  BY <1>3, <2>3, <2>5, <2>6, Names DEF CacheRead
  <2>8. objects[c].content = api[c].content  BY <1>1, <2>4, <2>7, Names, Kobjects
  <2>9. AllRead  BY <2>6 DEF AllRead
  <2>10. /\ b \in Bundles /\ IssueOf[b] \in Issues /\ b \in DOMAIN objects
         /\ b \in DOMAIN data.caCerts
         /\ objects[b] = Kobject(cache[IssueOf[b]])
    BY <1>2, <2>3, <2>5, <2>8, <2>9, ReadWebhook
  <2>11. objects[b].content = api[IssueOf[b]].content  BY <1>1, <2>4, <2>10, Names, Kobjects
  <2>12. CASecret \in DOMAIN objects  BY <1>1, <1>2 DEF ObjectsInv
  <2>13. objects[CASecret] = Kobject(cache[CASecret])
    BY <1>3, <2>3, <2>6, <2>12, Names DEF CacheRead
  <2>14. objects[CASecret].content = api[CASecret].content
    BY <1>1, <2>4, <2>13, Names, Kobjects
  <2>15. data.ca = objects[CASecret].content
    <3>1. fromChainMapper(data, CASecret, objects[CASecret].content) = objects[CASecret].content
      BY <1>2, <1>3, <2>3, <2>12, Names DEF Written
    <3> QED  BY <3>1 DEF fromChainMapper
  <2>16. data.issued[IssueOf[b]] = objects[b].content
    <3>1. fromChainMapper(data, b, objects[b].content) = objects[b].content
      BY <1>2, <1>3, <2>3, <2>10, Names DEF Written
    <3> QED  BY <2>10, <3>1, Names DEF fromChainMapper
  <2>17. data.caCerts[b] = objects[c].content[b]
    <3>1. fromChainMapper(data, c, objects[c].content) = objects[c].content
      BY <1>2, <1>3, <2>3, <2>5, Names DEF Written
    <3>2. mapWebhookFromChain(data, objects[c].content) = objects[c].content
      BY <3>1, Names DEF fromChainMapper
    <3>3. b \in DOMAIN objects[c].content  BY <2>8
    <3>4. mapWebhookFromChain(data, objects[c].content)[b] = data.caCerts[b]
      BY <2>10, <3>3 DEF mapWebhookFromChain
    <3> QED  BY <3>2, <3>4
  <2>18. Settled(data.ca, data.issued[IssueOf[b]], data.caCerts[b], t)
    BY <1>3, <2>2, <2>3, <2>5, <2>8, <2>15, <2>16, <2>17 DEF SettledIfUnchanged
  <2> QED  BY <2>8, <2>11, <2>14, <2>15, <2>16, <2>17, <2>18
<1>9. OperationInv'  BY <1>8 DEF OperationInv, End
<1> QED  BY <1>5, <1>6, <1>7, <1>9 DEF Inv

------------------------------------------------------------------------------------
(* The invariant holds, and what follows from it.                                   *)

LEMMA InitInv == Init => Inv
<1> SUFFICES ASSUME Init PROVE Inv
  OBVIOUS
<1> USE DEF Init
<1>1. ScalarsInv
  <2>1. Never \in Nat  BY BoundsAssumption DEF Never
  <2>2. verifying = (op = "verify")  OBVIOUS
  <2> QED  BY <2>1, <2>2, BoundsAssumption DEF ScalarsInv, ZeroTime
<1>2. VersionsInv
  <2>1. DOMAIN api = Objects /\ cache = api  OBVIOUS
  <2>2. ASSUME NEW o \in Objects PROVE IsObject(o, api[o]) /\ api[o].rv \in Nat
    <3>1. CASE o \in Configs
      <4> DEFINE m == Manifest(o, Bundles)
                 v == Stored(1, TRUE, m)
      <4>1. DOMAIN m \subseteq BundlesOf(o) /\ \A b \in DOMAIN m : m[b] = << >>  BY DEF Manifest
      <4>2. << >> \in Seq(Certificate)  OBVIOUS
      <4>3. api[o] = v  BY <3>1
      <4> HIDE DEF m
      <4>4. IsContent(o, m)  BY <3>1, <4>1, <4>2, Contents
      <4>5. /\ v.rv = 1 /\ v.found /\ v.annotated /\ v.content = m
            /\ v.found \in BOOLEAN /\ v.annotated \in BOOLEAN
        BY DEF Stored
      <4> HIDE DEF v, Init
      <4>6. IsObject(o, v) /\ v.rv \in Nat  BY <3>1, <4>4, <4>5 DEF IsObject, IsVersion, Known
      <4> QED  BY <4>3, <4>6
    <3>2. CASE o \notin Configs
      <4> DEFINE v == Missing(o, 0, TRUE)
      <4>1. api[o] = v  BY <3>2
      <4>2. /\ v.rv = 0 /\ ~ v.found /\ v.annotated /\ v.content = creator(o)
            /\ v.found \in BOOLEAN /\ v.annotated \in BOOLEAN
        BY DEF Missing
      <4>3. serial = 0  OBVIOUS
      <4> HIDE DEF v, Init
      <4>4. IsObject(o, v) /\ v.rv \in Nat
        BY <3>2, <4>2, <4>3, Creators DEF IsObject, IsVersion, Known
      <4> QED  BY <4>1, <4>4
    <3> QED  BY <3>1, <3>2
  <2> HIDE DEF Init
  <2> QED  BY <2>1, <2>2 DEF VersionsInv
<1>3. data.ca = NoCA /\ data.issued = [i \in {} |-> NoIssue] /\ data.caCerts = [b \in {} |-> << >>]
      /\ data = [ca |-> data.ca, issued |-> data.issued, caCerts |-> data.caCerts]
  BY DEF NoData
<1>4. DOMAIN data.issued = {} /\ DOMAIN data.caCerts = {} /\ DOMAIN objects = {}  BY <1>3
<1>5. ObjectsInv  BY <1>4 DEF ObjectsInv
<1>6. data.ca \in CA /\ data.ca.key = 0 /\ serial = 0  BY <1>3, Creators DEF NoCA, NoKey
<1>7. ChainInv
  <2> HIDE DEF Init
  <2> QED  BY <1>3, <1>4, <1>6 DEF PartialChain, ChainInv
<1>8. OperationInv  BY DEF OperationInv, IdleSettled, Noticed
<1> QED  BY <1>1, <1>2, <1>5, <1>7, <1>8 DEF Inv

LEMMA NextInv == Inv /\ [Next]_vars => Inv'
<1> SUFFICES ASSUME Inv, [Next]_vars PROVE Inv'
  OBVIOUS
<1>1. ASSUME NEW o \in Objects, Sync(o) PROVE Inv'  BY <1>1, SyncStep
<1>2. CASE Requeue \/ Resync \/ Tick  BY <1>2, QueueStep
<1>3. CASE StartReconcile  BY <1>3, StartReconcileStep
<1>4. CASE StartVerifyTLS  BY <1>4, StartVerifyTLSStep
<1>5. CASE ReadObject  BY <1>5, ReadObjectStep
<1>6. CASE VerifyTLSOnce  BY <1>6, VerifyTLSOnceStep
<1>7. CASE UpdateChain  BY <1>7, UpdateChainStep
<1>8. CASE WriteObject  BY <1>8, WriteObjectStep
<1>9. CASE FinishReconcile  BY <1>9, FinishReconcileStep
<1>10. CASE \/ \E o \in Deletable : DeleteObject(o)
            \/ \E c \in Configs : ApplyConfig(c)
            \/ \E o \in Strippable : RemoveAnnotation(o)
  BY <1>10, InterferenceStep
<1>11. CASE RequestFails
  <2>1. ScalarsInv  BY DEF Inv
  <2>2. faults' \in 0..MaxFaults  BY <1>11, <2>1, BoundsAssumption DEF RequestFails, Fault, ScalarsInv
  <2> QED  BY <1>11, <2>2, FailStep DEF RequestFails
<1>12. CASE Restart  BY <1>12, RestartStep
<1>13. CASE UNCHANGED vars
  <2>1. /\ UNCHANGED <<api, cache, pending, wakeAt, op, verifying, objects, data, updateAt, todo,
                       server, serial, now, faults, stale>>
    BY <1>13 DEF vars, clusterVars, queueVars, opVars, boundVars
  <2>2. ScalarsInv /\ VersionsInv  BY DEF Inv
  <2>3. ScalarsInv'  BY <2>1, <2>2 DEF ScalarsInv
  <2>4. serial' \in Nat /\ serial <= serial' /\ now <= now'  BY <2>1, <2>2 DEF ScalarsInv
  <2>5. VersionsInv'  BY <2>1, <2>2, <2>4, VersionsUnchanged
  <2>6. NoticedKept  BY <2>1, QueueKeepsNoticed
  <2> QED  BY <2>1, <2>3, <2>4, <2>5, <2>6, OthersStep DEF opVars
<1> QED  BY <1>1, <1>2, <1>3, <1>4, <1>5, <1>6, <1>7, <1>8, <1>9, <1>10, <1>11, <1>12, <1>13 DEF Next

\* Whatever others do to the objects, however old the caches are, and wherever requests
\* fail and the process dies, the invariant holds.
THEOREM InvariantHolds == Spec => []Inv
<1> QED  BY InitInv, NextInv, PTL DEF Spec

\* The types, and how the state of an operation hangs together.
THEOREM TypeCorrect == Spec => []TypeOK
<1>1. Inv => TypeOK
  <2> SUFFICES ASSUME Inv PROVE TypeOK
    OBVIOUS
  <2>1. ScalarsInv /\ VersionsInv /\ ObjectsInv /\ ChainInv  BY DEF Inv
  <2>2. \A o \in Objects : IsVersion(o, api[o]) /\ IsVersion(o, cache[o])
    BY <2>1 DEF VersionsInv, IsObject
  <2>3. \A r \in DOMAIN objects : objects[r] # Unread => IsContent(ObjectOf(r), objects[r].content)
    BY <2>1 DEF ObjectsInv, IsKobject
  <2>4. /\ DOMAIN data.caCerts \subseteq Bundles
        /\ DOMAIN data.issued = {IssueOf[b] : b \in DOMAIN data.caCerts}
    BY <2>1 DEF ChainInv, PartialChain
  <2>5. DOMAIN objects \subseteq References /\ todo \subseteq DOMAIN objects
    BY <2>1 DEF ObjectsInv
  <2> QED  BY <2>1, <2>2, <2>3, <2>4, <2>5 DEF TypeOK, ScalarsInv
<1> QED  BY <1>1, InvariantHolds, PTL

\* When the manager has nothing to do, every webhook there is in order.
LEMMA QuietSettled ==
    ASSUME Inv, Quiet, NEW b \in StoredBundles
    PROVE  /\ b \in Bundles
           /\ StoredBundle(b) \in Seq(Certificate)
           /\ Settled(api[CASecret].content, api[IssueOf[b]].content, StoredBundle(b), now)
<1>1. ScalarsInv /\ VersionsInv /\ IdleSettled  BY DEF Inv, OperationInv, Quiet
<1>2. PICK c \in Configs : b \in DOMAIN api[c].content  BY DEF StoredBundles
<1>3. IsContent(c, api[c].content) /\ IsObject(c, api[c])
  BY <1>1, Names DEF VersionsInv, IsObject, IsVersion
<1>4. b \in Bundles /\ ConfigOf[b] = c /\ api[c].content[b] \in Seq(Certificate)
  BY <1>2, <1>3, Contents
<1>5. api[c].found  BY <1>2, <1>3, Creators DEF IsObject
<1>6. \A o \in Objects : (o \in Configs => api[o].found) => ~ Noticed(o)
  BY DEF Quiet, Synced, Noticed
<1>7. ~ Noticed(c) /\ ~ Noticed(CASecret) /\ ~ Noticed(IssueOf[b])
  BY <1>4, <1>5, <1>6, Names
<1>8. now \in now..wakeAt  BY <1>1 DEF Quiet, ScalarsInv
<1>9. StoredBundle(b) = api[c].content[b]  BY <1>4 DEF StoredBundle
<1>10. Settled(api[CASecret].content, api[IssueOf[b]].content, api[c].content[b], now)
  BY <1>1, <1>2, <1>7, <1>8 DEF IdleSettled
<1> QED  BY <1>4, <1>9, <1>10

\* Nothing the manager should react to goes unnoticed: when it has nothing to do, the
\* chain in the cluster verifies.
THEOREM NothingForgotten == Spec => []NothingPendingMeansVerified
<1>1. Inv => NothingPendingMeansVerified
  <2> SUFFICES ASSUME Inv, Quiet PROVE Verify(StoredChain, now)
    BY DEF NothingPendingMeansVerified
  <2> DEFINE d == StoredChain
             e == newChain(d)
             I == {IssueOf[b] : b \in StoredBundles}
  <2>1. /\ d.ca = api[CASecret].content
        /\ d.issued = [i \in I |-> api[i].content]
        /\ d.caCerts = [b \in StoredBundles |-> StoredBundle(b)]
    BY DEF StoredChain
  <2>2. /\ e.ca = IF d.ca.key = NoKey \/ d.ca.cert = NoCert
                    THEN [key |-> NoKey, cert |-> NoCert] ELSE d.ca
        /\ \A i \in DOMAIN d.issued :
             e.issued[i] = IF d.issued[i].key = NoKey \/ d.issued[i].certs = << >>
                             THEN [key |-> NoKey, certs |-> << >>] ELSE d.issued[i]
        /\ e.caCerts = d.caCerts
    BY DEF newChain
  <2> HIDE DEF d, e
  <2>3. ASSUME NEW b \in StoredBundles
        PROVE  /\ getLastCert(e.caCerts[b]) = e.ca.cert
               /\ VerifyTLS(e.issued[IssueOf[b]], e.caCerts[b], now)
    <3>1. Settled(api[CASecret].content, api[IssueOf[b]].content, StoredBundle(b), now)
      BY QuietSettled
    <3>2. d.issued[IssueOf[b]] = api[IssueOf[b]].content /\ IssueOf[b] \in DOMAIN d.issued
      BY <2>1
    <3>3. e.caCerts[b] = StoredBundle(b)  BY <2>1, <2>2
    <3>4. e.ca = api[CASecret].content  BY <2>1, <2>2, <3>1 DEF Settled
    <3>5. e.issued[IssueOf[b]] = api[IssueOf[b]].content
      BY <2>2, <3>1, <3>2 DEF Settled, VerifyTLS
    <3> QED  BY <3>1, <3>3, <3>4, <3>5 DEF Settled, getLastCert
  <2>4. DOMAIN e.caCerts = StoredBundles  BY <2>1, <2>2
  <2>5. verifyTLS(e, now)  BY <2>3, <2>4 DEF verifyTLS
  <2> QED  BY <2>5 DEF Verify, d, e
<1> QED  BY <1>1, InvariantHolds, PTL

------------------------------------------------------------------------------------
(* Rotations at a fixed time.                                                       *)

\* The clock stands still, every webhook has a service of its own, and there are always
\* the same webhooks.
Steady ==
    /\ MaxTime <= StartTime
    /\ Configs # {}
    /\ \A a, b \in Bundles : IssueOf[a] = IssueOf[b] => a = b
    /\ Deletable \cap Configs = {}
    /\ \A webhooks \in Manifests : webhooks = Bundles

\* A configuration has its webhooks, and no certificate is to be replaced.
FreshContent(o, content) ==
    /\ o \in Configs => /\ DOMAIN content = BundlesOf(o)
                        /\ \A b \in DOMAIN content : FreshList(content[b], CAOverlapInterval, StartTime)
    /\ o \in Issues => FreshList(content.certs, CertOverlapInterval, StartTime)

FreshInv ==
    /\ now = StartTime
    /\ \A o \in Objects : FreshContent(o, api[o].content) /\ FreshContent(o, cache[o].content)
    /\ \A r \in DOMAIN objects : objects[r] # Unread => FreshContent(ObjectOf(r), objects[r].content)
    /\ FreshChain(data, StartTime)
    /\ op # "none" => Configs \subseteq DOMAIN objects

IsRead(r) == r \in DOMAIN objects /\ objects[r] # Unread

\* The chain has the complete key pairs that were read.
DecodedInv ==
    op \in {"reconcile", "verify"} =>
        /\ \/ ~ IsRead(CASecret) \/ data.ca = objects[CASecret].content
           \/ objects[CASecret].content.key = NoKey \/ objects[CASecret].content.cert = NoCert
        /\ \A b \in Bundles :
             \/ ~ IsRead(b) \/ data.issued[IssueOf[b]] = objects[b].content
             \/ objects[b].content.key = NoKey \/ objects[b].content.certs = << >>

\* What the operation read of an object, or would read now.
View(r) == IF IsRead(r) THEN objects[r].content ELSE cache[ObjectOf(r)].content

ViewSettled ==
    \A b \in Bundles : Settled(View(CASecret), View(b), View(ConfigOf[b])[b], StartTime)

ClusterSettled ==
    \A b \in Bundles : Settled(api[CASecret].content, api[IssueOf[b]].content,
                               api[ConfigOf[b]].content[b], StartTime)

\* The object changed since the operation read it, or its cache is late.
Differs(r) ==
    \/ cache[ObjectOf(r)] # api[ObjectOf(r)]
    \/ IsRead(r) /\ objects[r] # Kobject(cache[ObjectOf(r)])

\* The cluster has what the operation writes to an object.
AsWritten(r) == fromChainMapper(data, r, api[ObjectOf(r)].content) = api[ObjectOf(r)].content

\* The rotations for which there was a cause and that did not happen yet.
Credit == 1 + faults + 2 * stale - serial

\* Between operations a rotation is due when the chain in the cluster is not in order. A
\* reconcile rotates when what it reads is not in order, and leaves the chain half
\* written when an object differs from what it reads; then another rotation is due. So
\* it is when two objects differ, because the reconcile may still read the new version
\* of one. A write that meets no such object ends with a chain that is in order.
CreditInv ==
    /\ Credit >= 0
    /\ op \in {"none", "verify"} /\ ~ ClusterSettled => Credit >= 1
    /\ op = "reconcile" =>
         /\ ~ ViewSettled => Credit >= 1
         /\ \A r \in References : Differs(r) =>
              /\ Credit >= 1
              /\ ~ ViewSettled => Credit >= 2
              /\ \A q \in References : Differs(q) /\ q # r => Credit >= 2
    /\ op = "write" =>
         /\ SettledChain(data, StartTime)
         /\ \/ Credit >= 1
            \/ /\ \A r \in todo : ~ Differs(r)
               /\ \A r \in References \ todo : AsWritten(r)

RotationsInv == FreshInv /\ DecodedInv /\ CreditInv

------------------------------------------------------------------------------------

\* Every object has one reference.
LEMMA OneReference ==
    ASSUME Steady
    PROVE  /\ \A q, r \in References : ObjectOf(q) = ObjectOf(r) => q = r
           /\ \A o \in Objects : \E r \in References : ObjectOf(r) = o
<1>1. ASSUME NEW q \in References, NEW r \in References, ObjectOf(q) = ObjectOf(r) PROVE q = r
  BY <1>1, Names DEF References, Steady
<1>2. ASSUME NEW o \in Objects PROVE \E r \in References : ObjectOf(r) = o
  BY Names, BundlesAssumption DEF Objects
<1> QED  BY <1>1, <1>2

\* The credit is a number.
LEMMA CreditType ==
    ASSUME ScalarsInv
    PROVE  /\ Credit \in Int /\ serial \in Nat /\ faults \in Nat /\ stale \in Nat
           /\ Credit = 1 + faults + 2 * stale - serial
BY DEF ScalarsInv, Credit

\* A chain without anything is fresh.
LEMMA FreshNothing ==
    /\ FreshChain(NoData, StartTime)
    /\ \A overlap : FreshList(<< >>, overlap, StartTime)
    /\ \A o \in Objects : o \notin Configs => FreshContent(o, creator(o))
<1>1. \A overlap : FreshList(<< >>, overlap, StartTime)  BY DEF FreshList
<1>2. DOMAIN NoData.caCerts = {} /\ DOMAIN NoData.issued = {}  BY DEF NoData
<1>3. \A i \in Issues : creator(i).certs = << >>  BY Names DEF creator, NoIssue
<1> QED  BY <1>1, <1>2, <1>3 DEF FreshChain, FreshContent

\* An operation that ends leaves the cluster, and a credit if that is not in order.
LEMMA EndedRotations ==
    ASSUME Inv, Inv', FreshInv, End, UNCHANGED <<api, now>>, cache' \in {cache, api},
           Credit' >= 0, ~ ClusterSettled => Credit' >= 1
    PROVE  RotationsInv'
<1>1. op' = "none" /\ objects' = [r \in {} |-> Unread] /\ data' = NoData  BY DEF End
<1>2. DOMAIN objects' = {}  BY <1>1
<1>3. FreshInv'
  <2>1. \A o \in Objects : FreshContent(o, api'[o].content) /\ FreshContent(o, cache'[o].content)
    BY DEF FreshInv
  <2>2. FreshChain(data', StartTime)  BY <1>1, FreshNothing
  <2> QED  BY <1>1, <1>2, <2>1, <2>2 DEF FreshInv
<1>4. DecodedInv'  BY <1>1 DEF DecodedInv
<1>5. CreditInv'  BY <1>1 DEF CreditInv, ClusterSettled
<1> QED  BY <1>3, <1>4, <1>5 DEF RotationsInv

\* Nothing happens to objects or to the operation.
LEMMA UnchangedRotations ==
    ASSUME Inv, RotationsInv, UNCHANGED <<api, cache, op, objects, data, todo, serial, now, faults, stale>>
    PROVE  RotationsInv'
<1>1. FreshInv'  BY DEF RotationsInv, FreshInv
<1>2. DecodedInv'  BY DEF RotationsInv, DecodedInv, IsRead
<1>3. CreditInv'
  <2>1. Credit' = Credit  BY DEF Credit
  <2>2. \A r : Differs(r)' <=> Differs(r)  BY DEF Differs, IsRead
  <2>3. ViewSettled' <=> ViewSettled  BY DEF ViewSettled, View, IsRead
  <2>4. ClusterSettled' <=> ClusterSettled  BY DEF ClusterSettled
  <2>5. \A r : AsWritten(r)' <=> AsWritten(r)  BY DEF AsWritten, fromChainMapper, mapWebhookFromChain
  <2> QED  BY <2>1, <2>2, <2>3, <2>4, <2>5 DEF RotationsInv, CreditInv
<1> QED  BY <1>1, <1>2, <1>3 DEF RotationsInv

\* A cache catches up. An object that was read differs still, another does not, but then
\* what the operation is going to read may no longer be in order.
LEMMA SyncRotations ==
    ASSUME Steady, Inv, Inv', RotationsInv, NEW o \in Objects, Sync(o)
    PROVE  RotationsInv'
<1>1. UNCHANGED <<api, op, objects, data, todo, serial, now, faults, stale>>
      /\ cache[o] # api[o] /\ cache' = [cache EXCEPT ![o] = api[o]]
  BY DEF Sync, opVars, boundVars
<1>2. cache'[o] = api[o] /\ \A p \in Objects : p # o => cache'[p] = cache[p]
  BY <1>1 DEF Inv, VersionsInv
<1>3. FreshInv'
  <2>1. \A p \in Objects : FreshContent(p, cache'[p].content)
    BY <1>1, <1>2 DEF RotationsInv, FreshInv
  <2> QED  BY <1>1, <2>1 DEF RotationsInv, FreshInv
<1>4. DecodedInv'  BY <1>1 DEF RotationsInv, DecodedInv, IsRead
<1>5. PICK s \in References : ObjectOf(s) = o  BY OneReference
<1>6. /\ \A r \in References : ObjectOf(r) \in Objects /\ (r # s => ObjectOf(r) # o)
      /\ CASecret \in References /\ \A b \in Bundles : b \in References /\ ConfigOf[b] \in References
  BY <1>5, OneReference, Names, ObjectsAssumption
<1>7. Differs(s) /\ \A r \in References : Differs(r)' => Differs(r)
  BY <1>1, <1>2, <1>5, <1>6 DEF Differs, IsRead
<1>8. /\ Credit' = Credit /\ (ClusterSettled' <=> ClusterSettled)
      /\ \A r : AsWritten(r)' <=> AsWritten(r)
  BY <1>1 DEF Credit, ClusterSettled, AsWritten, fromChainMapper, mapWebhookFromChain
<1>9. \A r \in References : Differs(r)' => (~ ViewSettled' => Credit >= 2) \/ op # "reconcile"
  <2>1. CASE IsRead(s)
    <3>1. \A r \in References : View(r)' = View(r)
      BY <1>1, <1>2, <1>5, <1>6, <2>1 DEF View, IsRead
    <3>2. ViewSettled' <=> ViewSettled  BY <1>6, <3>1 DEF ViewSettled
    <3> QED  BY <1>7, <3>2 DEF RotationsInv, CreditInv
  <2>2. CASE ~ IsRead(s)
    <3>1. ~ Differs(s)'  BY <1>1, <1>2, <1>5, <2>2 DEF Differs, IsRead
    <3> QED  BY <1>7, <3>1 DEF RotationsInv, CreditInv
  <2> QED  BY <2>1, <2>2
<1>10. todo \subseteq References  BY DEF Inv, ObjectsInv
<1>11. op = "reconcile" => Credit >= 1  BY <1>7 DEF RotationsInv, CreditInv
<1>12. CreditInv'
  BY <1>1, <1>7, <1>8, <1>9, <1>10, <1>11 DEF RotationsInv, CreditInv
<1> QED  BY <1>3, <1>4, <1>12 DEF RotationsInv

\* Others change one object, which is a fault.
LEMMA InterferedRotations ==
    ASSUME Steady, Inv, Inv', RotationsInv, NEW o \in Objects, NEW v,
           api' = [api EXCEPT ![o] = v], FreshContent(o, v.content),
           UNCHANGED <<cache, op, objects, data, todo, serial, now, stale>>,
           faults' = faults + 1
    PROVE  RotationsInv'
<1>1. api'[o] = v /\ \A p \in Objects : p # o => api'[p] = api[p]  BY DEF Inv, VersionsInv
<1>2. FreshInv'
  <2>1. \A p \in Objects : FreshContent(p, api'[p].content)
    BY <1>1 DEF RotationsInv, FreshInv
  <2> QED  BY <2>1 DEF RotationsInv, FreshInv
<1>3. DecodedInv'  BY DEF RotationsInv, DecodedInv, IsRead
<1>4. Credit \in Int /\ Credit' = Credit + 1 /\ Credit >= 0
  BY CreditType DEF Inv, Credit, RotationsInv, CreditInv
<1>5. ViewSettled' <=> ViewSettled  BY DEF ViewSettled, View, IsRead
<1>6. \A r \in References : Differs(r)' => Differs(r) \/ ObjectOf(r) = o
  BY <1>1, Names DEF Differs, IsRead
<1>7. \A q, r \in References : Differs(q)' /\ Differs(r)' /\ q # r => Differs(q) \/ Differs(r)
  BY <1>6, OneReference
<1>8. Credit' >= 1 /\ (Credit >= 1 => Credit' >= 2) /\ Credit' >= 0  BY <1>4
<1> HIDE DEF Credit
<1>9. CreditInv'
  BY <1>5, <1>7, <1>8 DEF RotationsInv, CreditInv
<1> QED  BY <1>2, <1>3, <1>9 DEF RotationsInv

\* A fault outside the manager is a cause for one rotation, and changes one object only.
LEMMA InterferenceRotations ==
    ASSUME Steady, Inv, Inv', RotationsInv,
           \/ \E o \in Deletable : DeleteObject(o)
           \/ \E c \in Configs : ApplyConfig(c)
           \/ \E o \in Strippable : RemoveAnnotation(o)
    PROVE  RotationsInv'
<1>1. /\ UNCHANGED <<cache, op, objects, data, todo, serial, now, stale>>
      /\ faults' = faults + 1
  BY DEF DeleteObject, ApplyConfig, RemoveAnnotation, Fault, opVars
<1>2. \E o \in Objects : \E v : api' = [api EXCEPT ![o] = v] /\ FreshContent(o, v.content)
  <2>1. ASSUME NEW o \in Deletable, DeleteObject(o)
        PROVE  \E v : api' = [api EXCEPT ![o] = v] /\ FreshContent(o, v.content) /\ o \in Objects
    <3> DEFINE v == Missing(o, api[o].rv + 1, api[o].annotated)
    <3>1. o \in Objects /\ o \notin Configs  BY ObjectsAssumption DEF Objects, Steady
    <3>2. v.content = creator(o)  BY DEF Missing
    <3>3. api' = [api EXCEPT ![o] = v]  BY <2>1 DEF DeleteObject
    <3> HIDE DEF v
    <3> QED  BY <3>1, <3>2, <3>3, FreshNothing
  <2>2. ASSUME NEW c \in Configs, ApplyConfig(c)
        PROVE  \E v : api' = [api EXCEPT ![c] = v] /\ FreshContent(c, v.content)
    <3> DEFINE m == Manifest(c, Bundles)
               v == Stored(api[c].rv + 1, TRUE, m)
    <3>1. api' = [api EXCEPT ![c] = v]  BY <2>2 DEF ApplyConfig, Steady
    <3>2. v.content = m  BY DEF Stored
    <3>3. DOMAIN m = BundlesOf(c) /\ \A b \in DOMAIN m : m[b] = << >>
      BY DEF Manifest, BundlesOf
    <3> HIDE DEF v, m
    <3>4. FreshContent(c, v.content)
      BY <3>2, <3>3, Names, FreshNothing DEF FreshContent
    <3> QED  BY <3>1, <3>4
  <2>3. ASSUME NEW o \in Strippable, RemoveAnnotation(o)
        PROVE  \E v : api' = [api EXCEPT ![o] = v] /\ FreshContent(o, v.content) /\ o \in Objects
    <3> DEFINE v == Stored(api[o].rv + 1, FALSE, api[o].content)
    <3>1. o \in Objects  BY ObjectsAssumption DEF Objects
    <3>2. v.content = api[o].content  BY DEF Stored
    <3>3. api' = [api EXCEPT ![o] = v]  BY <2>3 DEF RemoveAnnotation
    <3> HIDE DEF v
    <3>4. FreshContent(o, v.content)  BY <3>1, <3>2 DEF RotationsInv, FreshInv
    <3> QED  BY <3>1, <3>3, <3>4
  <2> QED  BY <2>1, <2>2, <2>3, Names
<1>3. PICK o \in Objects : \E v : api' = [api EXCEPT ![o] = v] /\ FreshContent(o, v.content)
  BY <1>2
<1>4. PICK v : api' = [api EXCEPT ![o] = v] /\ FreshContent(o, v.content)  BY <1>3
<1> QED  BY <1>1, <1>4, InterferedRotations

\* A reconcile that starts with caches that caught up reads what the cluster has; one that
\* does not is a cause for two rotations.
LEMMA BeginRotations ==
    ASSUME Steady, Inv, Inv', RotationsInv, StartReconcile \/ StartVerifyTLS
    PROVE  RotationsInv'
<1>1. /\ op = "none" /\ op' \in {"reconcile", "verify"}
      /\ objects' = [r \in {CASecret} \cup Configs |-> Unread] /\ data' = NoData
      /\ UNCHANGED <<api, cache, serial, now, faults>>
      /\ op' = "verify" => stale' = stale
      /\ \/ stale' = stale /\ (op' = "reconcile" => cache = api)
         \/ stale' = stale + 1
  BY DEF StartReconcile, StartVerifyTLS, Begin, Synced, clusterVars, boundVars
<1>2. DOMAIN objects' = {CASecret} \cup Configs /\ \A r \in DOMAIN objects' : objects'[r] = Unread
  BY <1>1
<1>3. \A r : ~ IsRead(r)'  BY <1>2 DEF IsRead
<1>4. FreshInv'
  <2>1. FreshChain(data', StartTime)  BY <1>1, FreshNothing
  <2> QED  BY <1>1, <1>2, <2>1 DEF RotationsInv, FreshInv
<1>5. DecodedInv'  BY <1>3 DEF DecodedInv
<1>6. Credit \in Int /\ Credit >= 0 /\ (~ ClusterSettled => Credit >= 1)
  BY <1>1, CreditType DEF Inv, RotationsInv, CreditInv
<1>7. ClusterSettled' <=> ClusterSettled  BY <1>1 DEF ClusterSettled
<1>8. CASE stale' = stale
  <2>1. Credit' = Credit  BY <1>1, <1>8 DEF Credit
  <2>2. ASSUME op' = "reconcile"
        PROVE  (\A r : ~ Differs(r)') /\ (ViewSettled' <=> ClusterSettled)
    <3>1. cache = api
      <4>1. stale \in Nat  BY DEF Inv, ScalarsInv
      <4> QED  BY <1>1, <1>8, <2>2, <4>1
    <3>2. \A r : ~ Differs(r)'  BY <1>1, <1>3, <3>1 DEF Differs
    <3>3. \A r : View(r)' = api[ObjectOf(r)].content  BY <1>1, <1>3, <3>1 DEF View
    <3>4. \A b \in Bundles : ConfigOf[b] \in Configs  BY ObjectsAssumption
    <3> QED  BY <3>2, <3>3, <3>4, Names DEF ViewSettled, ClusterSettled
  <2>3. CreditInv'
    BY <1>1, <1>6, <1>7, <2>1, <2>2 DEF CreditInv
  <2> QED  BY <1>4, <1>5, <2>3 DEF RotationsInv
<1>9. CASE stale' = stale + 1
  <2>1. stale \in Nat  BY DEF Inv, ScalarsInv
  <2>2. op' = "reconcile"  BY <1>1, <1>9, <2>1
  <2>3. Credit' = Credit + 2
    BY <1>1, <1>9, CreditType DEF Inv, Credit
  <2>4. Credit' >= 0 /\ Credit' >= 1 /\ Credit' >= 2  BY <1>6, <2>3
  <2>5. CreditInv'
    BY <2>2, <2>4 DEF CreditInv
  <2> QED  BY <1>4, <1>5, <2>5 DEF RotationsInv
<1> QED  BY <1>1, <1>8, <1>9

\* The steps in which an operation ends without having written all.
LEMMA FailRotations ==
    ASSUME Steady, Inv, Inv', RotationsInv,
           \/ VerifyTLSOnce \/ Restart \/ RequestFails
           \/ op = "verify" /\ Fail /\ UNCHANGED faults
           \/ Credit >= 1 /\ Fail /\ UNCHANGED faults
    PROVE  RotationsInv'
<1>1. Credit \in Int /\ Credit >= 0
  BY CreditType DEF Inv, RotationsInv, CreditInv
<1>2. /\ End /\ UNCHANGED <<api, now, serial, stale>> /\ cache' \in {cache, api}
      /\ \/ faults' = faults + 1
         \/ faults' = faults /\ (op = "verify" \/ Credit >= 1)
  <2>1. CASE VerifyTLSOnce  BY <2>1 DEF VerifyTLSOnce, clusterVars, boundVars
  <2>2. CASE Restart  BY <2>2 DEF Restart, Fault
  <2>3. CASE RequestFails  BY <2>3 DEF RequestFails, Fault, Fail, clusterVars
  <2>4. CASE \/ op = "verify" /\ Fail /\ UNCHANGED faults
             \/ Credit >= 1 /\ Fail /\ UNCHANGED faults
    BY <2>4 DEF Fail, clusterVars
  <2> QED  BY <2>1, <2>2, <2>3, <2>4
<1>3. faults' = faults => Credit' = Credit  BY <1>2 DEF Credit
<1>4. faults' = faults + 1 => Credit' = Credit + 1
  BY <1>2, CreditType DEF Inv, Credit
<1>5. Credit' >= 0 /\ (~ ClusterSettled => Credit' >= 1)
  <2>1. op = "verify" /\ ~ ClusterSettled => Credit >= 1  BY DEF RotationsInv, CreditInv
  <2> QED  BY <1>1, <1>2, <1>3, <1>4, <2>1
<1>6. FreshInv  BY DEF RotationsInv
<1> QED  BY <1>2, <1>5, <1>6, EndedRotations

\* What mapping an object to the chain does to the key pairs.
LEMMA ToChainKeyPairs ==
    ASSUME NEW d, PartialChain(d), NEW r \in References, NEW content,
           r \in Bundles => IssueOf[r] \in DOMAIN d.issued
    PROVE  LET e == toChainMapper(d, r, content)
           IN  /\ r # CASecret => e.ca = d.ca
               /\ r = CASecret => e.ca = content \/ content.key = NoKey \/ content.cert = NoCert
               /\ \A i \in DOMAIN d.issued : i # ObjectOf(r) => e.issued[i] = d.issued[i]
               /\ r \in Bundles =>
                    e.issued[IssueOf[r]] = content \/ content.key = NoKey \/ content.certs = << >>
<1> DEFINE e == toChainMapper(d, r, content)
<1>1. d = [ca |-> d.ca, issued |-> d.issued, caCerts |-> d.caCerts]  BY DEF PartialChain
<1>2. CASE r = CASecret
  <2>1. e = IF content.key = NoKey \/ content.cert = NoCert THEN d ELSE [d EXCEPT !.ca = content]
    BY <1>2 DEF toChainMapper, mapCASecretToChain
  <2>2. r \notin Bundles  BY <1>2, Names
  <2> HIDE DEF e
  <2>3. e.issued = d.issued /\ (e.ca = content \/ content.key = NoKey \/ content.cert = NoCert)
    BY <1>1, <2>1
  <2> QED  BY <1>2, <2>2, <2>3 DEF e
<1>3. CASE r \in Bundles
  <2> DEFINE j == IssueOf[r]
  <2>1. r # CASecret /\ ObjectOf(r) = j  BY <1>3, Names
  <2>2. e = IF content.key = NoKey \/ content.certs = << >> THEN d ELSE [d EXCEPT !.issued[j] = content]
    BY <1>3, <2>1 DEF toChainMapper, mapServiceSecretToChain
  <2>3. j \in DOMAIN d.issued  BY <1>3
  <2> HIDE DEF e, j
  <2>4. /\ e.ca = d.ca
        /\ \A i \in DOMAIN d.issued : i # j => e.issued[i] = d.issued[i]
        /\ e.issued[j] = content \/ content.key = NoKey \/ content.certs = << >>
    BY <1>1, <2>2, <2>3
  <2> QED  BY <1>3, <2>1, <2>4 DEF e, j
<1>4. CASE r \in Configs
  <2>1. r \notin Bundles /\ r # CASecret  BY <1>4, Names
  <2> DEFINE new == [i \in {IssueOf[b] : b \in DOMAIN content} |-> NoIssue]
             f == Extend(new, d.issued)
             g == Extend(d.caCerts, content)
  <2>2. e = [d EXCEPT !.issued = f, !.caCerts = g]
    BY <2>1 DEF toChainMapper, mapWebhookToChain
  <2>3. \A i \in DOMAIN d.issued : f[i] = d.issued[i]  BY DEF Extend
  <2> HIDE DEF e, f, g
  <2>4. e.ca = d.ca /\ e.issued = f  BY <1>1, <2>2
  <2> QED  BY <2>1, <2>3, <2>4 DEF e
<1> QED  BY <1>2, <1>3, <1>4 DEF References

\* What a read does to the objects and to the chain.
LEMMA ReadFresh ==
    ASSUME Inv, FreshInv, ReadObject
    PROVE  \/ op = "verify" /\ Fail /\ UNCHANGED faults
           \/ \E r \in DOMAIN objects :
                /\ objects[r] = Unread
                /\ UNCHANGED <<api, cache, op, todo, serial, now, faults, stale>>
                /\ DOMAIN objects \subseteq DOMAIN objects'
                /\ objects'[r] = Kobject(cache[ObjectOf(r)])
                /\ \A q \in DOMAIN objects : q # r => objects'[q] = objects[q]
                /\ \A q \in DOMAIN objects' \ DOMAIN objects : objects'[q] = Unread
                /\ data' = toChainMapper(data, r, cache[ObjectOf(r)].content)
<1>1. ScalarsInv /\ VersionsInv /\ ObjectsInv  BY DEF Inv
<1>2. PICK r \in DOMAIN objects : readObjectToChain(r)  BY DEF ReadObject
<1> DEFINE o == ObjectOf(r)
           content == cache[o].content
           kobject == Kobject(cache[o])
           added == [b \in (IF r \in Configs THEN DOMAIN content ELSE {}) |-> Unread]
           f == Extend(added, objects)
           Rest == UNCHANGED <<api, cache, op, todo, serial, now, faults, stale>>
<1>3. r \in References /\ o \in Objects  BY <1>1, Names DEF ObjectsInv
<1>4. kobject.content = content
  <2> HIDE DEF o
  <2> QED  BY <1>1, <1>3, Kobjects
<1>5. r \in Configs => DOMAIN content # {}
  <2> SUFFICES ASSUME r \in Configs PROVE DOMAIN content # {}
    OBVIOUS
  <2>1. FreshContent(r, content)  BY <1>3, Names DEF FreshInv
  <2>2. BundlesOf(r) # {}  BY ObjectsAssumption DEF BundlesOf
  <2> QED  BY <2>1, <2>2 DEF FreshContent
<1>6. /\ objects[r] = Unread
      /\ \/ verifying /\ Fail /\ UNCHANGED faults
         \/ /\ Rest
            /\ objects' = Extend(f, [q \in {r} |-> kobject])
            /\ data' = toChainMapper(data, r, content)
  BY <1>2, <1>4, <1>5 DEF readObjectToChain, clusterVars, queueVars, boundVars
<1>7. verifying => op = "verify"  BY <1>1 DEF ScalarsInv
<1>8. ASSUME objects' = Extend(f, [q \in {r} |-> kobject])
      PROVE  /\ DOMAIN objects \subseteq DOMAIN objects'
             /\ objects'[r] = kobject
             /\ \A q \in DOMAIN objects : q # r => objects'[q] = objects[q]
             /\ \A q \in DOMAIN objects' \ DOMAIN objects : objects'[q] = Unread
  <2>1. /\ DOMAIN f = DOMAIN added \cup DOMAIN objects
        /\ \A q \in DOMAIN added \cup DOMAIN objects :
             f[q] = IF q \in DOMAIN objects THEN objects[q] ELSE added[q]
    BY DEF Extend
  <2>2. \A q \in DOMAIN added : added[q] = Unread  OBVIOUS
  <2>3. objects' = [q \in DOMAIN f \cup {r} |-> IF q \in {r} THEN kobject ELSE f[q]]
    BY <1>8 DEF Extend
  <2> HIDE DEF f, added, kobject, o
  <2> QED  BY <2>1, <2>2, <2>3
<1> HIDE DEF f, kobject, content
<1> QED  BY <1>6, <1>7, <1>8 DEF kobject, content

\* A read does not change what the operation reads in all.
LEMMA ReadRotations ==
    ASSUME Steady, Inv, Inv', RotationsInv, ReadObject
    PROVE  RotationsInv'
<1>1. ScalarsInv /\ VersionsInv /\ ObjectsInv /\ ChainInv /\ FreshInv /\ DecodedInv /\ CreditInv
  BY DEF Inv, RotationsInv
<1>2. CASE op = "verify" /\ Fail /\ UNCHANGED faults  BY <1>2, FailRotations
<1>3. ASSUME NEW r \in DOMAIN objects,
             objects[r] = Unread,
             UNCHANGED <<api, cache, op, todo, serial, now, faults, stale>>,
             DOMAIN objects \subseteq DOMAIN objects',
             objects'[r] = Kobject(cache[ObjectOf(r)]),
             \A q \in DOMAIN objects : q # r => objects'[q] = objects[q],
             \A q \in DOMAIN objects' \ DOMAIN objects : objects'[q] = Unread,
             data' = toChainMapper(data, r, cache[ObjectOf(r)].content)
      PROVE  RotationsInv'
  <2> DEFINE o == ObjectOf(r)
             content == cache[o].content
  <2>1. op \in {"reconcile", "verify"}  BY DEF ReadObject
  <2>2. /\ r \in References /\ o \in Objects
        /\ Kobject(cache[o]).content = content /\ IsContent(o, content) /\ Known(o, content)
        /\ FreshContent(o, content)
    <3>1. r \in References /\ o \in Objects  BY <1>1, Names DEF ObjectsInv
    <3>2. FreshContent(o, content)  BY <1>1, <3>1 DEF FreshInv
    <3> HIDE DEF o
    <3> QED  BY <1>1, <3>1, <3>2, Kobjects
  <2>3. ~ IsRead(r) /\ \A q : q # r => (IsRead(q)' <=> IsRead(q)) /\ (IsRead(q) => objects'[q] = objects[q])
    BY <1>3 DEF IsRead
  <2>4. /\ PartialChain(data)
        /\ r \in Bundles => r \in DOMAIN data.caCerts /\ IssueOf[r] \in DOMAIN data.issued
    BY <1>1 DEF ChainInv, ObjectsInv, PartialChain
  <2>5. /\ r \notin Configs => data'.caCerts = data.caCerts
        /\ r \in Configs => /\ DOMAIN data'.caCerts = DOMAIN data.caCerts \cup DOMAIN content
                            /\ \A b \in DOMAIN content : data'.caCerts[b] = content[b]
                            /\ \A b \in DOMAIN data.caCerts \ DOMAIN content :
                                 data'.caCerts[b] = data.caCerts[b]
        /\ \A i \in DOMAIN data'.issued :
             \/ i \in DOMAIN data.issued /\ data'.issued[i] = data.issued[i]
             \/ data'.issued[i] = NoIssue
             \/ i = o /\ data'.issued[i] = content
        /\ PartialChain(data')
    <3>1. data.ca.key <= serial /\ (\A i \in DOMAIN data.issued : data.issued[i].key <= serial) /\ serial \in Nat
      BY <1>1 DEF ChainInv, ScalarsInv
    <3>2. r \notin Configs => content.key <= serial
      BY <2>2, Names DEF References, Known
    <3> HIDE DEF content
    <3> QED  BY <1>3, <2>2, <2>4, <3>1, <3>2, ToChain DEF content
  <2>6. /\ r # CASecret => data'.ca = data.ca
        /\ r = CASecret => data'.ca = content \/ content.key = NoKey \/ content.cert = NoCert
        /\ \A i \in DOMAIN data.issued : i # o => data'.issued[i] = data.issued[i]
        /\ r \in Bundles =>
             data'.issued[IssueOf[r]] = content \/ content.key = NoKey \/ content.certs = << >>
    BY <1>3, <2>2, <2>4, ToChainKeyPairs
  <2> HIDE DEF o, content
  <2>7. FreshChain(data', StartTime)
    <3>1. FreshChain(data, StartTime)  BY <1>1 DEF FreshInv
    <3>2. ASSUME NEW b \in DOMAIN data'.caCerts
          PROVE  FreshList(data'.caCerts[b], CAOverlapInterval, StartTime)
      <4>1. CASE r \notin Configs  BY <2>5, <3>1, <4>1 DEF FreshChain
      <4>2. CASE r \in Configs
        <5>1. o \in Configs  BY <4>2, Names DEF o
        <5> QED  BY <2>2, <2>5, <3>1, <4>2, <5>1 DEF FreshChain, FreshContent
      <4> QED  BY <4>1, <4>2
    <3>3. ASSUME NEW i \in DOMAIN data'.issued
          PROVE  FreshList(data'.issued[i].certs, CertOverlapInterval, StartTime)
      <4>1. i \in Issues  BY <2>5, BundlesAssumption DEF PartialChain
      <4>2. CASE i \in DOMAIN data.issued /\ data'.issued[i] = data.issued[i]
        BY <3>1, <4>2 DEF FreshChain
      <4>3. CASE data'.issued[i] = NoIssue
        <5>1. NoIssue.certs = << >>  BY DEF NoIssue
        <5> QED  BY <4>3, <5>1, FreshNothing
      <4>4. CASE i = o /\ data'.issued[i] = content  BY <2>2, <4>1, <4>4 DEF FreshContent
      <4> QED  BY <2>5, <4>2, <4>3, <4>4
    <3> QED  BY <3>2, <3>3 DEF FreshChain
  <2>8. FreshInv'
    <3>1. ASSUME NEW q \in DOMAIN objects', objects'[q] # Unread
          PROVE  FreshContent(ObjectOf(q), objects'[q].content)
      <4>1. CASE q = r  BY <1>3, <2>2, <4>1 DEF o
      <4>2. CASE q # r
        <5>1. q \in DOMAIN objects /\ objects'[q] = objects[q]  BY <1>3, <3>1, <4>2
        <5> QED  BY <1>1, <3>1, <5>1 DEF FreshInv
      <4> QED  BY <4>1, <4>2
    <3> QED  BY <1>1, <1>3, <2>7, <3>1 DEF FreshInv
  <2>9. DecodedInv'
    <3>1. \/ ~ IsRead(CASecret)' \/ data'.ca = objects'[CASecret].content
          \/ objects'[CASecret].content.key = NoKey \/ objects'[CASecret].content.cert = NoCert
      <4>1. CASE r = CASecret
        <5>1. objects'[CASecret].content = content  BY <1>3, <2>2, <4>1 DEF o
        <5> QED  BY <2>6, <4>1, <5>1
      <4>2. CASE r # CASecret  BY <1>1, <2>1, <2>3, <2>6, <4>2 DEF DecodedInv
      <4> QED  BY <4>1, <4>2
    <3>2. ASSUME NEW b \in Bundles, IsRead(b)'
          PROVE  \/ data'.issued[IssueOf[b]] = objects'[b].content
                 \/ objects'[b].content.key = NoKey \/ objects'[b].content.certs = << >>
      <4>1. CASE r = b
        <5>1. objects'[b].content = content  BY <1>3, <2>2, <4>1 DEF o
        <5> QED  BY <2>6, <4>1, <5>1
      <4>2. CASE r # b
        <5>1. IsRead(b) /\ objects'[b] = objects[b]  BY <2>3, <3>2, <4>2
        <5>2. IssueOf[b] \in DOMAIN data.issued
          BY <1>1, <2>4, <5>1 DEF IsRead, ObjectsInv, PartialChain
        <5>3. IssueOf[b] # o  BY <2>2, <4>2, Names, OneReference DEF o
        <5>4. data'.issued[IssueOf[b]] = data.issued[IssueOf[b]]  BY <2>6, <5>2, <5>3
        <5> QED  BY <1>1, <2>1, <5>1, <5>4 DEF DecodedInv
      <4> QED  BY <4>1, <4>2
    <3> QED  BY <3>1, <3>2 DEF DecodedInv
  <2>10. /\ \A q \in References : View(q)' = View(q) /\ (Differs(q)' <=> Differs(q))
         /\ Credit' = Credit /\ (ClusterSettled' <=> ClusterSettled)
    <3>1. ASSUME NEW q \in References PROVE View(q)' = View(q) /\ (Differs(q)' <=> Differs(q))
      <4>1. CASE q = r
        <5>1. View(q)' = content /\ View(q) = content
          BY <1>3, <2>2, <2>3, <4>1 DEF View, o, content
        <5>2. Differs(q)' <=> Differs(q)  BY <1>3, <2>3, <4>1 DEF Differs
        <5> QED  BY <5>1, <5>2
      <4>2. CASE q # r  BY <1>3, <2>3, <4>2 DEF View, Differs
      <4> QED  BY <4>1, <4>2
    <3>2. Credit' = Credit  BY <1>3 DEF Credit
    <3>3. ClusterSettled' <=> ClusterSettled  BY <1>3 DEF ClusterSettled
    <3> QED  BY <3>1, <3>2, <3>3
  <2>11. ViewSettled' <=> ViewSettled
    <3>1. CASecret \in References /\ \A b \in Bundles : b \in References /\ ConfigOf[b] \in References
      BY Names, ObjectsAssumption
    <3> QED  BY <2>10, <3>1 DEF ViewSettled
  <2>12. CreditInv'  BY <1>1, <1>3, <2>1, <2>10, <2>11 DEF CreditInv
  <2> QED  BY <2>8, <2>9, <2>12 DEF RotationsInv
<1>4. FreshInv  BY <1>1
<1> QED  BY <1>2, <1>3, <1>4, ReadFresh

\* An operation that has read everything has read all objects.
LEMMA EverythingRead ==
    ASSUME Steady, Inv, FreshInv, op # "none", AllRead
    PROVE  /\ DOMAIN objects = References
           /\ \A r \in References : IsRead(r)
           /\ DOMAIN data.caCerts = Bundles
           /\ \A c \in Configs : DOMAIN objects[c].content = BundlesOf(c)
           /\ Bundles # {}
<1>1. ObjectsInv  BY DEF Inv
<1>2. CASecret \in DOMAIN objects /\ Configs \subseteq DOMAIN objects  BY <1>1 DEF ObjectsInv, FreshInv
<1>3. ASSUME NEW c \in Configs
      PROVE  DOMAIN objects[c].content = BundlesOf(c) /\ BundlesOf(c) \subseteq DOMAIN objects
  <2>1. objects[c] # Unread /\ IsKobject(c, objects[c]) /\ FreshContent(c, objects[c].content)
    BY <1>1, <1>2, Names DEF AllRead, ObjectsInv, FreshInv
  <2> QED  BY <2>1 DEF IsKobject, FreshContent
<1>4. \A b \in Bundles : ConfigOf[b] \in Configs /\ b \in BundlesOf(ConfigOf[b])
  BY ObjectsAssumption DEF BundlesOf
<1>5. DOMAIN objects = References
  BY <1>1, <1>2, <1>3, <1>4 DEF ObjectsInv, References
<1>6. Bundles # {}  BY ObjectsAssumption DEF Steady
<1> QED  BY <1>1, <1>3, <1>5, <1>6, Names DEF AllRead, IsRead, ObjectsInv

\* A chain that is read and in order is not rotated, and a rotated one is in order.
LEMMA UpdateRotations ==
    ASSUME Steady, Inv, Inv', RotationsInv, UpdateChain
    PROVE  RotationsInv'
<1> DEFINE k == serial + 1
<1>1. ScalarsInv /\ ObjectsInv /\ ChainInv /\ FreshInv /\ DecodedInv /\ CreditInv
  BY DEF Inv, RotationsInv
<1>2. /\ op = "reconcile" /\ AllRead
      /\ op' = "write" /\ data' = Update(data, k, now).data
      /\ todo' = DOMAIN objects
      /\ serial' = IF Rotates(data, now) THEN serial + 1 ELSE serial
      /\ UNCHANGED <<api, cache, objects, now, faults, stale>>
  BY DEF UpdateChain, Rotates, clusterVars, boundVars
<1>3. /\ DOMAIN objects = References /\ DOMAIN data.caCerts = Bundles
      /\ \A r \in References : IsRead(r)
      /\ \A c \in Configs : DOMAIN objects[c].content = BundlesOf(c)
  BY <1>1, <1>2, EverythingRead
<1>4. PICK a \in DOMAIN data.caCerts : TRUE
  <2>1. Bundles # {}  BY <1>1, <1>2, EverythingRead
  <2> QED  BY <1>3, <2>1
<1>5. now = StartTime /\ PartialChain(data) /\ FreshChain(data, now) /\ k \in Nat \ {0} /\ now \in Nat
  BY <1>1 DEF FreshInv, ChainInv, ScalarsInv
<1>6. /\ SettledChain(data', now) /\ FreshChain(data', now)
      /\ SettledChain(data, now) => ~ Rotates(data, now)
  <2> HIDE DEF k
  <2> QED  BY <1>2, <1>4, <1>5, FreshUpdate
<1>7. FreshInv'
  BY <1>1, <1>2, <1>5, <1>6 DEF FreshInv
<1>8. DecodedInv'  BY <1>2 DEF DecodedInv
<1>9. ViewSettled => SettledChain(data, now)
  <2> SUFFICES ASSUME ViewSettled, NEW b \in Bundles
               PROVE  Settled(data.ca, data.issued[IssueOf[b]], data.caCerts[b], now)
    BY <1>3 DEF SettledChain
  <2> DEFINE c == ConfigOf[b]
  <2>1. c \in Configs /\ c \in References /\ b \in References /\ CASecret \in References
        /\ b \in BundlesOf(c)
    BY Names, ObjectsAssumption DEF BundlesOf
  <2>2. Settled(objects[CASecret].content, objects[b].content, objects[c].content[b], now)
    BY <1>3, <1>5, <2>1 DEF ViewSettled, View
  <2>3. data.ca = objects[CASecret].content
    BY <1>1, <1>2, <1>3, <2>1, <2>2 DEF DecodedInv, Settled
  <2>4. data.issued[IssueOf[b]] = objects[b].content
    BY <1>1, <1>2, <1>3, <2>1, <2>2 DEF DecodedInv, Settled, VerifyTLS
  <2>5. data.caCerts[b] = objects[c].content[b]
    <3>1. DataRead  BY <1>2 DEF Inv, OperationInv
    <3> QED  BY <1>3, <2>1, <3>1 DEF DataRead, IsRead
  <2> QED  BY <2>2, <2>3, <2>4, <2>5
<1>10. \A r : Differs(r)' <=> Differs(r)  BY <1>2 DEF Differs, IsRead
<1>11. Credit \in Int /\ Credit' = IF Rotates(data, now) THEN Credit - 1 ELSE Credit
  BY <1>1, <1>2, CreditType DEF Credit
<1>12. Rotates(data, now) => ~ ViewSettled  BY <1>6, <1>9
<1>13. Credit' >= 0 /\ (Credit' >= 1 \/ \A r \in References : ~ Differs(r))
  <2>1. /\ Credit >= 0
        /\ ~ ViewSettled => Credit >= 1
        /\ \A r \in References : Differs(r) => Credit >= 1 /\ (~ ViewSettled => Credit >= 2)
    BY <1>1, <1>2 DEF CreditInv
  <2> QED  BY <1>11, <1>12, <2>1
<1>14. CreditInv'
  <2>1. SettledChain(data', StartTime)  BY <1>5, <1>6
  <2> QED  BY <1>2, <1>3, <1>10, <1>13, <2>1 DEF CreditInv
<1> QED  BY <1>7, <1>8, <1>14 DEF RotationsInv

\* What was written would not be changed by writing it again.
LEMMA FromChainTwice ==
    ASSUME NEW d, NEW r \in References, NEW content
    PROVE  fromChainMapper(d, r, fromChainMapper(d, r, content)) = fromChainMapper(d, r, content)
<1>1. CASE r = CASecret  BY <1>1 DEF fromChainMapper
<1>2. CASE r \in Bundles  BY <1>2 DEF fromChainMapper
<1>3. CASE r # CASecret /\ r \notin Bundles
  <2> DEFINE m == mapWebhookFromChain(d, content)
  <2>1. \A f : fromChainMapper(d, r, f) = mapWebhookFromChain(d, f)  BY <1>3 DEF fromChainMapper
  <2>2. m = [b \in DOMAIN content |-> IF b \in DOMAIN d.caCerts THEN d.caCerts[b] ELSE content[b]]
    BY DEF mapWebhookFromChain
  <2>3. mapWebhookFromChain(d, m)
          = [b \in DOMAIN m |-> IF b \in DOMAIN d.caCerts THEN d.caCerts[b] ELSE m[b]]
    BY DEF mapWebhookFromChain
  <2> HIDE DEF m
  <2>4. mapWebhookFromChain(d, m) = m  BY <2>2, <2>3
  <2> QED  BY <2>1, <2>4 DEF m
<1> QED  BY <1>1, <1>2, <1>3

\* A write of an object that is the one that was read is not refused.
LEMMA WriteAccepted ==
    ASSUME Inv, WriteObject, \A r \in todo : ~ Differs(r)
    PROVE  op' = "write"
<1>1. VersionsInv /\ ObjectsInv  BY DEF Inv
<1>2. op = "write"  BY DEF WriteObject
<1>3. PICK r \in todo : writeObjectFromChain(r)  BY DEF WriteObject
<1> DEFINE o == ObjectOf(r)
           old == objects[r]
           current == IF cache[o].found THEN Kobject(cache[o]) ELSE old
           mapped == [current EXCEPT !.content = fromChainMapper(data, r, current.content)]
           accepts == IF cache[o].found
                        THEN api[o].found /\ api[o].rv = mapped.rv
                        ELSE ~ api[o].found /\ mapped.rv = 0
<1>4. r \in DOMAIN objects /\ o \in Objects  BY <1>1, Names DEF ObjectsInv
<1>5. IsRead(r)  BY <1>1, <1>2, <1>4 DEF ObjectsInv, IsRead
<1>6. cache[o] = api[o] /\ old = Kobject(cache[o])  BY <1>5 DEF Differs
<1>7. current = old /\ current = Kobject(cache[o])  BY <1>6
<1>8. current.rv = IF cache[o].found THEN cache[o].rv ELSE 0
  BY <1>7 DEF Kobject
<1>9. mapped.rv = current.rv
  <2>1. current = [rv |-> current.rv, annotated |-> current.annotated, content |-> current.content]
    BY <1>7 DEF Kobject
  <2> HIDE DEF current
  <2> QED  BY <2>1
<1>10. accepts  BY <1>6, <1>8, <1>9
<1>11. \/ op' = op
       \/ mapped # old /\ (old # current \/ ~ accepts)
  BY <1>3 DEF writeObjectFromChain
<1> HIDE DEF current, mapped, accepts, old
<1> QED  BY <1>2, <1>7, <1>10, <1>11

\* As long as what was read is what the cluster has, all writes succeed; a write is
\* refused, and the chain left half written, only when there is a credit for it.
LEMMA WriteRotations ==
    ASSUME Steady, Inv, Inv', RotationsInv, WriteObject
    PROVE  RotationsInv'
<1>1. ScalarsInv /\ VersionsInv /\ ObjectsInv /\ FreshInv /\ DecodedInv /\ CreditInv
  BY DEF Inv, RotationsInv
<1>2. op = "write" /\ SettledChain(data, StartTime)  BY <1>1 DEF WriteObject, CreditInv
<1> DEFINE Current == (\A r \in todo : ~ Differs(r)) /\ (\A r \in References \ todo : AsWritten(r))
<1>3. Credit >= 0 /\ (Credit >= 1 \/ Current)  BY <1>1, <1>2 DEF CreditInv
<1>4. CASE Fail /\ UNCHANGED faults
  <2>1. op' = "none"  BY <1>4 DEF Fail, End
  <2>2. Credit >= 1  BY <1>3, <2>1, WriteAccepted
  <2> QED  BY <1>4, <2>2, FailRotations
<1>5. ASSUME NEW r \in todo, Dealt(r), FreshInv',
             \A p \in Objects : p # ObjectOf(r) => api'[p] = api[p],
             ~ Differs(r) => AsWritten(r)'
      PROVE  RotationsInv'
  <2>1. /\ UNCHANGED <<cache, op, objects, data, serial, now, faults, stale>>
        /\ todo' = todo \ {r}
    BY <1>5 DEF Dealt
  <2>2. DecodedInv'  BY <1>2, <2>1 DEF DecodedInv
  <2>3. Credit' = Credit  BY <2>1 DEF Credit
  <2>4. todo \subseteq References /\ \A q \in References : ObjectOf(q) \in Objects
    BY <1>1, Names DEF ObjectsInv
  <2>5. \A q \in References : q # r => api'[ObjectOf(q)] = api[ObjectOf(q)]
    BY <1>5, <2>4, OneReference
  <2>6. ASSUME Current
        PROVE  (\A q \in todo' : ~ Differs(q)') /\ (\A q \in References \ todo' : AsWritten(q)')
    <3>1. \A q \in todo' : ~ Differs(q)'
      BY <2>1, <2>4, <2>5, <2>6 DEF Differs, IsRead
    <3>2. ASSUME NEW q \in References \ todo' PROVE AsWritten(q)'
      <4>1. CASE q = r  BY <1>5, <2>6, <4>1
      <4>2. CASE q # r
        <5>1. AsWritten(q)  BY <2>1, <2>6, <4>2
        <5> QED  BY <2>1, <2>5, <4>2, <5>1 DEF AsWritten, fromChainMapper, mapWebhookFromChain
      <4> QED  BY <4>1, <4>2
    <3> QED  BY <3>1, <3>2
  <2>7. CreditInv'
    BY <1>2, <1>3, <2>1, <2>3, <2>6 DEF CreditInv
  <2> QED  BY <1>5, <2>2, <2>7 DEF RotationsInv
<1>6. ASSUME NEW r \in todo
      PROVE  /\ r \in References /\ r \in DOMAIN objects /\ ObjectOf(r) \in Objects /\ IsRead(r)
             /\ ~ Differs(r) => api[ObjectOf(r)].content = objects[r].content
  <2>1. r \in References /\ r \in DOMAIN objects /\ ObjectOf(r) \in Objects /\ IsRead(r)
    BY <1>1, <1>2, Names DEF ObjectsInv, IsRead
  <2>2. Kobject(cache[ObjectOf(r)]).content = cache[ObjectOf(r)].content  BY <1>1, <2>1, Kobjects
  <2> QED  BY <2>1, <2>2 DEF Differs
<1>7. ASSUME NEW r \in todo, Dealt(r), UNCHANGED api,
             fromChainMapper(data, r, objects[r].content) = objects[r].content
      PROVE  RotationsInv'
  <2>1. FreshInv'  BY <1>1, <1>7 DEF FreshInv, Dealt
  <2>2. ASSUME ~ Differs(r) PROVE AsWritten(r)'
    <3>1. AsWritten(r)  BY <1>6, <1>7, <2>2 DEF AsWritten
    <3> QED  BY <1>7, <3>1 DEF AsWritten, Dealt, fromChainMapper, mapWebhookFromChain
  <2> QED  BY <1>5, <1>7, <2>1, <2>2
<1>8. ASSUME NEW r \in todo, NEW v, Dealt(r), api' = [api EXCEPT ![ObjectOf(r)] = v],
             v.content = fromChainMapper(data, r, objects[r].content)
      PROVE  RotationsInv'
  <2> DEFINE o == ObjectOf(r)
  <2>1. api'[o] = v /\ \A p \in Objects : p # o => api'[p] = api[p]
    BY <1>1, <1>6, <1>8 DEF VersionsInv
  <2>2. FreshContent(o, v.content)
    <3>1. FreshChain(data, StartTime) /\ FreshContent(o, objects[r].content)
      BY <1>1, <1>6 DEF FreshInv, IsRead
    <3>2. CASE r = CASecret
      <4>1. o \notin Configs /\ o \notin Issues  BY <3>2, Names
      <4> QED  BY <4>1 DEF FreshContent
    <3>3. CASE r \in Bundles
      <4>1. o = IssueOf[r] /\ o \notin Configs /\ r # CASecret  BY <3>3, Names
      <4>2. v.content = data.issued[IssueOf[r]]  BY <1>8, <3>3, <4>1 DEF fromChainMapper
      <4>3. IssueOf[r] \in DOMAIN data.issued
        BY <1>1, <1>6, <3>3 DEF Inv, ChainInv, ObjectsInv, PartialChain
      <4> QED  BY <3>1, <4>1, <4>2, <4>3 DEF FreshChain, FreshContent
    <3>4. CASE r \in Configs
      <4> DEFINE f == objects[r].content
      <4>1. o = r /\ o \notin Issues /\ r \notin Bundles /\ r # CASecret  BY <3>4, Names
      <4>2. v.content = [b \in DOMAIN f |-> IF b \in DOMAIN data.caCerts THEN data.caCerts[b] ELSE f[b]]
        BY <1>8, <4>1 DEF fromChainMapper, mapWebhookFromChain
      <4> HIDE DEF f
      <4>3. /\ DOMAIN v.content = DOMAIN f
            /\ \A b \in DOMAIN f :
                 v.content[b] = IF b \in DOMAIN data.caCerts THEN data.caCerts[b] ELSE f[b]
        BY <4>2
      <4>4. DOMAIN f = BundlesOf(r) /\ \A b \in DOMAIN f : FreshList(f[b], CAOverlapInterval, StartTime)
        BY <3>1, <3>4, <4>1 DEF FreshContent, f
      <4> QED  BY <3>1, <4>1, <4>3, <4>4 DEF FreshChain, FreshContent
    <3> QED  BY <1>6, <3>2, <3>3, <3>4 DEF References
  <2>3. FreshInv'
    <3>1. \A p \in Objects : FreshContent(p, api'[p].content)
      BY <1>1, <2>1, <2>2 DEF FreshInv
    <3> QED  BY <1>1, <1>8, <3>1 DEF FreshInv, Dealt
  <2>4. AsWritten(r)'
    <3>1. fromChainMapper(data, r, v.content) = v.content  BY <1>6, <1>8, FromChainTwice
    <3>2. data' = data  BY <1>8 DEF Dealt
    <3> QED  BY <2>1, <3>1, <3>2 DEF AsWritten, fromChainMapper, mapWebhookFromChain
  <2> QED  BY <1>5, <1>8, <2>1, <2>3, <2>4
<1> QED  BY <1>4, <1>7, <1>8, WriteCases

\* A reconcile that wrote everything it read leaves a chain that is in order.
LEMMA FinishRotations ==
    ASSUME Steady, Inv, Inv', RotationsInv, FinishReconcile
    PROVE  RotationsInv'
<1>1. ObjectsInv /\ FreshInv /\ CreditInv  BY DEF Inv, RotationsInv
<1>2. /\ op = "write" /\ todo = {} /\ End
      /\ UNCHANGED <<api, cache, serial, now, faults, stale>>
  BY DEF FinishReconcile, clusterVars, boundVars
<1>3. AllRead  BY <1>1, <1>2 DEF ObjectsInv, AllRead
<1>4. DOMAIN data.caCerts = Bundles  BY <1>1, <1>2, <1>3, EverythingRead
<1>5. ASSUME \A r \in References : AsWritten(r) PROVE ClusterSettled
  <2> SUFFICES ASSUME NEW b \in Bundles
               PROVE  Settled(api[CASecret].content, api[IssueOf[b]].content,
                              api[ConfigOf[b]].content[b], StartTime)
    BY DEF ClusterSettled
  <2> DEFINE c == ConfigOf[b]
  <2>1. c \in Configs /\ b \in BundlesOf(c)  BY ObjectsAssumption DEF BundlesOf
  <2>2. AsWritten(CASecret) /\ AsWritten(b) /\ AsWritten(c)  BY <1>5, <2>1, Names
  <2>3. api[CASecret].content = data.ca  BY <2>2, Names DEF AsWritten, fromChainMapper
  <2>4. api[IssueOf[b]].content = data.issued[IssueOf[b]]
    BY <2>2, Names DEF AsWritten, fromChainMapper
  <2>5. api[c].content[b] = data.caCerts[b]
    <3> DEFINE f == api[c].content
    <3>1. mapWebhookFromChain(data, f) = f  BY <2>1, <2>2, Names DEF AsWritten, fromChainMapper
    <3>2. b \in DOMAIN f  BY <1>1, <2>1, Names DEF FreshInv, FreshContent
    <3> HIDE DEF f
    <3>3. mapWebhookFromChain(data, f)[b] = data.caCerts[b]
      BY <1>4, <3>2 DEF mapWebhookFromChain
    <3> QED  BY <3>1, <3>3 DEF f
  <2>6. Settled(data.ca, data.issued[IssueOf[b]], data.caCerts[b], StartTime)
    BY <1>1, <1>2, <1>4 DEF CreditInv, SettledChain
  <2> QED  BY <2>3, <2>4, <2>5, <2>6
<1>6. Credit >= 0 /\ (~ ClusterSettled => Credit >= 1)
  BY <1>1, <1>2, <1>5 DEF CreditInv
<1>7. Credit' = Credit  BY <1>2 DEF Credit
<1> QED  BY <1>1, <1>2, <1>6, <1>7, EndedRotations

\* The first chain is the rotation that needs no other cause.
LEMMA InitRotations == Steady /\ Init => RotationsInv
<1> SUFFICES ASSUME Steady, Init PROVE RotationsInv
  OBVIOUS
<1>1. /\ cache = api /\ op = "none" /\ objects = [r \in {} |-> Unread] /\ data = NoData
      /\ now = StartTime /\ serial = 0 /\ faults = 0 /\ stale = 0
  BY DEF Init
<1>2. ASSUME NEW o \in Objects PROVE FreshContent(o, api[o].content)
  <2>1. CASE o \in Configs
    <3> DEFINE m == Manifest(o, Bundles)
    <3>1. api[o].content = m  BY <2>1 DEF Init, Stored
    <3>2. DOMAIN m = BundlesOf(o) /\ \A b \in DOMAIN m : m[b] = << >>
      BY DEF Manifest, BundlesOf
    <3> HIDE DEF m
    <3> QED  BY <2>1, <3>1, <3>2, Names, FreshNothing DEF FreshContent
  <2>2. CASE o \notin Configs
    <3>1. api[o].content = creator(o)  BY <2>2 DEF Init, Missing
    <3> QED  BY <2>2, <3>1, FreshNothing
  <2> QED  BY <2>1, <2>2
<1>3. DOMAIN objects = {} /\ FreshChain(data, StartTime)  BY <1>1, FreshNothing
<1>4. FreshInv  BY <1>1, <1>2, <1>3 DEF FreshInv
<1>5. DecodedInv  BY <1>1 DEF DecodedInv
<1>6. Credit = 1  BY <1>1 DEF Credit
<1>7. CreditInv  BY <1>1, <1>6 DEF CreditInv
<1> QED  BY <1>4, <1>5, <1>7 DEF RotationsInv

\* Every action keeps the account of the rotations.
LEMMA NextRotations == Steady /\ Inv /\ Inv' /\ RotationsInv /\ [Next]_vars => RotationsInv'
<1> SUFFICES ASSUME Steady, Inv, Inv', RotationsInv, [Next]_vars PROVE RotationsInv'
  OBVIOUS
<1>1. ASSUME NEW o \in Objects, Sync(o) PROVE RotationsInv'  BY <1>1, SyncRotations
<1>2. CASE Requeue \/ Resync \/ UNCHANGED vars
  <2>1. UNCHANGED <<api, cache, op, objects, data, todo, serial, now, faults, stale>>
    BY <1>2 DEF Requeue, Resync, vars, clusterVars, queueVars, opVars, boundVars
  <2> QED  BY <2>1, UnchangedRotations
<1>3. ~ Tick
  BY BoundsAssumption DEF Tick, Steady, RotationsInv, FreshInv
<1>4. CASE StartReconcile \/ StartVerifyTLS  BY <1>4, BeginRotations
<1>5. CASE ReadObject  BY <1>5, ReadRotations
<1>6. CASE UpdateChain  BY <1>6, UpdateRotations
<1>7. CASE WriteObject  BY <1>7, WriteRotations
<1>8. CASE FinishReconcile  BY <1>8, FinishRotations
<1>9. CASE \/ \E o \in Deletable : DeleteObject(o)
           \/ \E c \in Configs : ApplyConfig(c)
           \/ \E o \in Strippable : RemoveAnnotation(o)
  BY <1>9, InterferenceRotations
<1>10. CASE VerifyTLSOnce \/ RequestFails \/ Restart  BY <1>10, FailRotations
<1> QED  BY <1>1, <1>2, <1>3, <1>4, <1>5, <1>6, <1>7, <1>8, <1>9, <1>10 DEF Next

\* At a fixed time, as long as every webhook has a service of its own and no configuration
\* is deleted or loses webhooks, there is a cause for every rotation: the first chain, a
\* fault, or a reconcile that started with stale caches, which costs two.
THEOREM RotationsHaveCauses ==
    ASSUME Steady
    PROVE  Spec => []RotationsBounded
<1>1. Inv /\ RotationsInv => RotationsBounded
  <2> SUFFICES ASSUME Inv, RotationsInv PROVE RotationsBounded
    OBVIOUS
  <2>1. Credit \in Int /\ serial \in Nat /\ faults \in Nat /\ stale \in Nat
        /\ Credit = 1 + faults + 2 * stale - serial
    BY CreditType DEF Inv
  <2>2. Credit >= 0  BY DEF RotationsInv, CreditInv
  <2> QED  BY <2>1, <2>2 DEF RotationsBounded
<1>2. Init => RotationsInv  BY InitRotations
<1>3. Inv /\ Inv' /\ RotationsInv /\ [Next]_vars => RotationsInv'  BY NextRotations
<1> QED  BY <1>1, <1>2, <1>3, InvariantHolds, PTL DEF Spec
====
