---------------------------------- MODULE Manager ----------------------------------
(* The certificate manager of one process in a cluster: pkg/certificate/manager.go, *)
(* configuration.go, controller.go and client.go, and the part of the webhook       *)
(* server that waits for the certificates (pkg/webhook/server/server.go).           *)
(*                                                                                  *)
(* The chain is spread over API objects: the CA secret, a secret per service and    *)
(* the webhook configurations with their CA bundles. The manager reads them one by  *)
(* one from the informer caches, which lag behind the API server, and writes them   *)
(* one by one, in the order of a Go map. Every read and every write is a step, and  *)
(* between two of them others change objects, caches catch up and the process dies. *)
EXTENDS CertificateChain

CONSTANTS
    CASecret,       \* the name of the CA secret; a service's secret is named by its issue
    Configs,        \* the webhook configurations (m.webhooks)
    ConfigOf,       \* ConfigOf[b]: the configuration that holds bundle b
    Deletable,      \* the objects that others delete
    Strippable,     \* the secrets from which others remove the manager's annotation
    Manifests,      \* the sets of webhooks in the manifests that others apply
    Unread,         \* the kobject nil of a keyedObject
    StartTime,
    MaxTime,        \* bound: the time stops there
    MaxFaults,      \* bound: interferences, failed API calls and restarts
    MaxStale,       \* bound: reconciles that start before the caches caught up
    MaxRotations    \* bound: rotations

ASSUME ObjectsAssumption ==
    /\ ConfigOf \in [Bundles -> Configs]
    /\ \A c \in Configs : \E b \in Bundles : ConfigOf[b] = c
    /\ CASecret \notin Issues \cup Configs \cup Bundles
    /\ Issues \cap Configs = {}
    /\ Bundles \cap (Issues \cup Configs) = {}
    /\ Deletable \subseteq {CASecret} \cup Issues \cup Configs
    /\ Strippable \subseteq {CASecret} \cup Issues
    /\ Manifests \subseteq SUBSET Bundles

ASSUME BoundsAssumption ==
    /\ StartTime \in Nat
    /\ MaxTime \in Nat
    /\ MaxFaults \in Nat
    /\ MaxStale \in Nat
    /\ MaxRotations \in Nat

VARIABLES
    api,        \* the objects stored by the API server, with their resource version
    cache,      \* the informer caches: an older version of the objects
    pending,    \* a request is in the controller's work queue
    wakeAt,     \* when the last RequeueAfter puts a request into the queue
    op,         \* who holds Manager.active, and what for
    verifying,  \* Manager.verifying
    objects,    \* the objectMap of the operation: keyed objects and their kobject
    data,       \* the CertificateChainData of the operation
    updateAt,   \* what chain.Update returned to the operation
    todo,       \* the keyed objects that are still to be written
    server,     \* the webhook server waits for its certificates or was started
    now,        \* the clock (triple.Now)
    serial,     \* number of rotations so far
    faults,     \* number of faults so far
    stale       \* number of reconciles that started before the caches caught up

clusterVars == <<api, cache>>
queueVars == <<pending, wakeAt>>
opVars == <<op, verifying, objects, data, updateAt, todo>>
boundVars == <<now, faults, stale>>
vars == <<clusterVars, queueVars, opVars, server, serial, boundVars>>

------------------------------------------------------------------------------------
(* Objects.                                                                         *)

Objects == {CASecret} \cup Issues \cup Configs

\* A keyed object is created for the CA secret, for every webhook configuration and, as
\* the object map is keyed by pointers, for the service of every client configuration
\* even if there is one for its secret already. It is named by what it is created for.
References == {CASecret} \cup Configs \cup Bundles

ObjectOf(r) == IF r \in Bundles THEN IssueOf[r] ELSE r

BundlesOf(c) == {b \in Bundles : ConfigOf[b] = c}

Extend(f, g) == [x \in DOMAIN f \cup DOMAIN g |-> IF x \in DOMAIN g THEN g[x] ELSE f[x]]

NoIssue == [key |-> NoKey, certs |-> << >>]

NoCA == [key |-> NoKey, cert |-> NoCert]

\* initSecret, initMutatingWebhook, initValidatingWebhook: what the manager creates to
\* read an object into, a secret without data, a configuration without webhooks.
creator(o) ==
    IF o = CASecret THEN NoCA
    ELSE IF o \in Issues THEN NoIssue
    ELSE [b \in {} |-> << >>]

\* A webhook configuration as it is deployed, with webhooks that have no CA bundle.
Manifest(c, webhooks) == [b \in webhooks \cap BundlesOf(c) |-> << >>]

\* A stored object. An annotated secret is one of the manager's; configurations are the
\* manager's by their name.
Stored(rv, annotated, content) ==
    [rv |-> rv, found |-> TRUE, annotated |-> annotated, content |-> content]

\* An object that is not stored, and whether it was annotated when it last was.
Missing(o, rv, annotated) ==
    [rv |-> rv, found |-> FALSE, annotated |-> annotated, content |-> creator(o)]

\* The kobject that get leaves: a stored object with its resource version, or what the
\* creator made, with the annotation. That a cache is not started makes get try again for
\* up to 30 seconds; when it gives up, or fails otherwise, it is RequestFails.
Kobject(stored) ==
    [rv        |-> IF stored.found THEN stored.rv ELSE 0,
     annotated |-> stored.found => stored.annotated,
     content   |-> stored.content]

------------------------------------------------------------------------------------
(* Mapping objects to and from the chain: configuration.go.                         *)

\* Every client configuration of a webhook configuration adds its bundle, and its
\* issue unless it is there.
mapWebhookToChain(d, content) ==
    [d EXCEPT !.issued  = Extend([i \in {IssueOf[b] : b \in DOMAIN content} |-> NoIssue], @),
              !.caCerts = Extend(@, content)]

\* A secret without both halves of the key pair adds nothing.
mapServiceSecretToChain(d, i, content) ==
    IF content.key = NoKey \/ content.certs = << >>
      THEN d
      ELSE [d EXCEPT !.issued[i] = content]

mapCASecretToChain(d, content) ==
    IF content.key = NoKey \/ content.cert = NoCert THEN d ELSE [d EXCEPT !.ca = content]

toChainMapper(d, r, content) ==
    IF r = CASecret THEN mapCASecretToChain(d, content)
    ELSE IF r \in Bundles THEN mapServiceSecretToChain(d, IssueOf[r], content)
    ELSE mapWebhookToChain(d, content)

\* Mutant: a client configuration without a bundle is skipped.
mapWebhookFromChainSkipsEmpty(d, content) ==
    [b \in DOMAIN content |-> IF content[b] = << >> THEN << >> ELSE d.caCerts[b]]

\* A bundle that is not in the chain is left alone.
mapWebhookFromChain(d, content) ==
    [b \in DOMAIN content |-> IF b \in DOMAIN d.caCerts THEN d.caCerts[b] ELSE content[b]]

fromChainMapper(d, r, content) ==
    IF r = CASecret THEN d.ca
    ELSE IF r \in Bundles THEN d.issued[IssueOf[r]]
    ELSE mapWebhookFromChain(d, content)

NoData ==
    [ca |-> NoCA, issued |-> [i \in {} |-> NoIssue], caCerts |-> [b \in {} |-> << >>]]

------------------------------------------------------------------------------------
(* The start, and the work queue.                                                   *)

\* No RequeueAfter is waiting.
Never == MaxTime + 1

\* The cluster has the webhook configurations, the caches are filled before the
\* controller starts, and every configuration in them is a create event.
Init ==
    /\ api = [o \in Objects |->
                IF o \in Configs
                  THEN Stored(1, TRUE, Manifest(o, Bundles))
                  ELSE Missing(o, 0, TRUE)]
    /\ cache = api
    /\ pending = TRUE
    /\ wakeAt = Never
    /\ op = "none"
    /\ verifying = FALSE
    /\ objects = [r \in {} |-> Unread]
    /\ data = NoData
    /\ updateAt = ZeroTime
    /\ todo = {}
    /\ server = "waiting"
    /\ now = StartTime
    /\ serial = 0
    /\ faults = 0
    /\ stale = 0

Synced == cache = api

\* Mutant: no deletion is an event.
onEventUnlessDeleted(o) == api[o].found

\* The predicates of the watches. What happens to a configuration is an event for the
\* controller except its deletion; what happens to a secret is one if the secret was
\* annotated before, or is created with the annotation.
onEventForThisWebhook(o) ==
    IF o \in Configs
      THEN api[o].found
      ELSE IF cache[o].found THEN cache[o].annotated ELSE api[o].annotated

\* An informer catches up with the API server.
Sync(o) ==
    /\ cache[o] # api[o]
    /\ cache' = [cache EXCEPT ![o] = api[o]]
    /\ pending' = (pending \/ onEventForThisWebhook(o))
    /\ UNCHANGED <<api, wakeAt, opVars, server, serial, boundVars>>

\* RequeueAfter has passed.
Requeue ==
    /\ now >= wakeAt
    /\ pending' = TRUE
    /\ wakeAt' = Never
    /\ UNCHANGED <<clusterVars, opVars, server, serial, boundVars>>

\* Another timer of the queue, or a periodic resync of an informer.
Resync ==
    /\ ~ pending
    /\ \E o \in Objects : cache[o].found
    /\ pending' = TRUE
    /\ UNCHANGED <<clusterVars, wakeAt, opVars, server, serial, boundVars>>

Tick ==
    /\ now < MaxTime
    /\ now' = now + 1
    /\ UNCHANGED <<clusterVars, queueVars, opVars, server, serial, faults, stale>>

------------------------------------------------------------------------------------
(* Operations of the manager. The mutex Manager.active lets one run at a time.      *)

\* Manager.active is taken and readCertificateChain called: the references of
\* initObjects are there, nothing is read yet.
Begin(operation) ==
    /\ op = "none"
    /\ op' = operation
    /\ objects' = [r \in {CASecret} \cup Configs |-> Unread]
    /\ data' = NoData
    /\ UNCHANGED <<updateAt, todo>>

\* Mutant: the flag verifying is not reset.
EndStillVerifying ==
    /\ op' = "none"
    /\ objects' = [r \in {} |-> Unread]
    /\ data' = NoData
    /\ updateAt' = ZeroTime
    /\ todo' = {}
    /\ UNCHANGED verifying

\* The operation returns and Manager.active is released.
End ==
    /\ op' = "none"
    /\ verifying' = FALSE
    /\ objects' = [r \in {} |-> Unread]
    /\ data' = NoData
    /\ updateAt' = ZeroTime
    /\ todo' = {}

\* Reconcile takes a request from the queue.
StartReconcile ==
    /\ pending
    /\ pending' = FALSE
    /\ Begin("reconcile")
    /\ \/ Synced /\ UNCHANGED stale
       \/ ~ Synced /\ stale < MaxStale /\ stale' = stale + 1
    /\ UNCHANGED <<clusterVars, wakeAt, verifying, server, serial, now, faults>>

\* The webhook server polls VerifyTLS until it succeeds.
StartVerifyTLS ==
    /\ server = "waiting"
    /\ Begin("verify")
    /\ verifying' = TRUE
    /\ UNCHANGED <<clusterVars, queueVars, server, serial, boundVars>>

\* Mutant: the error of a reconcile is dropped.
FailSilently ==
    /\ End
    /\ UNCHANGED <<clusterVars, queueVars, server, serial, now, stale>>

\* A failed reconcile is put into the queue again, a failed VerifyTLS polled again.
Fail ==
    /\ pending' = (pending \/ op # "verify")
    /\ End
    /\ UNCHANGED <<clusterVars, wakeAt, server, serial, now, stale>>

\* readObjectToChain: a missing object is an error only when verifying, and a
\* configuration that is missing or has no webhooks is no longer considered.
readObjectToChain(r) ==
    LET read    == cache[ObjectOf(r)]
        kobject == Kobject(read)
        added   == [b \in (IF r \in Configs THEN DOMAIN read.content ELSE {}) |-> Unread]
    IN  /\ objects[r] = Unread
        /\ \/ /\ ~ read.found /\ verifying
              /\ Fail
              /\ UNCHANGED faults
           \/ /\ read.found \/ ~ verifying
              /\ IF r \in Configs /\ DOMAIN read.content = {}
                   THEN /\ objects' = [q \in DOMAIN objects \ {r} |-> objects[q]]
                        /\ UNCHANGED data
                   ELSE /\ objects' = Extend(Extend(added, objects), [q \in {r} |-> kobject])
                        /\ data' = toChainMapper(data, r, kobject.content)
              /\ UNCHANGED <<clusterVars, queueVars, op, verifying, updateAt, todo,
                             server, serial, boundVars>>

ReadObject ==
    /\ op \in {"reconcile", "verify"}
    /\ \E r \in DOMAIN objects : readObjectToChain(r)

AllRead == \A r \in DOMAIN objects : objects[r] # Unread

\* VerifyTLS has read everything: the server is started if the chain verifies.
VerifyTLSOnce ==
    /\ op = "verify"
    /\ AllRead
    /\ server' = IF Verify(data, now) THEN "started" ELSE "waiting"
    /\ End
    /\ UNCHANGED <<clusterVars, queueVars, serial, boundVars>>

\* reconcileCertificates has read everything and updates the chain.
UpdateChain ==
    LET result  == Update(data, serial + 1, now)
        rotates == mustRotateCA(newChain(data), now) \/ mustRotateCerts(newChain(data), now)
    IN  /\ op = "reconcile"
        /\ AllRead
        /\ rotates => serial < MaxRotations
        /\ op' = "write"
        /\ data' = result.data
        /\ updateAt' = result.updateAt
        /\ todo' = DOMAIN objects
        /\ serial' = IF rotates THEN serial + 1 ELSE serial
        /\ UNCHANGED <<clusterVars, queueVars, verifying, objects, server, boundVars>>

\* Mutant: an object that changed since it was read is written all the same.
writeObjectIfChanged(r) ==
    LET o       == ObjectOf(r)
        old     == objects[r]
        current == IF cache[o].found THEN Kobject(cache[o]) ELSE old
        mapped  == [current EXCEPT !.content = fromChainMapper(data, r, current.content)]
        accepts == IF cache[o].found
                     THEN api[o].found /\ api[o].rv = mapped.rv
                     ELSE ~ api[o].found /\ mapped.rv = 0
        write   == Stored(api[o].rv + 1, mapped.annotated, mapped.content)
        success == /\ todo' = todo \ {r}
                   /\ UNCHANGED <<cache, queueVars, op, verifying, objects, data, updateAt,
                                  server, serial, boundVars>>
    IN  \/ /\ mapped = old
           /\ success
           /\ UNCHANGED api
        \/ /\ mapped # old /\ accepts
           /\ api' = [api EXCEPT ![o] = write]
           /\ success
        \/ /\ mapped # old /\ ~ accepts
           /\ Fail
           /\ UNCHANGED faults

\* writeObjectFromChain. Nothing is written when the result is what was read; it fails
\* when the cache changed since, and the API server refuses to create what exists or
\* has a version and to update what changed. A deleted object is not found, and what
\* was read of it is still in the kobject.
writeObjectFromChain(r) ==
    LET o       == ObjectOf(r)
        old     == objects[r]
        current == IF cache[o].found THEN Kobject(cache[o]) ELSE old
        mapped  == [current EXCEPT !.content = fromChainMapper(data, r, current.content)]
        accepts == IF cache[o].found
                     THEN api[o].found /\ api[o].rv = mapped.rv
                     ELSE ~ api[o].found /\ mapped.rv = 0
        write   == Stored(api[o].rv + 1, mapped.annotated, mapped.content)
        success == /\ todo' = todo \ {r}
                   /\ UNCHANGED <<cache, queueVars, op, verifying, objects, data, updateAt,
                                  server, serial, boundVars>>
    IN  \/ /\ mapped = old
           /\ success
           /\ UNCHANGED api
        \/ /\ mapped # old /\ old = current /\ accepts
           /\ api' = [api EXCEPT ![o] = write]
           /\ success
        \/ /\ mapped # old /\ (old # current \/ ~ accepts)
           /\ Fail
           /\ UNCHANGED faults

WriteObject ==
    /\ op = "write"
    /\ \E r \in todo : writeObjectFromChain(r)

\* Everything is written: Reconcile returns RequeueAfter, or requeues at once when that
\* is not in the future.
FinishReconcile ==
    /\ op = "write"
    /\ todo = {}
    /\ wakeAt' = IF updateAt > now THEN updateAt ELSE now
    /\ pending' = (pending \/ updateAt <= now)
    /\ End
    /\ UNCHANGED <<clusterVars, server, serial, boundVars>>

------------------------------------------------------------------------------------
(* Faults.                                                                          *)

Fault == faults < MaxFaults /\ faults' = faults + 1

\* Somebody deletes a secret or a webhook configuration.
DeleteObject(o) ==
    /\ Fault
    /\ api[o].found
    /\ api' = [api EXCEPT ![o] = Missing(o, api[o].rv + 1, api[o].annotated)]
    /\ UNCHANGED <<cache, queueVars, opVars, server, serial, now, stale>>

\* An operator applies its own manifest of a webhook configuration, without bundles and
\* with other webhooks than before.
ApplyConfig(c) ==
    /\ Fault
    /\ \E webhooks \in Manifests :
         api' = [api EXCEPT ![c] = Stored(api[c].rv + 1, TRUE, Manifest(c, webhooks))]
    /\ UNCHANGED <<cache, queueVars, opVars, server, serial, now, stale>>

\* Somebody removes the annotation by which the manager recognises its secrets.
RemoveAnnotation(o) ==
    /\ Fault
    /\ api[o].found /\ api[o].annotated
    /\ api' = [api EXCEPT ![o] = Stored(api[o].rv + 1, FALSE, api[o].content)]
    /\ UNCHANGED <<cache, queueVars, opVars, server, serial, now, stale>>

\* A read or a write of the operation fails at the API server or times out.
RequestFails ==
    /\ Fault
    /\ op # "none"
    /\ Fail

\* The process dies, or ends because the server waited too long for its certificates;
\* the next one fills its caches and finds a request for the configurations and annotated
\* secrets in them.
Restart ==
    /\ Fault
    /\ cache' = api
    /\ pending' = (\E o \in Objects : api[o].found /\ (o \in Configs \/ api[o].annotated))
    /\ End
    /\ server' = "waiting"
    /\ wakeAt' = Never
    /\ UNCHANGED <<api, serial, now, stale>>

------------------------------------------------------------------------------------
Next ==
    \/ \E o \in Objects : Sync(o)
    \/ Requeue
    \/ Resync
    \/ Tick
    \/ StartReconcile
    \/ StartVerifyTLS
    \/ ReadObject
    \/ VerifyTLSOnce
    \/ UpdateChain
    \/ WriteObject
    \/ FinishReconcile
    \/ \E o \in Deletable : DeleteObject(o)
    \/ \E c \in Configs : ApplyConfig(c)
    \/ \E o \in Strippable : RemoveAnnotation(o)
    \/ RequestFails
    \/ Restart

Spec == Init /\ [][Next]_vars

\* Informers catch up, an operation that runs goes on, and whoever waits for the mutex
\* gets it in the end (sync.Mutex does not starve a waiter). Faults need not happen.
Fairness ==
    /\ WF_vars(\E o \in Objects : Sync(o))
    /\ WF_vars(Requeue)
    /\ WF_vars(ReadObject \/ VerifyTLSOnce \/ UpdateChain \/ WriteObject \/ FinishReconcile)
    /\ SF_vars(StartReconcile)
    /\ SF_vars(StartVerifyTLS)

FairSpec == Spec /\ Fairness

------------------------------------------------------------------------------------
(* Properties.                                                                      *)

\* The chain in the cluster: the bundles of the webhooks there are, the secrets of their
\* services and the CA secret.
StoredBundles == UNION {DOMAIN api[c].content : c \in Configs}

StoredBundle(b) == api[ConfigOf[b]].content[b]

StoredChain ==
    [ca      |-> api[CASecret].content,
     issued  |-> [i \in {IssueOf[b] : b \in StoredBundles} |-> api[i].content],
     caCerts |-> [b \in StoredBundles |-> StoredBundle(b)]]

\* The manager has nothing to do: no operation, no request in the queue or on its way
\* through the caches, and the next reconcile is not due. It knows of all deletions.
Quiet ==
    /\ op = "none" /\ ~ pending /\ Synced /\ now <= wakeAt
    /\ \A o \in Objects : api[o].annotated

\* A content that object o can have.
IsContent(o, content) ==
    IF o = CASecret THEN content \in CA
    ELSE IF o \in Issues THEN content \in CertificateIssue
    ELSE /\ DOMAIN content \subseteq BundlesOf(o)
         /\ \A b \in DOMAIN content : content[b] \in Seq(Certificate)

IsVersion(o, version) ==
    /\ version.rv \in Nat /\ version.found \in BOOLEAN /\ version.annotated \in BOOLEAN
    /\ IsContent(o, version.content)

\* The types, and how the state of an operation hangs together: the flag verifying is set
\* exactly while VerifyTLS holds the mutex, so that a reconcile never takes a missing
\* object for an error, and the issues of the chain are those of its bundles.
TypeOK ==
    /\ \A o \in Objects : IsVersion(o, api[o]) /\ IsVersion(o, cache[o])
    /\ pending \in BOOLEAN
    /\ wakeAt \in Nat
    /\ op \in {"none", "reconcile", "write", "verify"}
    /\ verifying = (op = "verify")
    /\ DOMAIN objects \subseteq References
    /\ \A r \in DOMAIN objects :
         objects[r] # Unread => IsContent(ObjectOf(r), objects[r].content)
    /\ DOMAIN data.caCerts \subseteq Bundles
    /\ DOMAIN data.issued = {IssueOf[b] : b \in DOMAIN data.caCerts}
    /\ todo \subseteq DOMAIN objects
    /\ server \in {"waiting", "started"}
    /\ serial \in 0..MaxRotations
    /\ faults \in 0..MaxFaults
    /\ stale \in 0..MaxStale

\* Nothing the manager should react to goes unnoticed: when it has nothing to do, the
\* chain in the cluster verifies. An operation that failed or died half way is not
\* forgotten. Only the deletion of a secret without annotation waits for the next timer.
NothingPendingMeansVerified == Quiet => Verify(StoredChain, now)

\* Trust as the clients of the webhooks see it in the cluster.
ClientTrust ==
    INSTANCE Trust WITH trusted      <- [b \in StoredBundles |->
                                           {StoredBundle(b)[n] : n \in DOMAIN StoredBundle(b)}],
                        issuer       <- api[CASecret].content.cert,
                        disturbances <- faults,
                        settled      <- Quiet

\* The manager does not undo what it did not see: however old the caches it reads, and
\* whatever fails half way, its writes keep the promise of module Trust.
ImplementsTrust == ClientTrust!Spec

\* At a fixed time a rotation has a cause. A chain that is deleted, reset or written only
\* half is repaired by one rotation, and a reconcile that starts with stale caches costs
\* two: the one of its own, whose writes are refused half way, and the repair.
RotationsBounded == serial <= 1 + faults + 2 * stale

\* Once the faults are over the chain in the cluster verifies for good.
Converges == <>[]Verify(StoredChain, now)

\* Once the faults are over waitForTLSReadiness ends and the webhook server is started.
ServerStarts == <>[](server = "started")

\* mapWebhookToChain: "a reference to the service secret is added to the object map if
\* not already there".
SecretsReferencedOnce ==
    \A q, r \in DOMAIN objects : ObjectOf(q) = ObjectOf(r) => q = r
====
