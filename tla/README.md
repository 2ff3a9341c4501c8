# Verification of kube-admission-webhook

TLA+ modules, TLC runs and TLAPS proofs about the library that keeps the TLS
certificates of Kubernetes admission webhooks current: a CA, a key pair per
webhook service and the CA bundles of the webhook configurations.

## The system

| Component | State | Operations | Interacts with |
|---|---|---|---|
| Options (`pkg/certificate/chain/options.go`) | four intervals | `SetDefaultsAndValidate` | called by `NewManager` and by `newChain` |
| Certificate chain (`pkg/certificate/chain`) | none between calls; the chain data is passed in | `Update`, `Verify` | called by the manager, creates keys with `triple` |
| Keys and certificates (`pkg/certificate/triple`) | none | `NewCA`, `NewServerKeyPair`, `VerifyTLS`, PEM encoding | called by the chain |
| Manager (`pkg/certificate/manager.go`, `configuration.go`, `client.go`) | a mutex, the flag `verifying`, an object map per operation | `reconcileCertificates`, `VerifyTLS` | reads objects from informer caches, writes them to the API server |
| Controller (`pkg/certificate/controller.go`) | the work queue | `Reconcile`, predicates of the watches | events of secrets and webhook configurations, among them those of the manager's own writes |
| Webhook server (`pkg/webhook/server`) | port, certificate directory, hooks, webhook configurations; waiting or serving | `New` and its options, `UpdateOpts`, `Add`, `Start`, `waitForTLSReadiness` | builds the manager, polls `VerifyTLS`, then loads the mounted secret |
| Certificate watcher (controller-runtime, vendored) | the key pair served, whether the files are watched | `New`, `Start`, `ReadCertificate` | created by the webhook server; reloads the pair when the files change |
| Kubelet | the files of a pod, which lag behind the secret | | external: projects the secret into the pod |
| API server, informers, other actors | the objects with their resource versions; caches that lag | optimistic updates, watches | external: modelled from how the manager uses them |
| Version, build and release scripts | none | | not modelled |

What is hard: the chain is spread over several objects that are read from lagging
caches and written one by one, in the order of a Go map, where any write can be
refused and the process can die in between; every write is an event that triggers the
next reconcile; others delete secrets and reset bundles; reconciles come later than
asked for; certificates overlap so that clients and servers with older or newer data
keep trusting each other; servers read files that lag behind the secret, with rules of
their own, and watch them only some time after they have loaded them; the data can be edited by anybody; dates are truncated to seconds; and an empty list of
deadlines means "at once". `PROJECT.json` lists these hazards at their lines with the
properties aimed at them.

What makes the parts correct:

* options: only intervals the rotation can work with are accepted;
* chain: `Update` repairs what was lost of it, leaves a chain that verifies and that
  another `Update` leaves alone, never drops a CA that still vouches for a valid
  certificate, and replaces the CA only for a reason;
* manager: nothing that needs a repair goes unnoticed, concurrent changes are not
  overwritten, interrupted rotations are repaired without rotating for ever;
* server: it is started in the end, and serves what clients trust;
* PEM: what can be parsed is used, what cannot is replaced, nothing before it is lost.

## Modules

| Module | Models | Composes |
|---|---|---|
| `Options` | chain.Options | |
| `CertificateChain` | packages `chain` and `triple` as operators on chain data | |
| `Trust` | what the library promises to the clients of the webhooks (abstract) | |
| `ChainLifecycle` | the chain in time: reconciles as one step, lateness, interference | extends `CertificateChain`, implements `Trust` |
| `Manager` | the manager, controller and server of one process, step by step, with API server and caches | extends `CertificateChain`, implements `Trust` |
| `WebhookServer` | running servers: readiness, loading, watching, mounts that lag | extends `ChainLifecycle` |
| `Pem` | the PEM data themselves, parsers and encoders, and edited data in the chain | |
| `MCOptions`, `MCChainLifecycle`, `MCManager`, `MCWebhookServer`, `MCPem` | instances for TLC | |
| `OptionsProofs`, `CertificateChainProofs`, `PartialChainProofs`, `ChainLifecycleProofs`, `ManagerProofs`, `ManagerTrustProofs`, `WebhookServerProofs`, `PemProofs` | theorems and proofs | |

**CertificateChain.** Chain data is a record of the CA secret, a key and certificates
per issue (service) and a list of CA certificates per bundle. A key is named by the
number of the rotation that generated it; all keys of a rotation share that number,
which no definition relies on since a certificate's key and its signer are compared
only within their role. A certificate has a key, a signer and two dates. PEM that is
missing or does not parse is `NoKey`, `NoCert` or `<< >>`. x509 verification is
external: the first certificate is valid and the bundle has a valid certificate of its
signer. Time is a natural number and `Truncate` is the loss of fractions of a second.
The bundles of all issues stand side by side with `IssueOf`. Operators keep the names
of the Go functions; the loops over issues and bundles are quantifiers and functions.
Definitions commented *Mutant* are plausible bugs: with one in place of the definition
that follows it, TLC finds the property named in `PROJECT.json` violated.

**ChainLifecycle.** `Reconcile` is read, `Update` and write in one step and may happen at
any time, as any event triggers it. `Tick` lets time pass, at most `MaxLateness` beyond the
time the last reconcile asked for. `LoseCA`, `LoseService` and `LoseBundle` are
interferences. The history variable `served` has the certificates that were published.

**Manager.** `api` has the stored objects with resource versions (per object and never
reused, also after a deletion), `cache` what the informers show; `Sync` brings one
object of the cache up to date and enqueues a request if the predicates of the watches
let the event pass. A cache that skips intermediate versions is no loss: the manager
sees only the cache, and an update based on an old version fails whichever old version
it is. `op` is the holder of the mutex `active`. `ReadObject` and `WriteObject` are one
iteration of the loops of `readObjectsToChain` and `writeObjectsFromChain` on an
arbitrary object. A keyed object is named by what it was created for, the CA secret, a
configuration or a bundle, because the object map is keyed by pointers and does not
find the reference that is already there. All requests of the queue are one
(`pending`), because each reconciles everything. `Restart` is a crash or the end of the
process after five minutes of waiting for the certificates; the next process gets a request for
each configuration and each annotated secret that it finds. The server counts as
started when `webhookServer.Start` is called. Stored objects carry the manager's annotation
or have lost it (`RemoveAnnotation`): the predicates of the watches take a secret for the
manager's by its annotation, and an update keeps what it finds. An operator applies
manifests with other webhooks than before (`ApplyConfig`), also none, and a configuration
without webhooks leaves the object map like one that is missing.

**Trust.** The state is the clock, the set of CA certificates in each bundle, the CA, the
number of disturbances and whether the library has something to do. The library
(`Publish`) drops from a bundle only what has expired and adds one CA, the same to all, and
it has nothing to do only when all bundles have the unexpired CA; others (`Disturb`) take
CAs away. `ChainLifecycle` maps its bundles, `intact` and `faults` to it; `Manager` maps the
bundles the API server stores, and *nothing to do* is an idle manager with an empty queue,
caches that have caught up and no timer due. `Disturb` counts, so a step of the library
cannot pass for one of somebody else.

**WebhookServer.** The chain lives as in `ChainLifecycle` (`ChainStep`, and `Tick` within
`TimePasses`). Every service has a server with its pod's files. `waitForTLSReadiness`
polls the stored chain (`TLSReady`). `Start` creates the certificate watcher, which loads the files,
and ends the process when key and first certificate do not match. `Watch` is the watcher's
goroutine, which adds the watches some time later and does not read the files again
(`certwatcher.go:53` and `76-80` of the vendored controller-runtime). `Mount` is the kubelet, up to
`MountLag` behind; it is an event only for a server that watches, and a key pair that comes
between `Start` and `Watch` is lost to the server, which `missed` counts. `ReadCertificate` handles an
event and keeps the pair when the new one does not match. `Restart` is the death of a process, with
its pod or not. `TimePasses` waits until servers have done what takes them moments, adding the
watches included. `refused` and `down` measure for how long clients have refused the certificate
served, and for how long a server has not been serving. Two details are left out: certificate and
key are two files, read one after the other, and a projection that changes in between gives a pair that
does not match; and a watch that cannot be added, which controller-runtime only logs, so that the
server never reloads until it is restarted. The bounds do not hold of such a server.

**Pem.** A field of a secret or a bundle is a sequence of PEM blocks with a type, headers
or not, and the DER of a key or certificate or of nothing (`Encodings`). What others write is a
parameter, `Foreign`: blocks of any type. Parsers are modelled by which
blocks they take: `ParsePrivateKeyPEM` the first key of the type it says, `ParseCertsPEM` the
certificates in front of the first that does not parse, x509's `AppendCertsFromPEM` all that
parse. `Edit` puts a foreign block before, behind or in place of the data, or deletes them.
Time is left out: all certificates are valid and far from their rotation.

## Runs

| Run | Bounds | Shows |
|---|---|---|
| `options` | a year of 12, durations -1 to 13 around the defaults and thirds | accepted options work; defaults never spoil what the user set |
| `late_reconciles` | 2 services, 3 bundles, intervals 8/3 and 4/2, a second of 2 ticks, 15 ticks, lateness 2 (both overlaps allow it), 1 interference | old and current certificates stay trusted, every reconcile repairs and settles |
| `punctual_reconciles` | 1 service, 2 bundles, intervals 13/7 and 5/3, 21 ticks, 2 interferences | the chain verifies at each moment, CAs change only when due, lists are short |
| `two_configs` | 2 configurations with a service each, 1 fault of any kind on any object | nothing pending means a chain that verifies |
| `stale_caches` | 1 configuration, intervals 4/1 and 3/1, 5 ticks, a start on stale caches | the manager implements `Trust` |
| `faults` | 1 configuration, fixed time, 2 faults, a start on stale caches, the service secret can lose its annotation | at most one rotation per fault and two per stale start; nothing but a deletion without annotation goes unnoticed |
| `converge` | 1 configuration, fixed time, 1 fault, a stale start, fairness | the chain verifies for good, the server is started |
| `server_mounts` | 1 service, intervals 15/4 and 8/2, 22 ticks, lateness 1, mount lag 2, 1 interference, any number of restarts and of mounts lost before the files are watched | clients refuse a server only briefly, or for up to the life of a certificate when it lost a mount; without the interference only when its certificate has expired, or its CA when it lost a mount; a restarted server is down only briefly |
| `pem_edits` | 10 foreign blocks, 2 edits of any field | two reconciles repair whatever was edited, short of a panic; the CAs of a bundle in front of the first block that does not parse are kept |

`punctual_reconciles` also checks that the life of the chain implements `Trust`.

The times cover more than one life of a CA (for `stale_caches` the expiry of the first
CA) and several of the issued certificates, so that rotation, overlap, clean-up and their
coincidences happen; three bundles on two services distinguish bundles of the same and
of different issues. One fault at every place of the interleaving is a crash, conflict
or reset between any two steps; two let one hit the repair of the other. With
`MaxRotations` (9) no run is cut off: the bound of `RotationsBounded` is below it, and
`stale_caches` rotates less often; the same holds of the 6 rotations of `Pem`, of which two
edits need at most 5. Servers do not interact, so one service is enough in `WebhookServer`.

The bounds of `server_mounts` satisfy `RotationsApart`, under which `WebhookServerProofs` proves
`RefusedBriefly` and `DownBriefly` for all others: overlaps are below half of the life of a service
certificate, and a lag and a second fit into what two of them leave of it, so that a clean-up has reached the pod before the
next overlap begins, and reconciles are not as late as the overlap of the CA. Validation accepts
longer overlaps, with which both fail. Lost mounts are what the terms with `missed` in
`RefusedBriefly` and `OldProjectionsTrusted` are for: TLC finds both violated without them, a server
that serves its old pair until the next one comes.

Bound by assumption, `MaxStale` says how often a reconcile starts before the caches
have caught up. If that happened for ever the manager could rotate for ever; retries
back off exponentially and caches catch up within milliseconds, so an endless sequence
is implausible, but nothing in the code excludes it.

Fairness (`FairSpec`): informers catch up, an operation that runs goes on (weak fairness),
and both users of the mutex get it in the end (strong fairness; `sync.Mutex` hands itself
to a waiter that starves). Faults, time and resyncs have no fairness.

Runs that refute what a comment, a test or the README says (`findings` in
`PROJECT.json`):

* `late_clean_up`: a late clean-up of the issued certificates replaces the CA. Any instant after
  `NotAfter` is late: x509 compares with the full precision of the clock. `ChainVerifies`,
  `ListsBounded` and `CARotatedOnlyWhenDue` of `punctual_reconciles` are therefore about the limit of
  reconciles at the very instant they asked for, which is what `controller_test.go` tests;
* `duplicate_references`: two webhooks of one service mean two references to its secret;
* `pem_panic`: a certificate without DNS names panics the reconcile.

Other disagreements met while modelling, which shape the properties and have no run of
their own:

* unset overlaps become a third of their interval (`chain/options.go:37`), where the doc of
  `Options` says the interval;
* without webhooks `minTime` has no deadline to take the least of, so every reconcile replaces
  the CA (`chain/deadlines.go:103`); this is why the proofs assume a service;
* during an overlap the stored key is not the one of the first certificate
  (`chain/chain.go:129`), so a server that starts then cannot load the pair though `VerifyTLS`
  accepts it, and a running one serves the old certificate until it has expired and the mount
  follows: hence the overlap in `DownBriefly`, and a bound in `RefusedBriefly` that is not 0. With an
  overlap of more than half of a certificate's life no projection of the secret can be loaded;
* the CA's key is not compared with its certificate (`chain/chain.go:243`), so a replaced key is
  noticed one reconcile later: hence the two of `TwoReconcilesRepair`. This is so with Go 1.15, which
  `go.mod` names; in later releases `x509.CreateCertificate` (`triple/cert.go:117`) refuses to sign with
  a key that is not the one of the parent, so that the reconcile would fail instead;
* a block that does not parse cuts off the CAs behind it (`triple/pem.go:178`): hence
  `ReadableCAsKept` is about those before it;
* a server that starts while its secret is being projected can lose the new key pair, and serves
  the old one until the next comes (`server.go:128`), against "pods watching an old projection of
  the mounted secret" being no problem (`README.md`): hence `missed` in `RefusedBriefly` and
  `OldProjectionsTrusted`;
* a configuration that `UpdateOpts` adds between `Add` and `Start` is not managed
  (`server.go:86`).

## Proofs

TLAPS proves, for every number of services, bundles and configurations and any number of
interferences, faults, stale reads and rotations, under the assumptions on intervals and lateness
that are named here and below:

* `OptionsProofs`: `AcceptedOptionsWork` and `DefaultsNeverSpoil` for all durations;
* `CertificateChainProofs`: `CleanUpList`, what a clean-up keeps; `UpdateEstablishes`, from
  consistent data `Update` gives a chain that is complete (`Established`), whose first
  deadline is in the future (`NotOverdue`), that keeps unexpired CAs (`Retained`) and adds no other than its own
  (`OnlyCAAdded`);
  `EstablishedSettled`, `Update` leaves it alone until then;
* `PartialChainProofs`, for any data a manager may have read, from different rotations and of
  some webhooks only: `UpdateKeepsBundles`, `Update` takes no unexpired CA out of a bundle and
  adds at most its own; `UpdateUnchanged`, a webhook whose objects `Update` leaves alone is in
  order until the time it asks to be called again;
* `ChainLifecycleProofs`: `TypeOK`, `ReconcileRepairs`, `ReconcileSettles` and
  `OldCertificatesStayTrusted` for any lateness, `CurrentCertificateTrusted` for a lateness
  up to the overlaps, and `ChainVerifies`, `CARotatedOnlyWhenDue` and `ListsBounded` for none; and
  `TrustKept`, that the specification implements `Trust`, for any lateness;
* `ManagerProofs`: `TypeOK` and `NothingPendingMeansVerified`, from the inductive invariant
  `InvariantHolds`, and `RotationsBounded` when time and webhooks are `Steady`; `ManagerTrustProofs`: `ManagerKeepsTrust`, that the manager implements `Trust`;
* `WebhookServerProofs`: `ServersTypeOK`, `OldProjectionsTrusted` when mounts follow in time, and
  `RefusedBriefly` and `DownBriefly`, with interference, when rotations are apart, all of them with any
  number of mounts that servers lose;
* `PemProofs`: `TwoReconcilesRepair` and `ReadableCAsKept`, for data of any
  length, any foreign blocks and any number of edits.

Assumptions: in the proofs of the chain's life and of the servers there is a service (without
any the CA is replaced at every reconcile), every issue has a bundle, the options are what validation accepts of intervals that are not negative, and intervals
exceed their overlaps by at least a second (`GranularityAssumption`), which the code does
not check and without which a fresh certificate is due at once. `ManagerKeepsTrust` assumes
an overlap of the CA that is not zero: `withDefaults` replaces zero by a third of the
interval, and with zero the CA could expire at the moment the next reconcile is due.
`OldProjections` assumes `MountsInTime`: lag and lateness together are less than the overlap of
the CA, and the lag is shorter than the time between two rotations of a service certificate. With
the default intervals (months) and a kubelet that syncs within minutes this leaves room;
without it a server can be left with a CA that was cleaned up. `BrieflyRefused` and
`BrieflyDown` assume `RotationsApart` (above), which the defaults, overlaps of a third, satisfy as amply. `RotationsHaveCauses`
assumes `Steady`, which is about what it counts and not about the code: time stands still, as otherwise
rotations become due; there are configurations, and none is deleted or loses webhooks, because a
manager without webhooks replaces the CA at every reconcile; and no two webhooks share a service, because
the secret of a service that two share is written twice and the second write is refused, so that
one change may take more than one rotation. The run `faults` is such an instance. `PemProofs` assumes that what others
write are blocks (`ForeignAssumption`): what `pem.Decode` finds no block in, it skips.

The inductive invariant of `ChainLifecycleProofs` adds to the types: `Consistent`, which
also damaged data satisfies (a CA that is there matches its certificate and signed all
issued certificates, nothing is valid only in the future, the last certificate is the
one of the key); that an undisturbed chain is `Established` and not overdue at the time
of the next reconcile; that time has not passed that by more than the lateness; and
`ServedTrusted`, that the CA of a published certificate is in the bundles until it expires,
which is what a later rotation or clean-up must preserve. The recursion of
`cleanUpCertificateList` is a recursive function; that it has a solution on every prefix is
shown with least counterexamples.

`ListsBounded` follows from how far the expiry dates in a list are apart (`SpreadInv`). When the last
certificate is due for rotation, the next one expires at least a life less an overlap later, less
the fraction of a second that is truncated (`CAGap`, `CertGap`); one that replaces it for another reason
expires no earlier. So certificates of a bundle that are k places apart expire k gaps apart,
less one gap for every rotation that was not due, and of those there is at most one for every
interference that has been repaired (`Irregular`). After a reconcile no certificate in a list is
expired, so the dates are less than a life apart, which bounds the length. A service's list
has no such exception: a rotation that is not due replaces the CA and all lists with single
certificates. That one service is due only with all others (`Aligned`) is part of the invariant.

`TrustKept` maps every step of `ChainLifecycle` to one of `Trust` under that invariant:
a reconcile publishes (`Retained`, `OnlyCAAdded`, `Established` and `NotOverdue` are the
conjuncts of `Publish`), a tick passes time, and a loss is a disturbance because it adds
nothing to a bundle.

The inductive invariant of `ManagerProofs` rests on one notion. An object is `Noticed` when a
request is queued, when its cache has yet to catch up (and will enqueue one), or when others
made it one that the manager does not watch. Nothing but the beginning of a reconcile, from
caches that are then read afresh, makes an object go from noticed to not noticed
(`NoticedKept`). So the invariant can say, of all objects that are *not* noticed, that what an
operation has read is what the cluster has (`CacheRead`, `DataRead`), that an object that has
been dealt with had nothing to be written (`Written`: every write is an event), and that a
webhook of which `Update` changed nothing is in order until the next update is due
(`SettledIfUnchanged`, by `UpdateUnchanged`). When a reconcile ends, these add up to
`IdleSettled`, that a webhook none of whose objects is noticed is in order until `wakeAt`, of
which `NothingPendingMeansVerified` is a special case. A reconcile that fails requests
another. `VersionsInv` says that a cache has an older version or the same object, and that
nobody puts an annotation back. TLC checked the invariant on the instances of `two_configs`,
`stale_caches` and `faults`, and on one with time and a fault, before it was proved.

`RotationsInv` keeps the account of the rotations. `Credit` is the number of those for which there was a
cause and that have not happened yet; it must not become negative, and `CreditInv` says in which
states there has to be some. Between two reconciles one rotation is due when the
chain in the cluster is not in order. A reconcile rotates when what it reads, or would read now (`View`),
is not in order. When an object is another than the one that it has read or will read from the
cache (`Differs`), one of its writes is refused, which leaves the chain half written: that takes
another rotation. With two such objects it takes two even if what is read is in order so far,
because a read of the new version of one can put it out of order. When none differs all writes are
accepted, and the cluster has what `Update` returned. `FreshInv` says that at a fixed time no
certificate anywhere is to be replaced or cleaned up, so `Update` rotates only data that are not in
order (`FreshUpdate`); `DecodedInv` says that it is given the key pairs that were read. TLC checked `RotationsInv` on the
instance of `faults` and on one with two services in one configuration before it was proved.

`ManagerKeepsTrust` maps steps to `Trust` under that invariant. Only writing a configuration
and what others do to one change bundles. A write that is not refused as a conflict replaces
the version that was read, so what is stored is what `ReadBundlesKept` compares the new
bundle with; it is a `Publish` that adds one CA. `IdleSettled` gives the last conjunct of
`Trust`, that all bundles have the unexpired CA when there is nothing to do.

In `WebhookServerProofs` the types follow from the invariant of `ChainLifecycle`. For
`OldProjectionsTrusted` the invariant says, until somebody interferes, of the files
(`MountedPublished`) and of the pair being served (`LoadedPublished`): the first certificate was
published, by the current CA or by one that was replaced; in that case the replacement is on
its way (`Arriving`), cannot be rotated again before it arrives (`SingleFresh`), and the old CA was
replaced no longer ago than the files lag, so that it has not expired; or the replacement has
arrived and the watcher is about to load it (`Arrived`), or was lost, which `missed` tells. `UpdateKeyPairs` is what this needs of
`Update`: it replaces all key pairs with the CA, each by a single one, or leaves single ones that
are not due alone. `ServedTrusted` of `ChainLifecycleProofs` then gives the trust.

`RefusedBriefly` and `DownBriefly` count, and the invariant `BriefInv` says of both counters until when
they may go on (`RefusedUntil`, `DownUntil`): the count so far and the time left are within the
bound. When somebody interferes the bound grows by one late repair and one late mount, which is
what is left then. Otherwise a server is in one of three phases (`Phase`): its files are about
to be replaced (`Awaited`), it has the single certificate of its secret (`SingleServed`), or the
secret has two and whatever the server has begins with the old one (`PairServed`). In the last two a
server that has lost a mount may serve an older certificate instead; then it is `Delayed`, refused until
the certificate that it lost expires and the next mount follows at most. A loss raises the bound by
the life of a certificate and by one late reconcile and mount (`MissGrows`), which covers that because
the lost certificate expires within a life (`LostBound`). `ListsInv` says that
all secrets have lists of one length, one or two, and of the same dates, which is where `RotationsApart`
is used: `UpdateLists` shows that there is never a third certificate. `CALast` is that the CA is
the last of each bundle, without which a chain with two CAs would not be `TLSReady`.

The invariant of `PemProofs` is that data are `Repairable` after one reconcile and `Repaired` after two.
`Repairable` data have certificates that decode and whose verification does not panic, so that the
next reconcile leaves them alone or replaces everything; they need not verify, because
`rotateCertsWithOverlap` signs with a CA key that nothing has compared with the CA certificate. What
the parsers return for encoded lists of any length is shown with least counterexamples
(`CertificateBlocks` is a recursive function, and the key taken is the one of the least index).

Only model-checked: liveness (`Converges` and `ServerStarts`), which is out of the prover's reach. All
other properties of the passing runs are theorems.

## Not modelled

* Cryptography, names and host names; x509 extensions other than DNS names.
* The type of a secret. It is immutable, so a secret of that name with another type makes
  every reconcile fail; the model has only secrets the manager created.
* A CA key that does not belong to its certificate together with time (`Pem` has it without).
* `NewClientKeyPair`, `MakeEllipticPrivateKeyPEM`, `EncodePublicKeyPEM`, `AddCertToPEM` and
  `ParsePublicKeysPEM` with the parsers of public keys it tries, which nothing in the repository
  calls.
* Two managers at once: README demands that "the cert manager instance has to be unique per
  cluster". A former leader that still writes while the next one does is not excluded by
  that, but it is the same as another writer with stale caches.
* Construction of the server: `New`, `UpdateOpts`, `WithHook`, `WithPort`, `WithCertDir`, `WithConfig`
  and `Add` store what the program gives them before anything runs. `InjectFunc` and
  `NeedLeaderElection`, which delegate; the wait of up to 30 seconds for caches that are not started
  in `client.go` other than as a read that happens later or a failing request; build, release and version.

## Plan

1. Done: all modules above with their runs, and the proofs listed.
2. `RotationsBounded` where webhooks share a service: how many rotations a fault can cause then.
