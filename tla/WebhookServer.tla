-------------------------------- MODULE WebhookServer --------------------------------
(* The webhook servers beside the certificate chain: pkg/webhook/server/server.go,  *)
(* with the controller-runtime webhook server and its certificate watcher.          *)
(*                                                                                  *)
(* A server waits until VerifyTLS accepts the chain in the cluster, but it serves   *)
(* the files of its pod: a projection of its service's secret that the kubelet      *)
(* refreshes some time after the secret changed. The life of the chain itself is    *)
(* that of module ChainLifecycle. Every service has one server here.                *)
EXTENDS ChainLifecycle

CONSTANTS
    MountLag        \* a mounted secret is at most that much older than the secret

ASSUME MountAssumption == MountLag \in Nat

VARIABLES
    server,     \* server[i]: what the server of service i does
    mounted,    \* mounted[i]: the key pair in the files of its pod
    lag,        \* lag[i]: for how long the files have been older than the secret
    watching,   \* watching[i]: the watcher has its watches on the files
    event,      \* event[i]: the watcher has a file event to handle
    loaded,     \* loaded[i]: the key pair in the watcher, which is served
    refused,    \* history: for how long clients have refused what server i serves
    down,       \* history: for how long server i has not been serving
    missed      \* history: how many key pairs came while server i did not watch yet

podVars == <<server, mounted, lag, watching, event, loaded, missed>>
historyVars == <<refused, down>>
serverVars == <<vars, podVars, historyVars>>

NoPair == [key |-> NoKey, certs |-> << >>]

\* The pods start with the controller, before there is a secret.
ServersInit ==
    /\ Init
    /\ server = [i \in Issues |-> "waiting"]
    /\ mounted = [i \in Issues |-> NoPair]
    /\ lag = [i \in Issues |-> 0]
    /\ watching = [i \in Issues |-> FALSE]
    /\ event = [i \in Issues |-> FALSE]
    /\ loaded = [i \in Issues |-> NoPair]
    /\ refused = [i \in Issues |-> 0]
    /\ down = [i \in Issues |-> 0]
    /\ missed = [i \in Issues |-> 0]

\* Mutant: the server also waits until the previous CA is cleaned up.
TLSReadyWithoutLastCA(i) ==
    /\ server[i] = "waiting"
    /\ Verify(chain, now)
    /\ \A b \in Bundles : Len(chain.caCerts[b]) = 1

\* The next poll of server i succeeds: VerifyTLS accepts the chain.
TLSReady(i) ==
    /\ server[i] = "waiting"
    /\ Verify(chain, now)

\* VerifyTLS is polled until it succeeds. When it does not for five minutes the process
\* ends, and the next one waits.
waitForTLSReadiness(i) ==
    /\ TLSReady(i)
    /\ server' = [server EXCEPT ![i] = "starting"]
    /\ UNCHANGED <<vars, mounted, lag, watching, event, loaded, missed, historyVars>>

\* The watcher is created, which loads the key pair: the server can serve it. If that
\* fails the process ends, and is started again after a while.
Start(i) ==
    /\ server[i] = "starting"
    /\ IF LoadX509KeyPair(mounted[i])
         THEN /\ server' = [server EXCEPT ![i] = "serving"]
              /\ loaded' = [loaded EXCEPT ![i] = mounted[i]]
         ELSE /\ server' = [server EXCEPT ![i] = "ended"]
              /\ UNCHANGED loaded
    /\ UNCHANGED <<vars, mounted, lag, watching, event, missed, historyVars>>

\* Only then, in a goroutine of its own, the watcher adds its watches. Nobody reads the
\* files again for what happened to them since they were loaded.
Watch(i) ==
    /\ server[i] = "serving"
    /\ ~ watching[i]
    /\ watching' = [watching EXCEPT ![i] = TRUE]
    /\ UNCHANGED <<vars, server, mounted, lag, event, loaded, missed, historyVars>>

\* Mutant: a key pair that does not match is served.
ReadCertificateUnmatched(i) ==
    /\ event[i]
    /\ event' = [event EXCEPT ![i] = FALSE]
    /\ loaded' = [loaded EXCEPT ![i] = mounted[i]]
    /\ UNCHANGED <<vars, server, mounted, lag, watching, missed, historyVars>>

\* The watcher reads the files; it keeps what it has when they do not match.
ReadCertificate(i) ==
    /\ event[i]
    /\ event' = [event EXCEPT ![i] = FALSE]
    /\ loaded' = [loaded EXCEPT ![i] = IF LoadX509KeyPair(mounted[i]) THEN mounted[i] ELSE @]
    /\ UNCHANGED <<vars, server, mounted, lag, watching, missed, historyVars>>

\* The files are older than the secret. Those of a deleted secret stay.
Outdated(i) == mounted[i] # chain.issued[i] /\ chain.issued[i] # NoPair

\* Mutant: the watcher no longer watches the files after they were replaced.
MountUnwatched(i) ==
    /\ Outdated(i)
    /\ mounted' = [mounted EXCEPT ![i] = chain.issued[i]]
    /\ lag' = [lag EXCEPT ![i] = 0]
    /\ UNCHANGED <<vars, server, watching, event, loaded, missed, historyVars>>

\* The server has loaded its key pair and does not watch the files yet: that they are
\* replaced, by a key pair that it could load, is lost.
Misses(i) ==
    /\ server[i] = "serving"
    /\ ~ watching[i]
    /\ LoadX509KeyPair(chain.issued[i])

\* The kubelet projects the secret into the pod, which is an event for whoever watches.
Mount(i) ==
    /\ Outdated(i)
    /\ mounted' = [mounted EXCEPT ![i] = chain.issued[i]]
    /\ lag' = [lag EXCEPT ![i] = 0]
    /\ event' = [event EXCEPT ![i] = watching[i]]
    /\ missed' = [missed EXCEPT ![i] = IF Misses(i) THEN @ + 1 ELSE @]
    /\ UNCHANGED <<vars, server, watching, loaded, historyVars>>

\* The process of a server dies, alone or with its pod, whose files are then new ones.
Restart(i) ==
    /\ server[i] = "serving"
    /\ server' = [server EXCEPT ![i] = "waiting"]
    /\ \E files \in {mounted[i], chain.issued[i]} : mounted' = [mounted EXCEPT ![i] = files]
    /\ lag' = [lag EXCEPT ![i] = IF mounted'[i] = mounted[i] THEN @ ELSE 0]
    /\ watching' = [watching EXCEPT ![i] = FALSE]
    /\ event' = [event EXCEPT ![i] = FALSE]
    /\ loaded' = [loaded EXCEPT ![i] = NoPair]
    /\ UNCHANGED <<vars, missed, historyVars>>

\* A client of one of the service's webhooks refuses the certificate that is served.
Refused(i) ==
    /\ server[i] = "serving"
    /\ \E b \in Bundles : /\ IssueOf[b] = i
                          /\ ~ VerifyCertificate(loaded[i].certs[1], chain.caCerts[b], now)

\* Time passes, but a mount is not later than its lag, and what takes the servers only
\* moments is done: to poll VerifyTLS, to start, to watch the files and to handle an event.
TimePasses ==
    /\ \A i \in Issues :
         /\ ~ event[i]
         /\ server[i] # "starting"
         /\ server[i] = "serving" => watching[i]
         /\ ~ TLSReady(i)
         /\ Outdated(i) => lag[i] < MountLag
    /\ Tick
    /\ lag' = [i \in Issues |-> IF Outdated(i) THEN lag[i] + 1 ELSE 0]
    /\ server' = [i \in Issues |-> IF server[i] = "ended" THEN "waiting" ELSE server[i]]
    /\ refused' = [i \in Issues |-> IF Refused(i) THEN refused[i] + 1 ELSE 0]
    /\ down' = [i \in Issues |-> IF server[i] # "serving" THEN down[i] + 1 ELSE 0]
    /\ UNCHANGED <<mounted, watching, event, loaded, missed>>

\* The controller reconciles, or somebody interferes with the chain.
ChainStep ==
    /\ \/ Reconcile
       \/ LoseCA
       \/ \E i \in Issues : LoseService(i)
       \/ \E b \in Bundles : LoseBundle(b)
    /\ UNCHANGED <<podVars, historyVars>>

ServersNext ==
    \/ ChainStep
    \/ TimePasses
    \/ \E i \in Issues : \/ waitForTLSReadiness(i)
                         \/ Start(i)
                         \/ Watch(i)
                         \/ ReadCertificate(i)
                         \/ Mount(i)
                         \/ Restart(i)

ServersSpec == ServersInit /\ [][ServersNext]_serverVars

------------------------------------------------------------------------------------
(* Properties.                                                                      *)

\* The types, and what holds a server together: a serving server has a key pair that it
\* could load, and the files are never older than the lag.
ServersTypeOK ==
    /\ TypeOK
    /\ server \in [Issues -> {"waiting", "starting", "serving", "ended"}]
    /\ mounted \in [Issues -> CertificateIssue]
    /\ lag \in [Issues -> 0..MountLag]
    /\ watching \in [Issues -> BOOLEAN]
    /\ event \in [Issues -> BOOLEAN]
    /\ loaded \in [Issues -> CertificateIssue]
    /\ refused \in [Issues -> Nat]
    /\ down \in [Issues -> Nat]
    /\ missed \in [Issues -> Nat]
    /\ \A i \in Issues : /\ server[i] = "serving" <=> LoadX509KeyPair(loaded[i])
                         /\ watching[i] => server[i] = "serving"
                         /\ event[i] => watching[i]

\* A server with an old projection of its secret is refused only briefly: what a late
\* clean-up and a late mount add up to, and as much again for every interference. A key
\* pair that came before the server watched its files costs more: the server serves its
\* old one until the next one comes, which the life of a certificate may separate.
RefusedBriefly ==
    \A i \in Issues :
        refused[i] <= (1 + faults + missed[i]) * (MaxLateness + MountLag)
                        + missed[i] * CertRotateInterval

\* A server is down no longer than two certificates of its secret overlap: until the old
\* one is cleaned up the files do not match. Then come a late clean-up, a late mount and
\* the wait for the next attempt to start, all three again for every interference.
DownBriefly ==
    \A i \in Issues :
        down[i] <= CertOverlapInterval + (1 + faults) * (MaxLateness + MountLag + 1)

\* README: the bundle holds "also the non expired previous one, that prevents problems
\* related to pods watching an old projection of the mounted secret". Unless somebody
\* interferes, clients trust what a server serves however old its files: it is refused
\* only when its certificate has expired, or the CA that signed it when the server lost a
\* key pair that came before it watched its files.
OldProjectionsTrusted ==
    faults = 0 =>
        \A i \in Issues : Refused(i) =>
            \/ now > loaded[i].certs[1].notAfter
            \/ /\ missed[i] > 0
               /\ \E s \in served[i] : s.cert = loaded[i].certs[1] /\ now >= s.ca.notAfter
====
