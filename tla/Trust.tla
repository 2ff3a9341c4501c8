------------------------------------ MODULE Trust ------------------------------------
(* What the library promises to the clients of the webhooks, whatever happens in    *)
(* which order inside: a client that verifies a service with a webhook's CA bundle  *)
(* keeps trusting a CA until that expires, unless somebody else takes it away.      *)
(* README.md: "The CA bundle [...] contains not only the last rotated CA            *)
(* certificate but also the non expired previous one".                              *)
EXTENDS Integers

VARIABLES
    now,            \* the clock
    trusted,        \* trusted[b]: the CA certificates in the bundle of webhook b
    issuer,         \* the CA certificate the services' certificates are issued with
    disturbances,   \* how often others interfered
    settled         \* the library sees nothing to do

vars == <<now, trusted, issuer, disturbances, settled>>

Unexpired(cas) == {ca \in cas : ca.notAfter > now}

\* No webhook has a bundle.
Init ==
    /\ now \in Nat
    /\ \A b \in DOMAIN trusted : trusted[b] = {}
    /\ disturbances = 0
    /\ settled = FALSE

\* The library has nothing to do only when all clients trust the issuer.
SettledRightly ==
    settled => \A b \in DOMAIN trusted : issuer \in Unexpired(trusted[b])

\* Time passes, and something may become due.
Pass ==
    /\ now' > now
    /\ settled' => settled
    /\ UNCHANGED <<trusted, issuer, disturbances>>

\* The library changes bundles: it drops only what has expired and it adds only one CA,
\* the same to all of them. A slow library may add a CA when that has expired, none
\* before it is valid.
Publish ==
    LET added == UNION {trusted'[b] \ trusted[b] : b \in DOMAIN trusted}
    IN  /\ DOMAIN trusted' = DOMAIN trusted
        /\ \A b \in DOMAIN trusted : Unexpired(trusted[b]) \subseteq trusted'[b]
        /\ \A ca \in added : ca.notBefore <= now
        /\ \A ca1, ca2 \in added : ca1 = ca2
        /\ SettledRightly'
        /\ UNCHANGED <<now, disturbances>>

\* Somebody else takes CAs out of bundles, deletes webhooks, adds some without a bundle
\* or damages what the services are issued with.
Disturb ==
    /\ disturbances' = disturbances + 1
    /\ \A b \in DOMAIN trusted' :
         IF b \in DOMAIN trusted THEN trusted'[b] \subseteq trusted[b] ELSE trusted'[b] = {}
    /\ SettledRightly'
    /\ UNCHANGED now

Next == Pass \/ Publish \/ Disturb

Spec == Init /\ [][Next]_vars
====
