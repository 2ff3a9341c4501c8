------------------------------------- MODULE Pem -------------------------------------
(* The PEM data in which the chain is stored: pkg/certificate/triple/pem.go, the    *)
(* part of cert.go that verifies it, and how the chain decodes and replaces it      *)
(* (chain.go, rotation.go). Anybody can edit the secrets and the webhook            *)
(* configurations, and two readers with different rules read them: the parsers of   *)
(* this repository and the ones of crypto/x509.                                     *)
(*                                                                                  *)
(* A chain with one service and one webhook, all of whose certificates are valid    *)
(* and far from their rotation: what the time does to it is module CertificateChain.*)
EXTENDS SequencesExt, FiniteSetsExt

CONSTANTS
    Foreign,        \* blocks that others put into the data
    MaxEdits,       \* bound: how often they do
    MaxRotations    \* bound: rotations

VARIABLES
    pem,        \* pem[f]: the PEM data of field f
    serial,     \* number of rotations so far
    edits,      \* number of edits so far
    rounds,     \* reconciles since the last edit, at most 2
    panicked    \* the process ended with a panic

vars == <<pem, serial, edits, rounds, panicked>>

\* The data of the CA secret, of the service's secret and the webhook's CA bundle.
Fields == {"caKey", "caCert", "key", "certs", "bundle"}

------------------------------------------------------------------------------------
(* Blocks: a type, whether there are headers, and the DER encoding of something.    *)

Encoded(form, alg, key, signer, names) ==
    [form |-> form, alg |-> alg, key |-> key, signer |-> signer, names |-> names]

Forms == {"garbage", "PKCS1", "PKCS8", "SEC1", "Certificate"}

Algs == {"none", "RSA", "EC"}

Encodings == [form : Forms, alg : Algs, key : Nat, signer : Nat, names : BOOLEAN]

BlockTypes == {"RSA PRIVATE KEY", "CERTIFICATE"} \cup {b.type : b \in Foreign}

Blocks == [type : BlockTypes, headers : BOOLEAN, bytes : Encodings]

\* What others write can be decoded into blocks; what cannot, pem.Decode skips.
ASSUME ForeignAssumption == Foreign \subseteq Blocks

Garbage == Encoded("garbage", "none", 0, 0, FALSE)

PrivateKey(form, alg, key) == Encoded(form, alg, key, 0, FALSE)

X509(key, signer, names) == Encoded("Certificate", "RSA", key, signer, names)

Block(type, bytes) == [type |-> type, headers |-> FALSE, bytes |-> bytes]

EncodePrivateKeyPEM(key) == <<Block("RSA PRIVATE KEY", PrivateKey("PKCS1", "RSA", key))>>

EncodeCertsPEM(certs) == [n \in DOMAIN certs |-> Block("CERTIFICATE", certs[n])]

NoKey == Garbage

\* ParsePrivateKeyPEM: the first block that holds the kind of key that its type says.
KeyForms(type) ==
    CASE type = "EC PRIVATE KEY"  -> {"SEC1"}
      [] type = "RSA PRIVATE KEY" -> {"PKCS1"}
      [] type = "PRIVATE KEY"     -> {"PKCS8"}
      [] OTHER                    -> {}

ParsePrivateKeyPEM(data) ==
    LET keys == {n \in DOMAIN data : data[n].bytes.form \in KeyForms(data[n].type)}
    IN  IF keys = {} THEN NoKey ELSE data[Min(keys)].bytes

\* The loop over the blocks passes over the ones that are not certificates.
CertificateBlocks(data) ==
    LET read[n \in 0..Len(data)] ==
          IF n = 0 THEN << >>
          ELSE IF data[n].type = "CERTIFICATE" /\ ~ data[n].headers
            THEN Append(read[n - 1], data[n])
            ELSE read[n - 1]
    IN  read[Len(data)]

Bytes(blocks) == [n \in DOMAIN blocks |-> blocks[n].bytes]

\* ParseCertsPEM: the first certificate block that does not parse is an error, and what
\* was parsed before it is returned with the error.
ParseCertsPEM(data) ==
    LET read   == Bytes(CertificateBlocks(data))
        broken == {n \in DOMAIN read : read[n].form # "Certificate"}
    IN  [certs |-> IF broken = {} THEN read ELSE SubSeq(read, 1, Min(broken) - 1),
         err   |-> broken # {} \/ read = << >>]

\* x509.CertPool.AppendCertsFromPEM: the blocks that do not parse are skipped.
AppendCertsFromPEM(data) ==
    {c \in Range(Bytes(CertificateBlocks(data))) : c.form = "Certificate"}

\* keyPairPemToKeypair: neither key nor certificates unless both are there and the key
\* is an RSA key.
keyPairPemToKeypair(keyPEM, certPEM) ==
    LET key  == ParsePrivateKeyPEM(keyPEM)
        read == ParseCertsPEM(certPEM)
    IN  IF key.alg # "RSA" \/ read.err
          THEN [key |-> NoKey, certs |-> << >>]
          ELSE [key |-> key, certs |-> read.certs]

\* triple.VerifyTLS takes the first DNS name of the certificate without looking whether
\* there is one.
VerifyTLS(certsPEM, keyPEM, caBundle) ==
    LET read == ParseCertsPEM(certsPEM)
        cas  == AppendCertsFromPEM(caBundle)
    IN  IF ParsePrivateKeyPEM(keyPEM) = NoKey \/ read.err \/ cas = {} THEN "error"
        ELSE IF ~ read.certs[1].names THEN "panic"
        ELSE IF \E ca \in cas : ca.key = read.certs[1].signer THEN "verified"
        ELSE "error"

------------------------------------------------------------------------------------
(* The chain: chain.go and rotation.go.                                             *)

getLastCert(certs) == IF certs = << >> THEN NoKey ELSE Last(certs)

\* newChain decodes the CA, the issue and the bundle.
newChain(p) ==
    LET ca    == keyPairPemToKeypair(p["caKey"], p["caCert"])
        issue == keyPairPemToKeypair(p["key"], p["certs"])
    IN  [caKey   |-> ca.key,
         caCert  |-> getLastCert(ca.certs),
         certs   |-> issue.certs,
         caCerts |-> ParseCertsPEM(p["bundle"]).certs]

verifyTLS(p) ==
    IF getLastCert(newChain(p).caCerts) # newChain(p).caCert
      THEN "error"
      ELSE VerifyTLS(p["certs"], p["key"], p["bundle"])

\* The server certificate that the CA key signs, and the new CA.
NewServerCert(key, caKey) == X509(key, caKey, TRUE)

NewCACert(key) == X509(key, key, FALSE)

\* Mutant: the new CA replaces the bundle.
rotateAllAlone(p, key) ==
    [p EXCEPT !["caKey"]  = EncodePrivateKeyPEM(key),
              !["caCert"] = EncodeCertsPEM(<<NewCACert(key)>>),
              !["bundle"] = EncodeCertsPEM(<<NewCACert(key)>>),
              !["key"]    = EncodePrivateKeyPEM(key),
              !["certs"]  = EncodeCertsPEM(<<NewServerCert(key, key)>>)]

rotateAll(p, key) ==
    [p EXCEPT !["caKey"]  = EncodePrivateKeyPEM(key),
              !["caCert"] = EncodeCertsPEM(<<NewCACert(key)>>),
              !["bundle"] = EncodeCertsPEM(Append(newChain(p).caCerts, NewCACert(key))),
              !["key"]    = EncodePrivateKeyPEM(key),
              !["certs"]  = EncodeCertsPEM(<<NewServerCert(key, key)>>)]

rotateCertsWithOverlap(p, key) ==
    [p EXCEPT !["key"]   = EncodePrivateKeyPEM(key),
              !["certs"] = EncodeCertsPEM(Append(newChain(p).certs,
                                                 NewServerCert(key, newChain(p).caKey.key)))]

\* Mutant: a chain that does not verify is not replaced.
mustRotateEmptyCA(p) == newChain(p).caCerts = << >>

\* An empty bundle is due for rotation, a chain that does not verify is replaced, and
\* certificates that do not decode are due for rotation.
mustRotateCA(p) == newChain(p).caCerts = << >> \/ verifyTLS(p) = "error"

mustRotateCerts(p) == newChain(p).certs = << >>

Panics(p) == newChain(p).caCerts # << >> /\ verifyTLS(p) = "panic"

update(p, key) ==
    IF mustRotateCA(p) THEN rotateAll(p, key)
    ELSE IF mustRotateCerts(p) THEN rotateCertsWithOverlap(p, key)
    ELSE p

------------------------------------------------------------------------------------
Init ==
    /\ pem = [f \in Fields |-> << >>]
    /\ serial = 0
    /\ edits = 0
    /\ rounds = 0
    /\ panicked = FALSE

\* chain.Update, and with it Reconcile.
Update ==
    /\ ~ Panics(pem)
    /\ serial < MaxRotations
    /\ pem' = update(pem, serial + 1)
    /\ serial' = IF pem' = pem THEN serial ELSE serial + 1
    /\ rounds' = Min({rounds + 1, 2})
    /\ panicked' = FALSE
    /\ UNCHANGED edits

\* The process ends, is started again and finds the same data.
Panic ==
    /\ Panics(pem)
    /\ panicked' = TRUE
    /\ UNCHANGED <<pem, serial, edits, rounds>>

\* Somebody replaces the data of a field, or adds to them before or behind.
Edit(f) ==
    /\ edits < MaxEdits
    /\ edits' = edits + 1
    /\ \E b \in Foreign :
         \E data \in {<< >>, <<b>>, <<b>> \o pem[f], pem[f] \o <<b>>} :
           pem' = [pem EXCEPT ![f] = data]
    /\ rounds' = 0
    /\ UNCHANGED <<serial, panicked>>

Next == Update \/ Panic \/ \E f \in Fields : Edit(f)

Spec == Init /\ [][Next]_vars

------------------------------------------------------------------------------------
(* Properties.                                                                      *)

\* Whatever others write into the data, two reconciles make a chain of it that verifies
\* and that the next reconcile leaves alone. The first does not do when it signs with a
\* CA key that is not the one of the CA certificate.
TwoReconcilesRepair ==
    rounds = 2 => verifyTLS(pem) = "verified" /\ update(pem, serial + 1) = pem

\* Clients lose no CA that somebody else put into a bundle, whatever else is in it, as far
\* as the chain can read the bundle: up to the first certificate block that does not parse.
\* What stands behind that block a reconcile may drop, although clients could read it.
ReadableCAsKept ==
    [][Update => Range(ParseCertsPEM(pem["bundle"]).certs) \subseteq AppendCertsFromPEM(pem'["bundle"])]_vars

\* The doc of Verify: "An error is returned if it does not" verify. No data make it panic.
NeverPanics == ~ panicked
====
