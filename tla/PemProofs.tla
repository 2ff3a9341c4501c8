---------------------------------- MODULE PemProofs ----------------------------------
(* Proofs about Pem, for every set of blocks that others may write: the parsers read*)
(* back what the encoders wrote, two reconciles repair whatever others wrote, and   *)
(* no CA that can be read is lost.                                                  *)
EXTENDS Pem, WellFoundedInduction, SequenceTheorems, TLAPS

\* A set of natural numbers has a least element, the one that Min chooses.
LEMMA LeastNumber ==
    ASSUME NEW S \in SUBSET Nat, S # {}
    PROVE  Min(S) \in S /\ \A u \in S : Min(S) <= u
<1> DEFINE R == OpToRel(<, Nat)
<1>1. IsWellFoundedOn(R, Nat)  BY NatLessThanWellFounded
<1>2. PICK m \in S : \A u \in S : <<u, m>> \notin R
  <2> HIDE DEF R
  <2> QED  BY <1>1, WFMin
<1>3. \A u \in S : ~ (u < m)  BY <1>2 DEF OpToRel
<1>4. \A u \in S : m <= u  BY <1>3
<1> QED  BY <1>4 DEF Min

------------------------------------------------------------------------------------
(* The blocks that are read as certificates.                                        *)

IsCertificateBlock(b) == b.type = "CERTIFICATE" /\ ~ b.headers

\* One iteration of the loop, and what a function that maps a number of iterations to the
\* blocks read in them has to satisfy.
ReadStep(data, g, n) ==
    IF n = 0 THEN << >>
    ELSE IF data[n].type = "CERTIFICATE" /\ ~ data[n].headers
      THEN Append(g[n - 1], data[n])
      ELSE g[n - 1]

ReadBy(data, k, g) ==
    /\ g \in [0..k -> Seq(Blocks)]
    /\ \A n \in 0..k : g[n] = ReadStep(data, g, n)

\* The recursive definition in CertificateBlocks has a solution on every prefix.
LEMMA ReadExists ==
    ASSUME NEW data \in Seq(Blocks), NEW k \in 0..Len(data)
    PROVE  \E g : ReadBy(data, k, g)
<1> DEFINE Bad == {m \in 0..Len(data) : ~ \E g : ReadBy(data, m, g)}
<1>1. Bad = {}
  <2> SUFFICES ASSUME Bad # {} PROVE FALSE
    OBVIOUS
  <2>1. PICK m \in Bad : \A u \in Bad : m <= u
    <3>1. Bad \in SUBSET Nat  OBVIOUS
    <3> HIDE DEF Bad
    <3> QED  BY <3>1, LeastNumber
  <2>2. m # 0
    <3> DEFINE z == [n \in 0..0 |-> << >>]
    <3>1. z \in [0..0 -> Seq(Blocks)]  OBVIOUS
    <3>2. \A n \in 0..0 : n = 0  OBVIOUS
    <3>3. \A n \in 0..0 : z[n] = << >>  OBVIOUS
    <3> HIDE DEF z
    <3>4. ReadBy(data, 0, z)
      BY <3>1, <3>2, <3>3 DEF ReadBy, ReadStep
    <3> QED  BY <3>4
  <2>3. m - 1 \in 0..Len(data) /\ m - 1 \notin Bad
    BY <2>1, <2>2
  <2>4. PICK g : ReadBy(data, m - 1, g)
    BY <2>3
  <2> DEFINE h == [n \in 0..m |-> IF n < m THEN g[n] ELSE ReadStep(data, g, m)]
  <2>5. h \in [0..m -> Seq(Blocks)]
    <3>1. data[m] \in Blocks /\ g[m - 1] \in Seq(Blocks)
      BY <2>2, <2>4 DEF ReadBy
    <3>2. ReadStep(data, g, m) \in Seq(Blocks)
      BY <3>1, <2>2 DEF ReadStep
    <3> QED  BY <3>2, <2>4 DEF ReadBy
  <2>6. ASSUME NEW n \in 0..m PROVE h[n] = ReadStep(data, h, n)
    <3>1. CASE n < m
      <4>1. n \in 0..(m - 1) /\ h[n] = g[n]  BY <3>1
      <4>2. n # 0 => h[n - 1] = g[n - 1]  BY <3>1
      <4>3. g[n] = ReadStep(data, g, n)  BY <4>1, <2>4 DEF ReadBy
      <4> QED  BY <4>1, <4>2, <4>3 DEF ReadStep
    <3>2. CASE n = m
      <4>1. h[n] = ReadStep(data, g, m)  BY <3>2
      <4>2. h[n - 1] = g[n - 1]  BY <3>2, <2>2
      <4> QED  BY <4>1, <4>2, <3>2 DEF ReadStep
    <3> QED  BY <3>1, <3>2
  <2>7. ReadBy(data, m, h)
    <3> HIDE DEF h
    <3> QED  BY <2>5, <2>6 DEF ReadBy
  <2> QED  BY <2>1, <2>7
<1> QED  BY <1>1

\* The loop as an equation.
LEMMA ReadUnfolds ==
    ASSUME NEW data \in Seq(Blocks)
    PROVE  \E g : ReadBy(data, Len(data), g) /\ CertificateBlocks(data) = g[Len(data)]
<1> DEFINE read == CHOOSE g : g = [n \in 0..Len(data) |-> ReadStep(data, g, n)]
<1>1. PICK g : ReadBy(data, Len(data), g)
  BY ReadExists
<1>2. g = [n \in 0..Len(data) |-> ReadStep(data, g, n)]
  BY <1>1 DEF ReadBy
<1>3. read = [n \in 0..Len(data) |-> ReadStep(data, read, n)]
  BY <1>2
<1>4. CertificateBlocks(data) = read[Len(data)]
  BY DEF CertificateBlocks, ReadStep
<1> HIDE DEF read
<1> DEFINE Bad == {n \in 0..Len(data) : read[n] # g[n]}
<1>5. Bad = {}
  <2> SUFFICES ASSUME Bad # {} PROVE FALSE
    OBVIOUS
  <2>1. PICK n \in Bad : \A u \in Bad : n <= u
    <3>1. Bad \in SUBSET Nat  OBVIOUS
    <3> HIDE DEF Bad
    <3> QED  BY <3>1, LeastNumber
  <2>2. read[n] = ReadStep(data, read, n) /\ g[n] = ReadStep(data, g, n)
    BY <1>1, <1>3 DEF ReadBy
  <2>3. n # 0 => read[n - 1] = g[n - 1]
    BY <2>1
  <2> QED  BY <2>1, <2>2, <2>3 DEF ReadStep
<1> QED  BY <1>1, <1>4, <1>5

\* What is read is a list of certificate blocks.
LEMMA CertificateBlocksTypes ==
    ASSUME NEW data \in Seq(Blocks)
    PROVE  CertificateBlocks(data) \in Seq(Blocks)
<1>1. PICK g : ReadBy(data, Len(data), g) /\ CertificateBlocks(data) = g[Len(data)]
  BY ReadUnfolds
<1>2. Len(data) \in 0..Len(data)  OBVIOUS
<1> QED  BY <1>1, <1>2 DEF ReadBy

\* Where all blocks are certificate blocks, all are read.
LEMMA AllBlocksRead ==
    ASSUME NEW data \in Seq(Blocks), \A n \in DOMAIN data : IsCertificateBlock(data[n])
    PROVE  CertificateBlocks(data) = data
<1>1. PICK g : ReadBy(data, Len(data), g) /\ CertificateBlocks(data) = g[Len(data)]
  BY ReadUnfolds
<1> DEFINE Same(n) == Len(g[n]) = n /\ \A m \in 1..n : g[n][m] = data[m]
           Bad == {n \in 0..Len(data) : ~ Same(n)}
<1>2. Bad = {}
  <2> SUFFICES ASSUME Bad # {} PROVE FALSE
    OBVIOUS
  <2>1. PICK n \in Bad : \A u \in Bad : n <= u
    <3>1. Bad \in SUBSET Nat  OBVIOUS
    <3> HIDE DEF Bad
    <3> QED  BY <3>1, LeastNumber
  <2>2. g[n] = ReadStep(data, g, n)  BY <1>1 DEF ReadBy
  <2>3. CASE n = 0  BY <2>2, <2>3 DEF ReadStep
  <2>4. CASE n # 0
    <3>1. n - 1 \in 0..Len(data) /\ n - 1 \notin Bad /\ n \in 1..Len(data)
      <4>1. n \in 0..Len(data)  OBVIOUS
      <4> HIDE DEF Bad
      <4> QED  BY <2>1, <2>4, <4>1
    <3>2. Same(n - 1)  BY <3>1
    <3>3. data[n] \in Blocks /\ g[n - 1] \in Seq(Blocks)  BY <1>1, <3>1 DEF ReadBy
    <3>4. g[n] = Append(g[n - 1], data[n])
      BY <2>2, <2>4, <3>1 DEF ReadStep, IsCertificateBlock
    <3>5. Len(g[n]) = n  BY <3>1, <3>2, <3>3, <3>4
    <3>6. ASSUME NEW m \in 1..n PROVE g[n][m] = data[m]
      <4>1. CASE m = n  BY <3>1, <3>2, <3>3, <3>4, <4>1
      <4>2. CASE m < n  BY <3>1, <3>2, <3>3, <3>4, <4>2
      <4> QED  BY <4>1, <4>2
    <3>7. Same(n)  BY <3>5, <3>6
    <3> QED  BY <3>7
  <2> QED  BY <2>3, <2>4
<1>3. Same(Len(data))  BY <1>2
<1>4. g[Len(data)] \in Seq(Blocks)  BY <1>1 DEF ReadBy
<1>5. g[Len(data)] = data
  <2> HIDE DEF Bad
  <2> QED  BY <1>3, <1>4
<1> QED  BY <1>1, <1>5

------------------------------------------------------------------------------------
(* The parsers and the encoders.                                                    *)

\* The encodings in a list of blocks.
LEMMA BytesTypes ==
    ASSUME NEW data \in Seq(Blocks)
    PROVE  /\ Bytes(data) \in Seq(Encodings) /\ Len(Bytes(data)) = Len(data)
           /\ DOMAIN Bytes(data) = DOMAIN data
           /\ \A n \in DOMAIN data : Bytes(data)[n] = data[n].bytes
<1>1. \A n \in DOMAIN data : data[n].bytes \in Encodings
  <2>1. \A n \in DOMAIN data : data[n] \in Blocks  OBVIOUS
  <2> QED  BY <2>1 DEF Blocks
<1>2. DOMAIN data = 1..Len(data) /\ Len(data) \in Nat  OBVIOUS
<1>3. Bytes(data) = [n \in 1..Len(data) |-> data[n].bytes]  BY <1>2 DEF Bytes
<1> QED  BY <1>1, <1>2, <1>3

\* ParseCertsPEM returns certificates that clients read too, and some unless it returns an
\* error.
LEMMA ParsedCerts ==
    ASSUME NEW data \in Seq(Blocks)
    PROVE  /\ ParseCertsPEM(data).certs \in Seq(Encodings)
           /\ \A n \in DOMAIN ParseCertsPEM(data).certs :
                ParseCertsPEM(data).certs[n].form = "Certificate"
           /\ Range(ParseCertsPEM(data).certs) \subseteq AppendCertsFromPEM(data)
           /\ ParseCertsPEM(data).err \in BOOLEAN
           /\ ~ ParseCertsPEM(data).err => ParseCertsPEM(data).certs # << >>
<1> DEFINE read == Bytes(CertificateBlocks(data))
           broken == {n \in DOMAIN read : read[n].form # "Certificate"}
<1>1. read \in Seq(Encodings)  BY CertificateBlocksTypes, BytesTypes
<1>2. ParseCertsPEM(data)
        = [certs |-> IF broken = {} THEN read ELSE SubSeq(read, 1, Min(broken) - 1),
           err   |-> broken # {} \/ read = << >>]
  BY DEF ParseCertsPEM
<1>3. /\ ParseCertsPEM(data).certs = IF broken = {} THEN read ELSE SubSeq(read, 1, Min(broken) - 1)
      /\ ParseCertsPEM(data).err = (broken # {} \/ read = << >>)
  BY <1>2
<1>a. AppendCertsFromPEM(data) = {c \in Range(read) : c.form = "Certificate"}  BY DEF AppendCertsFromPEM
<1> HIDE DEF read
<1>4. CASE broken = {}
  <2>1. \A n \in DOMAIN read : read[n].form = "Certificate"  BY <1>4
  <2>2. Range(read) \subseteq AppendCertsFromPEM(data)  BY <1>a, <2>1 DEF Range
  <2>3. ParseCertsPEM(data).certs = read  BY <1>3, <1>4
  <2> HIDE DEF broken
  <2> QED  BY <1>1, <1>3, <1>4, <2>1, <2>2, <2>3
<1>5. CASE broken # {}
  <2> DEFINE m == Min(broken) - 1
  <2>1. broken \in SUBSET Nat  BY <1>1
  <2>2. Min(broken) \in broken /\ \A u \in broken : Min(broken) <= u
    <3> HIDE DEF broken
    <3> QED  BY <1>5, <2>1, LeastNumber
  <2>3. m \in 0..Len(read) /\ \A n \in 1..m : n \in DOMAIN read /\ n \notin broken
    <3>1. broken \subseteq 1..Len(read) /\ DOMAIN read = 1..Len(read) /\ Len(read) \in Nat  BY <1>1
    <3> HIDE DEF broken
    <3>2. Min(broken) \in 1..Len(read)  BY <2>2, <3>1
    <3>3. m \in 0..Len(read)  BY <3>1, <3>2
    <3>4. ASSUME NEW n \in 1..m PROVE n \in 1..Len(read) /\ ~ (Min(broken) <= n)  BY <3>1, <3>2
    <3> HIDE DEF m
    <3> QED  BY <2>2, <3>1, <3>3, <3>4
  <2>4. \A n \in 1..m : read[n] \in Encodings /\ read[n].form = "Certificate"  BY <1>1, <2>3
  <2> HIDE DEF m
  <2>5. /\ SubSeq(read, 1, m) \in Seq(Encodings)
        /\ Len(SubSeq(read, 1, m)) = m
        /\ \A n \in 1..m : SubSeq(read, 1, m)[n] = read[n]
    <3>1. m \in Int /\ m >= 0  BY <2>3
    <3>2. /\ SubSeq(read, 1, m) \in Seq(Encodings)
          /\ Len(SubSeq(read, 1, m)) = IF 1 <= m THEN m - 1 + 1 ELSE 0
          /\ \A n \in 1..(m - 1 + 1) : SubSeq(read, 1, m)[n] = read[1 + n - 1]
      BY <2>4, <3>1, SubSeqProperties
    <3>3. m - 1 + 1 = m /\ \A n \in Nat : 1 + n - 1 = n  BY <3>1
    <3> QED  BY <3>1, <3>2, <3>3
  <2>6. ParseCertsPEM(data).certs = SubSeq(read, 1, m)  BY <1>3, <1>5 DEF m
  <2>7. DOMAIN SubSeq(read, 1, m) = 1..m  BY <2>5
  <2>8. ParseCertsPEM(data).err  BY <1>3, <1>5
  <2>9. Range(SubSeq(read, 1, m)) \subseteq AppendCertsFromPEM(data)
    BY <1>a, <2>3, <2>4, <2>5, <2>7 DEF Range
  <2> QED  BY <1>3, <2>4, <2>5, <2>6, <2>7, <2>8, <2>9
<1> QED  BY <1>4, <1>5

\* The fields of an encoding.
LEMMA EncodedTypes ==
    ASSUME NEW form \in Forms, NEW alg \in Algs, NEW key \in Nat, NEW signer \in Nat,
           NEW names \in BOOLEAN
    PROVE  /\ Encoded(form, alg, key, signer, names) \in Encodings
           /\ Encoded(form, alg, key, signer, names).form = form
           /\ Encoded(form, alg, key, signer, names).alg = alg
           /\ Encoded(form, alg, key, signer, names).key = key
           /\ Encoded(form, alg, key, signer, names).signer = signer
           /\ Encoded(form, alg, key, signer, names).names = names
BY Zenon DEF Encoded, Encodings

\* A block has no headers.
LEMMA BlockFields ==
    ASSUME NEW c \in Encodings, NEW type \in BlockTypes
    PROVE  /\ Block(type, c) \in Blocks
           /\ Block(type, c).type = type /\ ~ Block(type, c).headers /\ Block(type, c).bytes = c
<1>1. FALSE \in BOOLEAN  OBVIOUS
<1>2. Block(type, c) \in Blocks  BY <1>1, Zenon DEF Block, Blocks
<1>3. Block(type, c).type = type /\ ~ Block(type, c).headers /\ Block(type, c).bytes = c
  BY Zenon DEF Block
<1> QED  BY <1>2, <1>3

\* Both readers read back what EncodeCertsPEM wrote.
LEMMA EncodedCerts ==
    ASSUME NEW certs \in Seq(Encodings), \A n \in DOMAIN certs : certs[n].form = "Certificate"
    PROVE  /\ EncodeCertsPEM(certs) \in Seq(Blocks)
           /\ ParseCertsPEM(EncodeCertsPEM(certs)).certs = certs
           /\ ParseCertsPEM(EncodeCertsPEM(certs)).err <=> certs = << >>
           /\ AppendCertsFromPEM(EncodeCertsPEM(certs)) = Range(certs)
<1> DEFINE data == EncodeCertsPEM(certs)
<1>1. DOMAIN certs = 1..Len(certs) /\ Len(certs) \in Nat /\ \A n \in DOMAIN certs : certs[n] \in Encodings
  OBVIOUS
<1>2. \A c \in Encodings : /\ Block("CERTIFICATE", c) \in Blocks
                           /\ IsCertificateBlock(Block("CERTIFICATE", c))
                           /\ Block("CERTIFICATE", c).bytes = c
  <2>1. "CERTIFICATE" \in BlockTypes  BY DEF BlockTypes
  <2> QED  BY <2>1, BlockFields, Zenon DEF IsCertificateBlock
<1>3. data = [n \in 1..Len(certs) |-> Block("CERTIFICATE", certs[n])]  BY <1>1 DEF EncodeCertsPEM
<1>4. /\ data \in Seq(Blocks) /\ Len(data) = Len(certs) /\ DOMAIN data = DOMAIN certs
      /\ \A n \in DOMAIN data : IsCertificateBlock(data[n]) /\ data[n].bytes = certs[n]
  BY <1>1, <1>2, <1>3
<1> HIDE DEF data
<1>5. CertificateBlocks(data) = data  BY <1>4, AllBlocksRead
<1>6. Bytes(data) = certs
  <2>1. /\ Bytes(data) \in Seq(Encodings) /\ Len(Bytes(data)) = Len(certs)
        /\ \A n \in DOMAIN certs : Bytes(data)[n] = certs[n]
    BY <1>4, BytesTypes
  <2> QED  BY <1>1, <2>1
<1>7. {n \in DOMAIN certs : certs[n].form # "Certificate"} = {}  OBVIOUS
<1>8. ParseCertsPEM(data) = [certs |-> certs, err |-> certs = << >>]
  BY <1>5, <1>6, <1>7 DEF ParseCertsPEM
<1>9. AppendCertsFromPEM(data) = Range(certs)
  BY <1>5, <1>6 DEF AppendCertsFromPEM, Range
<1>10. ParseCertsPEM(data).certs = certs  BY <1>8
<1>11. ParseCertsPEM(data).err <=> certs = << >>
  <2>1. ASSUME NEW e \in BOOLEAN, ParseCertsPEM(data) = [certs |-> certs, err |-> e]
        PROVE  ParseCertsPEM(data).err = e
    <3>1. [certs |-> certs, err |-> e].err = e  BY Zenon
    <3> QED  BY <2>1, <3>1, Zenon
  <2>2. (certs = << >>) \in BOOLEAN  OBVIOUS
  <2> QED  BY <1>8, <2>1, <2>2, Zenon
<1> QED  BY <1>4, <1>9, <1>10, <1>11 DEF data

\* ParsePrivateKeyPEM reads back what EncodePrivateKeyPEM wrote.
LEMMA EncodedKey ==
    ASSUME NEW k \in Nat
    PROVE  /\ EncodePrivateKeyPEM(k) \in Seq(Blocks)
           /\ ParsePrivateKeyPEM(EncodePrivateKeyPEM(k)) = PrivateKey("PKCS1", "RSA", k)
           /\ PrivateKey("PKCS1", "RSA", k).alg = "RSA"
           /\ PrivateKey("PKCS1", "RSA", k) # NoKey
<1> DEFINE b == Block("RSA PRIVATE KEY", PrivateKey("PKCS1", "RSA", k))
           data == <<b>>
           keys == {n \in DOMAIN data : data[n].bytes.form \in KeyForms(data[n].type)}
<1>1. b \in Blocks /\ b.type = "RSA PRIVATE KEY" /\ b.bytes = PrivateKey("PKCS1", "RSA", k)
  <2>1. FALSE \in BOOLEAN /\ 0 \in Nat  OBVIOUS
  <2>2. "PKCS1" \in Forms /\ "RSA" \in Algs /\ "RSA PRIVATE KEY" \in BlockTypes
    BY DEF Forms, Algs, BlockTypes
  <2>3. PrivateKey("PKCS1", "RSA", k) \in Encodings  BY <2>1, <2>2, EncodedTypes, Zenon DEF PrivateKey
  <2> QED  BY <2>2, <2>3, BlockFields, Zenon DEF b
<1>2. b.bytes.form = "PKCS1" /\ b.bytes.alg = "RSA"
  <2> DEFINE key == Encoded("PKCS1", "RSA", k, 0, FALSE)
  <2>1. FALSE \in BOOLEAN /\ 0 \in Nat  OBVIOUS
  <2>2. "PKCS1" \in Forms /\ "RSA" \in Algs  BY DEF Forms, Algs
  <2>3. key.form = "PKCS1" /\ key.alg = "RSA"
    <3>1. key.form = "PKCS1"  BY Zenon DEF Encoded
    <3>2. key.alg = "RSA"  BY Zenon DEF Encoded
    <3> QED  BY <3>1, <3>2, Zenon
  <2>4. b.bytes = key  BY <1>1, Zenon DEF PrivateKey
  <2> HIDE DEF b, key
  <2> QED  BY <2>3, <2>4
<1>3. "PKCS1" \in KeyForms("RSA PRIVATE KEY")  BY DEF KeyForms
<1>4. b.bytes # NoKey
  <2>1. NoKey.form = "garbage"  BY DEF NoKey, Garbage, Encoded
  <2> QED  BY <1>2, <2>1
<1> HIDE DEF b
<1>5. data \in Seq(Blocks) /\ DOMAIN data = {1} /\ data[1] = b
  <2>1. b \in Blocks  BY <1>1
  <2> QED  BY <2>1
<1>6. keys = {1}  BY <1>1, <1>2, <1>3, <1>5
<1>7. Min({1}) = 1
  <2>1. {1} \in SUBSET Nat /\ {1} # {}  OBVIOUS
  <2> QED  BY <2>1, LeastNumber
<1>8. ParsePrivateKeyPEM(data) = b.bytes
  BY <1>5, <1>6, <1>7 DEF ParsePrivateKeyPEM
<1>9. EncodePrivateKeyPEM(k) = data  BY DEF EncodePrivateKeyPEM, b
<1> QED  BY <1>1, <1>2, <1>4, <1>5, <1>8, <1>9

------------------------------------------------------------------------------------
(* The chain.                                                                       *)

Data == [Fields -> Seq(Blocks)]

\* The certificates of newChain, which are not mixed with anything else.
LEMMA ChainCerts ==
    ASSUME NEW p \in Data
    PROVE  /\ newChain(p).caCerts = ParseCertsPEM(p["bundle"]).certs
           /\ newChain(p).certs = keyPairPemToKeypair(p["key"], p["certs"]).certs
           /\ newChain(p).caKey = keyPairPemToKeypair(p["caKey"], p["caCert"]).key
           /\ newChain(p).caCert = getLastCert(keyPairPemToKeypair(p["caKey"], p["caCert"]).certs)
BY DEF newChain

\* A new certificate.
LEMMA NewCerts ==
    ASSUME NEW key \in Nat, NEW caKey \in Nat
    PROVE  /\ NewServerCert(key, caKey) \in Encodings
           /\ NewServerCert(key, caKey).form = "Certificate"
           /\ NewServerCert(key, caKey).signer = caKey
           /\ NewServerCert(key, caKey).names
           /\ NewCACert(key) \in Encodings
           /\ NewCACert(key).form = "Certificate"
           /\ NewCACert(key).key = key
<1> DEFINE c == Encoded("Certificate", "RSA", key, caKey, TRUE)
           d == Encoded("Certificate", "RSA", key, key, FALSE)
<1>1. TRUE \in BOOLEAN /\ FALSE \in BOOLEAN  OBVIOUS
<1>2. "Certificate" \in Forms /\ "RSA" \in Algs  BY DEF Forms, Algs
<1>3. c \in Encodings /\ c.form = "Certificate" /\ c.signer = caKey
  <2>1. c \in Encodings  BY <1>1, <1>2, EncodedTypes, Zenon
  <2>2. c.form = "Certificate"  BY Zenon DEF Encoded
  <2>3. c.signer = caKey  BY Zenon DEF Encoded
  <2> QED  BY <2>1, <2>2, <2>3, Zenon
<1>4. c.names = TRUE  BY <1>1, <1>2, EncodedTypes, Zenon
<1>5. d \in Encodings /\ d.form = "Certificate" /\ d.key = key
  <2>1. d \in Encodings  BY <1>1, <1>2, EncodedTypes, Zenon
  <2>2. d.form = "Certificate"  BY Zenon DEF Encoded
  <2>3. d.key = key  BY Zenon DEF Encoded
  <2> QED  BY <2>1, <2>2, <2>3, Zenon
<1>6. NewServerCert(key, caKey) = c /\ NewCACert(key) = d  BY DEF NewServerCert, NewCACert, X509
<1> HIDE DEF c, d
<1>7. c.names  BY <1>4, Zenon
<1> QED  BY <1>3, <1>5, <1>6, <1>7, Zenon

\* A single certificate, as it is written.
LEMMA SingleCert ==
    ASSUME NEW c \in Encodings, c.form = "Certificate"
    PROVE  /\ EncodeCertsPEM(<<c>>) \in Seq(Blocks)
           /\ ParseCertsPEM(EncodeCertsPEM(<<c>>)).certs = <<c>>
           /\ ~ ParseCertsPEM(EncodeCertsPEM(<<c>>)).err
<1>1. <<c>> \in Seq(Encodings) /\ \A n \in DOMAIN <<c>> : <<c>>[n].form = "Certificate"  OBVIOUS
<1>2. <<c>> # << >>  OBVIOUS
<1> QED  BY <1>1, <1>2, EncodedCerts, Zenon

\* A key pair that was written is read.
LEMMA KeyPairRead ==
    ASSUME NEW k \in Nat, NEW c \in Encodings, c.form = "Certificate"
    PROVE  keyPairPemToKeypair(EncodePrivateKeyPEM(k), EncodeCertsPEM(<<c>>)).certs = <<c>>
<1>1. /\ ParseCertsPEM(EncodeCertsPEM(<<c>>)).certs = <<c>>
      /\ ~ ParseCertsPEM(EncodeCertsPEM(<<c>>)).err
  BY SingleCert
<1>2. /\ ParsePrivateKeyPEM(EncodePrivateKeyPEM(k)) = PrivateKey("PKCS1", "RSA", k)
      /\ PrivateKey("PKCS1", "RSA", k).alg = "RSA"
  BY EncodedKey
<1>3. keyPairPemToKeypair(EncodePrivateKeyPEM(k), EncodeCertsPEM(<<c>>))
        = [key |-> PrivateKey("PKCS1", "RSA", k), certs |-> <<c>>]
  BY <1>1, <1>2, Zenon DEF keyPairPemToKeypair
<1> QED  BY <1>3

\* The chain needs nothing more.
Repaired(p) ==
    /\ newChain(p).caCerts # << >>
    /\ newChain(p).certs # << >>
    /\ verifyTLS(p) = "verified"

\* Another reconcile is enough.
Repairable(p) ==
    /\ newChain(p).certs # << >>
    /\ verifyTLS(p) # "panic"

\* What needs nothing more is left alone.
LEMMA RepairedStays ==
    ASSUME NEW p, NEW k, Repaired(p)
    PROVE  update(p, k) = p
<1>1. ~ mustRotateCA(p) /\ ~ mustRotateCerts(p)  BY DEF Repaired, mustRotateCA, mustRotateCerts
<1> QED  BY <1>1, Zenon DEF update

\* The key of the CA, whatever the data of the CA are.
LEMMA CAKeyNumber ==
    ASSUME NEW p \in Data
    PROVE  newChain(p).caKey.key \in Nat
<1> DEFINE data == p["caKey"]
           keys == {n \in DOMAIN data : data[n].bytes.form \in KeyForms(data[n].type)}
<1>1. data \in Seq(Blocks)  BY DEF Data, Fields
<1>2. NoKey.key \in Nat  BY DEF NoKey, Garbage, Encoded
<1>3. ParsePrivateKeyPEM(data).key \in Nat
  <2>1. CASE keys = {}
    BY <1>2, <2>1 DEF ParsePrivateKeyPEM
  <2>2. CASE keys # {}
    <3>1. keys \in SUBSET Nat  BY <1>1
    <3>2. Min(keys) \in keys
      <4> HIDE DEF keys
      <4> QED  BY <2>2, <3>1, LeastNumber
    <3>3. data[Min(keys)] \in Blocks
      <4>1. Min(keys) \in DOMAIN data  BY <3>2
      <4> HIDE DEF keys
      <4> QED  BY <1>1, <4>1
    <3>4. data[Min(keys)].bytes.key \in Nat  BY <3>3 DEF Blocks, Encodings
    <3>5. ParsePrivateKeyPEM(data) = data[Min(keys)].bytes  BY <2>2 DEF ParsePrivateKeyPEM
    <3> QED  BY <3>4, <3>5
  <2> QED  BY <2>1, <2>2
<1>4. newChain(p).caKey \in {NoKey, ParsePrivateKeyPEM(data)}
  <2>1. newChain(p).caKey = keyPairPemToKeypair(p["caKey"], p["caCert"]).key  BY ChainCerts
  <2> QED  BY <2>1 DEF keyPairPemToKeypair
<1> QED  BY <1>2, <1>3, <1>4

\* A rotation of everything repairs everything.
LEMMA RotateAllRepairs ==
    ASSUME NEW p \in Data, NEW k \in Nat
    PROVE  rotateAll(p, k) \in Data /\ Repaired(rotateAll(p, k))
<1> DEFINE q == rotateAll(p, k)
           old == newChain(p).caCerts
           cas == Append(old, NewCACert(k))
           ca == NewCACert(k)
           cert == NewServerCert(k, k)
<1>1. /\ cert \in Encodings /\ cert.form = "Certificate" /\ cert.signer = k /\ cert.names
      /\ ca \in Encodings /\ ca.form = "Certificate" /\ ca.key = k
  BY NewCerts
<1>2. old \in Seq(Encodings) /\ \A n \in DOMAIN old : old[n].form = "Certificate"
  <2>1. p["bundle"] \in Seq(Blocks)  BY DEF Data, Fields
  <2> QED  BY <2>1, ParsedCerts, ChainCerts
<1> HIDE DEF old, ca, cert
<1>3. /\ cas \in Seq(Encodings) /\ \A n \in DOMAIN cas : cas[n].form = "Certificate"
      /\ cas # << >> /\ Last(cas) = ca /\ ca \in Range(cas)
  <2>1. cas = Append(old, ca)  BY DEF ca
  <2> HIDE DEF cas
  <2>2. cas \in Seq(Encodings) /\ Len(cas) = Len(old) + 1 /\ Len(old) \in Nat /\ DOMAIN cas = 1..Len(cas)
    BY <1>1, <1>2, <2>1
  <2>3. \A n \in DOMAIN old : cas[n] = old[n]  BY <1>1, <1>2, <2>1
  <2>4. cas[Len(cas)] = ca  BY <1>1, <1>2, <2>1
  <2>5. Len(cas) \in DOMAIN cas /\ \A n \in DOMAIN cas : n \in DOMAIN old \/ n = Len(cas)
    BY <1>2, <2>2
  <2> QED  BY <1>1, <1>2, <2>2, <2>3, <2>4, <2>5 DEF Last, Range
<1>4. /\ EncodeCertsPEM(cas) \in Seq(Blocks)
      /\ ParseCertsPEM(EncodeCertsPEM(cas)).certs = cas
      /\ AppendCertsFromPEM(EncodeCertsPEM(cas)) = Range(cas)
  <2> HIDE DEF cas
  <2> QED  BY <1>3, EncodedCerts
<1>5. /\ EncodePrivateKeyPEM(k) \in Seq(Blocks)
      /\ ParsePrivateKeyPEM(EncodePrivateKeyPEM(k)) # NoKey
  BY EncodedKey
<1>6. /\ EncodeCertsPEM(<<ca>>) \in Seq(Blocks) /\ EncodeCertsPEM(<<cert>>) \in Seq(Blocks)
      /\ ParseCertsPEM(EncodeCertsPEM(<<cert>>)).certs = <<cert>>
      /\ ~ ParseCertsPEM(EncodeCertsPEM(<<cert>>)).err
  BY <1>1, SingleCert
<1>7. /\ q \in Data
      /\ q["caKey"] = EncodePrivateKeyPEM(k) /\ q["caCert"] = EncodeCertsPEM(<<ca>>)
      /\ q["bundle"] = EncodeCertsPEM(cas)
      /\ q["key"] = EncodePrivateKeyPEM(k) /\ q["certs"] = EncodeCertsPEM(<<cert>>)
  <2>1. q = [p EXCEPT !["caKey"]  = EncodePrivateKeyPEM(k),
                      !["caCert"] = EncodeCertsPEM(<<ca>>),
                      !["bundle"] = EncodeCertsPEM(cas),
                      !["key"]    = EncodePrivateKeyPEM(k),
                      !["certs"]  = EncodeCertsPEM(<<cert>>)]
    BY DEF rotateAll, ca, cert, old
  <2> HIDE DEF q, cas
  <2> QED  BY <1>4, <1>5, <1>6, <2>1 DEF Data, Fields
<1> HIDE DEF q, cas
<1>8. /\ newChain(q).caCerts = cas /\ newChain(q).certs = <<cert>>
      /\ newChain(q).caCert = ca
  <2>1. newChain(q).caCerts = cas  BY <1>4, <1>7, ChainCerts
  <2>2. newChain(q).certs = <<cert>>  BY <1>1, <1>7, ChainCerts, KeyPairRead
  <2>3. newChain(q).caCert = getLastCert(<<ca>>)  BY <1>1, <1>7, ChainCerts, KeyPairRead
  <2>4. getLastCert(<<ca>>) = ca  BY DEF getLastCert, Last
  <2> QED  BY <2>1, <2>2, <2>3, <2>4
<1>9. verifyTLS(q) = "verified"
  <2>1. getLastCert(cas) = ca  BY <1>3 DEF getLastCert
  <2>2. verifyTLS(q) = VerifyTLS(q["certs"], q["key"], q["bundle"])  BY <1>8, <2>1 DEF verifyTLS
  <2>3. <<cert>>[1] = cert  OBVIOUS
  <2>4. Range(cas) # {} /\ \E c \in Range(cas) : c.key = cert.signer  BY <1>1, <1>3
  <2>5. VerifyTLS(EncodeCertsPEM(<<cert>>), EncodePrivateKeyPEM(k), EncodeCertsPEM(cas)) = "verified"
    BY <1>1, <1>4, <1>5, <1>6, <2>3, <2>4, Zenon DEF VerifyTLS
  <2> QED  BY <1>7, <2>2, <2>5
<1>10. <<cert>> # << >>  OBVIOUS
<1> QED  BY <1>3, <1>7, <1>8, <1>9, <1>10 DEF Repaired, q

\* New certificates for a service that has none leave at most another CA to be issued.
LEMMA RotateCertsRepairs ==
    ASSUME NEW p \in Data, NEW k \in Nat, newChain(p).certs = << >>
    PROVE  rotateCertsWithOverlap(p, k) \in Data /\ Repairable(rotateCertsWithOverlap(p, k))
<1> DEFINE q == rotateCertsWithOverlap(p, k)
           cert == NewServerCert(k, newChain(p).caKey.key)
<1>1. cert \in Encodings /\ cert.form = "Certificate" /\ cert.names
  BY CAKeyNumber, NewCerts
<1>2. q = [p EXCEPT !["key"]   = EncodePrivateKeyPEM(k),
                    !["certs"] = EncodeCertsPEM(<<cert>>)]
  <2>1. Append(newChain(p).certs, cert) = <<cert>>  OBVIOUS
  <2> QED  BY <2>1 DEF rotateCertsWithOverlap
<1> HIDE DEF q, cert
<1>3. EncodePrivateKeyPEM(k) \in Seq(Blocks)  BY EncodedKey
<1>4. /\ EncodeCertsPEM(<<cert>>) \in Seq(Blocks)
      /\ ParseCertsPEM(EncodeCertsPEM(<<cert>>)).certs = <<cert>>
  BY <1>1, SingleCert
<1>5. /\ q \in Data
      /\ q["key"] = EncodePrivateKeyPEM(k) /\ q["certs"] = EncodeCertsPEM(<<cert>>)
  BY <1>2, <1>3, <1>4 DEF Data, Fields
<1>6. newChain(q).certs = <<cert>>  BY <1>1, <1>5, ChainCerts, KeyPairRead
<1>7. VerifyTLS(q["certs"], q["key"], q["bundle"]) # "panic"
  <2>1. <<cert>>[1] = cert  OBVIOUS
  <2>2. ParseCertsPEM(q["certs"]).certs[1].names  BY <1>1, <1>4, <1>5, <2>1, Zenon
  <2>3. "panic" # "error" /\ "panic" # "verified"  OBVIOUS
  <2> QED  BY <2>2, <2>3, Zenon DEF VerifyTLS
<1>8. verifyTLS(q) # "panic"  BY <1>7 DEF verifyTLS
<1>9. <<cert>> # << >>  OBVIOUS
<1> QED  BY <1>5, <1>6, <1>8, <1>9 DEF Repairable, q

------------------------------------------------------------------------------------
(* The inductive invariant: the first reconcile after an edit makes the data        *)
(* repairable, the second repairs them.                                             *)

PemTypes ==
    /\ pem \in Data
    /\ serial \in Nat
    /\ rounds \in 0..2

PemInv ==
    /\ PemTypes
    /\ rounds >= 1 => Repairable(pem)
    /\ rounds = 2 => Repaired(pem)

\* The invariant holds of empty data.
LEMMA PemStart == Init => PemInv
<1> SUFFICES ASSUME Init PROVE PemInv
  OBVIOUS
<1>1. << >> \in Seq(Blocks)  OBVIOUS
<1>2. pem \in Data  BY <1>1 DEF Init, Data
<1> QED  BY <1>2 DEF Init, PemInv, PemTypes

\* What Update makes of data that do not make it panic.
LEMMA UpdateRepairs ==
    ASSUME NEW p \in Data, NEW k \in Nat, ~ Panics(p)
    PROVE  /\ update(p, k) \in Data
           /\ Repairable(update(p, k))
           /\ Repairable(p) => Repaired(update(p, k))
<1>1. CASE mustRotateCA(p)
  <2>1. update(p, k) = rotateAll(p, k)  BY <1>1 DEF update
  <2> QED  BY <2>1, RotateAllRepairs DEF Repaired, Repairable
<1>2. CASE ~ mustRotateCA(p) /\ mustRotateCerts(p)
  <2>1. update(p, k) = rotateCertsWithOverlap(p, k)  BY <1>2 DEF update
  <2>2. newChain(p).certs = << >>  BY <1>2 DEF mustRotateCerts
  <2> QED  BY <2>1, <2>2, RotateCertsRepairs DEF Repairable
<1>3. CASE ~ mustRotateCA(p) /\ ~ mustRotateCerts(p)
  <2>1. update(p, k) = p  BY <1>3 DEF update
  <2>2. verifyTLS(p) \in {"error", "panic", "verified"}  BY DEF verifyTLS, VerifyTLS
  <2>3. Repaired(p)  BY <1>3, <2>2 DEF mustRotateCA, mustRotateCerts, Panics, Repaired
  <2> QED  BY <2>1, <2>3 DEF Repaired, Repairable
<1> QED  BY <1>1, <1>2, <1>3

\* What somebody writes is made of blocks.
LEMMA EditTypes ==
    ASSUME pem \in Data, NEW f \in Fields, Edit(f)
    PROVE  pem' \in Data
<1>0. PICK b \in Foreign :
             \E data \in {<< >>, <<b>>, <<b>> \o pem[f], pem[f] \o <<b>>} :
               pem' = [pem EXCEPT ![f] = data]
  BY DEF Edit
<1>1. PICK data \in {<< >>, <<b>>, <<b>> \o pem[f], pem[f] \o <<b>>} :
             pem' = [pem EXCEPT ![f] = data]
  BY <1>0
<1>2. b \in Blocks /\ pem[f] \in Seq(Blocks)  BY ForeignAssumption DEF Data
<1>3. data \in Seq(Blocks)
  <2>1. << >> \in Seq(Blocks) /\ <<b>> \in Seq(Blocks)  BY <1>2
  <2>2. \A s, t \in Seq(Blocks) : s \o t \in Seq(Blocks)  OBVIOUS
  <2>3. <<b>> \o pem[f] \in Seq(Blocks) /\ pem[f] \o <<b>> \in Seq(Blocks)  BY <1>2, <2>1, <2>2
  <2> QED  BY <2>1, <2>3, Zenon
<1> QED  BY <1>1, <1>3 DEF Data

\* Every step keeps it.
LEMMA PemStep ==
    ASSUME PemInv, [Next]_vars
    PROVE  PemInv'
<1>1. pem \in Data /\ serial \in Nat /\ rounds \in 0..2  BY DEF PemInv, PemTypes
<1>2. CASE Update
  <2>1. /\ pem' = update(pem, serial + 1) /\ ~ Panics(pem)
        /\ serial' \in {serial, serial + 1} /\ rounds' = Min({rounds + 1, 2})
    BY <1>2 DEF Update
  <2>2. rounds' \in 1..2 /\ (rounds' = 2 => rounds >= 1)
    <3>1. {rounds + 1, 2} \in SUBSET Nat /\ {rounds + 1, 2} # {}  BY <1>1
    <3>2. rounds' \in {rounds + 1, 2} /\ rounds' <= rounds + 1 /\ rounds' <= 2  BY <2>1, <3>1, LeastNumber
    <3> QED  BY <1>1, <3>2
  <2>3. /\ pem' \in Data /\ Repairable(pem') /\ (Repairable(pem) => Repaired(pem'))
    BY <1>1, <2>1, UpdateRepairs
  <2> QED  BY <1>1, <2>1, <2>2, <2>3 DEF PemInv, PemTypes
<1>3. CASE Panic  BY <1>3 DEF Panic, PemInv, PemTypes
<1>4. ASSUME NEW f \in Fields, Edit(f) PROVE PemInv'
  <2>1. pem' \in Data  BY <1>1, <1>4, EditTypes
  <2> QED  BY <1>1, <1>4, <2>1 DEF Edit, PemInv, PemTypes
<1>5. CASE UNCHANGED vars  BY <1>5 DEF vars, PemInv, PemTypes
<1> QED  BY <1>2, <1>3, <1>4, <1>5 DEF Next

\* The invariant holds of every behaviour.
LEMMA PemAlways == Spec => []PemInv
<1>1. PemInv /\ [Next]_vars => PemInv'  BY PemStep
<1> QED  BY <1>1, PemStart, PTL DEF Spec

\* Whatever others write into the secrets and the webhook configurations, two reconciles that
\* do not panic make a chain of it that verifies and that Update leaves alone.
THEOREM Repairs == Spec => []TwoReconcilesRepair
<1>1. PemInv => TwoReconcilesRepair
  <2> SUFFICES ASSUME PemInv, rounds = 2
               PROVE  verifyTLS(pem) = "verified" /\ update(pem, serial + 1) = pem
    BY DEF TwoReconcilesRepair
  <2>1. Repaired(pem)  BY DEF PemInv
  <2>2. update(pem, serial + 1) = pem  BY <2>1, RepairedStays
  <2> QED  BY <2>1, <2>2 DEF Repaired
<1> QED  BY <1>1, PemAlways, PTL

\* A reconcile takes no CA out of a bundle that stands before the first certificate block
\* that does not parse.
THEOREM CAsKept == Spec => ReadableCAsKept
<1>1. ASSUME PemInv, Update
      PROVE  Range(ParseCertsPEM(pem["bundle"]).certs) \subseteq AppendCertsFromPEM(pem'["bundle"])
  <2> DEFINE k == serial + 1
             old == newChain(pem).caCerts
             cas == Append(old, NewCACert(k))
  <2>1. pem \in Data /\ k \in Nat /\ pem["bundle"] \in Seq(Blocks)
    BY <1>1 DEF PemInv, PemTypes, Data, Fields
  <2>2. pem' = update(pem, k)  BY <1>1 DEF Update
  <2> HIDE DEF k
  <2>3. CASE pem'["bundle"] = pem["bundle"]  BY <2>1, <2>3, ParsedCerts
  <2>4. CASE pem'["bundle"] = EncodeCertsPEM(cas)
    <3>1. old = ParseCertsPEM(pem["bundle"]).certs  BY <2>1, ChainCerts
    <3>2. /\ old \in Seq(Encodings) /\ \A n \in DOMAIN old : old[n].form = "Certificate"
          /\ NewCACert(k) \in Encodings /\ NewCACert(k).form = "Certificate"
      <4>1. old \in Seq(Encodings) /\ \A n \in DOMAIN old : old[n].form = "Certificate"
        BY <2>1, ChainCerts, ParsedCerts
      <4> QED  BY <2>1, <4>1, NewCerts
    <3> HIDE DEF old
    <3>3. /\ cas \in Seq(Encodings) /\ \A n \in DOMAIN cas : cas[n].form = "Certificate"
          /\ Range(old) \subseteq Range(cas)
      <4>1. cas \in Seq(Encodings) /\ Len(cas) = Len(old) + 1 /\ Len(old) \in Nat /\ DOMAIN cas = 1..Len(cas)
        BY <3>2
      <4>2. \A n \in DOMAIN old : n \in DOMAIN cas /\ cas[n] = old[n]  BY <3>2
      <4>3. cas[Len(cas)] = NewCACert(k)  BY <3>2
      <4>4. \A n \in DOMAIN cas : n \in DOMAIN old \/ n = Len(cas)  BY <3>2, <4>1
      <4> HIDE DEF cas
      <4> QED  BY <3>2, <4>1, <4>2, <4>3, <4>4 DEF Range
    <3> HIDE DEF cas
    <3>4. AppendCertsFromPEM(EncodeCertsPEM(cas)) = Range(cas)  BY <3>3, EncodedCerts
    <3> QED  BY <2>4, <3>1, <3>3, <3>4
  <2>5. pem'["bundle"] \in {pem["bundle"], EncodeCertsPEM(cas)}
    <3>1. rotateAll(pem, k)["bundle"] = EncodeCertsPEM(cas)
      BY <2>1 DEF rotateAll, Data, Fields
    <3>2. rotateCertsWithOverlap(pem, k)["bundle"] = pem["bundle"]
      BY <2>1 DEF rotateCertsWithOverlap, Data, Fields
    <3> QED  BY <2>2, <3>1, <3>2 DEF update
  <2> QED  BY <2>3, <2>4, <2>5
<1>2. PemInv /\ [Next]_vars
        => [Update => Range(ParseCertsPEM(pem["bundle"]).certs)
                        \subseteq AppendCertsFromPEM(pem'["bundle"])]_vars
  BY <1>1
<1> QED  BY <1>2, PemAlways, PTL DEF Spec, ReadableCAsKept
====
