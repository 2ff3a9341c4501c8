------------------------------------ MODULE MCPem ------------------------------------
(* An instance of Pem for TLC. The keys 91 to 95 are not the chain's.               *)
EXTENDS Pem

ForeignBlocks ==
    {Block("CERTIFICATE", X509(91, 91, FALSE)),
     [type |-> "CERTIFICATE", headers |-> TRUE, bytes |-> X509(91, 91, FALSE)],
     Block("CERTIFICATE", X509(91, 1, TRUE)),
     Block("CERTIFICATE", Garbage),
     Block("EC PARAMETERS", Garbage),
     Block("RSA PRIVATE KEY", Garbage),
     Block("RSA PRIVATE KEY", PrivateKey("PKCS1", "RSA", 92)),
     Block("EC PRIVATE KEY", PrivateKey("SEC1", "EC", 93)),
     Block("PRIVATE KEY", PrivateKey("PKCS8", "EC", 94)),
     Block("PRIVATE KEY", PrivateKey("PKCS8", "RSA", 95))}
====
