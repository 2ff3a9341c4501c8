SPECIFICATION Spec
CONSTANTS
    s1 = s1
    s2 = s2
    w1 = w1
    w2 = w2
    w3 = w3
    Issues <- TwoServices
    Bundles <- ThreeBundles
    IssueOf <- ThreeBundlesOfTwo
    CARotateInterval = 8
    CAOverlapInterval = 3
    CertRotateInterval = 4
    CertOverlapInterval = 2
    Second = 2
    StartTime = 3
    MaxTime = 18
    MaxLateness = 2
    MaxFaults = 1
INVARIANTS
    TypeOK
    OldCertificatesStayTrusted
    CurrentCertificateTrusted
PROPERTIES
    ReconcileRepairs
    ReconcileSettles
