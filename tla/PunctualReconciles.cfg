SPECIFICATION Spec
CONSTANTS
    s1 = s1
    s2 = s2
    w1 = w1
    w2 = w2
    w3 = w3
    Issues <- OneService
    Bundles <- TwoBundles
    IssueOf <- TwoBundlesOfOne
    CARotateInterval = 13
    CAOverlapInterval = 7
    CertRotateInterval = 5
    CertOverlapInterval = 3
    Second = 1
    StartTime = 1
    MaxTime = 22
    MaxLateness = 0
    MaxFaults = 2
INVARIANTS
    ChainVerifies
    ListsBounded
PROPERTIES
    CARotatedOnlyWhenDue
    ImplementsTrust
