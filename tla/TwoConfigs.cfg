SPECIFICATION Spec
CONSTANTS
    s1 = s1
    s2 = s2
    w1 = w1
    w2 = w2
    c1 = c1
    c2 = c2
    CASecret = CASecret
    Unread = Unread
    Issues <- TwoServices
    Bundles <- TwoBundles
    IssueOf <- TwoBundlesOfServices
    Configs <- TwoConfigs
    ConfigOf <- TwoConfigsOfBundles
    Deletable <- AllOfTwo
    Strippable <- AllSecretsOfTwo
    Manifests <- NoneOrAllWebhooks
    CARotateInterval = 8
    CAOverlapInterval = 3
    CertRotateInterval = 6
    CertOverlapInterval = 2
    Second = 1
    StartTime = 1
    MaxTime = 1
    MaxFaults = 1
    MaxStale = 0
    MaxRotations = 9
INVARIANTS
    TypeOK
    NothingPendingMeansVerified
