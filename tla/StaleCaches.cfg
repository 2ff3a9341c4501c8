SPECIFICATION Spec
CONSTANTS
    s1 = s1
    s2 = s2
    w1 = w1
    w2 = w2
    c1 = c1
    c2 = c2
    CASecret = CASecret
    Unread = Unread
    Issues <- OneService
    Bundles <- OneBundle
    IssueOf <- OneBundleOfService
    Configs <- OneConfig
    ConfigOf <- OneConfigOfBundle
    Deletable <- OneServiceSecrets
    Strippable <- NoObjects
    Manifests <- OneManifest
    CARotateInterval = 4
    CAOverlapInterval = 1
    CertRotateInterval = 3
    CertOverlapInterval = 1
    Second = 1
    StartTime = 1
    MaxTime = 6
    MaxFaults = 0
    MaxStale = 1
    MaxRotations = 9
PROPERTIES
    ImplementsTrust
