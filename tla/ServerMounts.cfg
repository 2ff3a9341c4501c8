SPECIFICATION ServersSpec
CONSTANTS
    s1 = s1
    w1 = w1
    Issues <- OneService
    Bundles <- OneBundle
    IssueOf <- OneBundleOfService
    CARotateInterval = 15
    CAOverlapInterval = 4
    CertRotateInterval = 8
    CertOverlapInterval = 2
    Second = 1
    StartTime = 1
    MaxTime = 22
    MaxLateness = 1
    MaxFaults = 1
    MountLag = 2
INVARIANTS
    ServersTypeOK
    RefusedBriefly
    DownBriefly
    OldProjectionsTrusted
