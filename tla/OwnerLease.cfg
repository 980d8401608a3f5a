SPECIFICATION Spec

\* A requested lease below the clamp, and delays that use up the slack.
CONSTANTS
    HeartbeatInterval = 6
    RequestedLeaseTtl = 3
    MaxDelay = 3
    MaxLag = 1
    MaxSetup = 2

INVARIANTS
    LiveOwnerStaleOnlyBriefly
    AbandonedBecomesClaimable
    Inv
