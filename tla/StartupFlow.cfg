SPECIFICATION FairSpec
CONSTANTS
    MaxRetries = 2
    MaxSwitches = 2
    MaxAsks = 1
INVARIANTS MainBehindGate OneChain NeverStuck
PROPERTY StartupSettles
