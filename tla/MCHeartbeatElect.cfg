SPECIFICATION FairSpec
CONSTANTS NumNodes = 2 MaxFaults = 1
INVARIANTS ChainGoesOn ServersFollow
PROPERTY Settles
