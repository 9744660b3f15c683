\* A running group: one admin kill and restart of the primary while clients write.
CONSTANTS
    a = a  b = b  pwd = pwd  v1 = v1  v2 = v2
    Empty = Empty  None = None  Master = Master  Client = Client
    Nodes <- MCNodes  Keys <- MCKeys  Vals <- MCVals  Pwd = pwd
    ClientCmds <- MCClientCmds
    MaxAdmin = 2  MaxBoots = 1  CkptPeriod = 3  Deployed = TRUE  Crashes = TRUE
SPECIFICATION Spec
PROPERTY SyncConverges
CHECK_DEADLOCK FALSE
SYMMETRY MCSymmetry
CONSTRAINT QueueBound
