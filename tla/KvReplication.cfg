\* A running group of two backends: admin kills and restarts, client writes.
CONSTANTS
    a = a  b = b  pwd = pwd  v1 = v1  v2 = v2
    Empty = Empty  None = None  Master = Master  Client = Client
    Nodes <- MCNodes  Keys <- MCKeys  Vals <- MCVals  Pwd = pwd
    ClientCmds <- MCClientCmds
    MaxAdmin = 3  MaxBoots = 1  CkptPeriod = 3  Deployed = TRUE  Crashes = TRUE
SPECIFICATION Spec
INVARIANT ViewsFollowMaster
CHECK_DEADLOCK FALSE
SYMMETRY MCSymmetry
CONSTRAINT QueueBound
