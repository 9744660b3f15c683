\* A fresh deployment of two backends: every node starts once, may crash, registers, joins and syncs.
CONSTANTS
    a = a  b = b  pwd = pwd  v1 = v1  v2 = v2
    Empty = Empty  None = None  Master = Master  Client = Client
    Nodes <- MCNodes  Keys <- MCKeys  Vals <- MCVals  Pwd = pwd
    ClientCmds <- MCClientCmds
    MaxAdmin = 0  MaxBoots = 1  CkptPeriod = 4  Deployed = FALSE  Crashes = TRUE
SPECIFICATION Spec
INVARIANT TypeOK ReplicasAgree
PROPERTY SyncConverges
CHECK_DEADLOCK FALSE
