\* A fresh deployment of two backends that nothing kills from outside, checked for every start ending in service.
CONSTANTS
    a = a  b = b  pwd = pwd  v1 = v1  v2 = v2
    Empty = Empty  None = None  Master = Master  Client = Client
    Nodes <- MCNodes  Keys <- MCKeys  Vals <- MCVals  Pwd = pwd
    ClientCmds <- MCClientCmds
    MaxAdmin = 0  MaxBoots = 1  CkptPeriod = 4  Deployed = FALSE  Crashes = FALSE
SPECIFICATION Spec
PROPERTY StartedNodeServes
CHECK_DEADLOCK FALSE

