\* Two SMTP sessions mailing two local users, with up to two broken connections.
CONSTANTS
    s1 = s1  s2 = s2  u1 = u1  u2 = u2
    Sessions <- MCSessions  Users <- MCUsers
    MaxTxn = 1  MaxRcpt = 2  MaxKvFail = 2
SPECIFICATION Spec
INVARIANT TypeOK
PROPERTY ImplementsMailStore DeliveriesSettled
