\* One Import of a cluster of two nodes, every input and every failure.
CONSTANTS
    n1 = n1
    n2 = n2
    Nodes <- MCNodes
    admin = admin
    u2 = u2
    Admin = admin
    Users <- MCUsers
    HasSetting <- MCUsers
    Reach <- MCReach
    Accounts <- MCAccounts
    SystemSub <- MCSystemSub
    MaxMsgs = 1
SPECIFICATION Spec
INVARIANT
    ImportAllOrNothing
