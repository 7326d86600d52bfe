CONSTANTS
    Tasks = {"t1", "t2", "t3"}
    Emails = {"e1", "e3"}
    Names = {"n1", "n3", "n4"}
    Members <- MCMembers
    Nobody = Nobody
SPECIFICATION NexusSpec
INVARIANTS
    NexusTypeOK
    OneAccountEach
    NothingDangles
    ToldAsStored
PROPERTY ImplementsApi
