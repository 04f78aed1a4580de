SPECIFICATION FairSpec
CONSTANTS
    Proc = {p1, p2, p3}
    Resource = {redis, iptables}
    Removed = {iptables}
    Inode = {i1, i2, i3, i4, i5}
    None = None
INVARIANTS
    TypeOK
    KeptExclusive
    
PROPERTIES
    LockCallEnds
