SPECIFICATION FairSpec
CONSTANTS
    Telnet = {t1}
    Stream = {s1, s2}
    User = {ann, bob}
    t1 = t1
    s1 = s1
    s2 = s2
    ann = ann
    bob = bob
    UserOf <- SharedName
    Ttl = 4
    Keepalive = 2
    Idle = 4
    Nego = 1
    MaxNoise = 2
INVARIANTS TypeOK DropsOff ListedUnlessDisturbed
PROPERTIES StreamHeals
