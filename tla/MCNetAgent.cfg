SPECIFICATION FairSpec
CONSTANTS
    n1 = n1
    n2 = n2
    lan = lan
    dmz = dmz
    c1 = c1
    c2 = c2
    c3 = c3
    a1 = a1
    a2 = a2
    g1 = g1
    g2 = g2
    m1 = m1
    m2 = m2
    Node = {n1, n2}
    Interface = {lan, dmz}
    Bridged = {lan}
    Client = {c1, c2, c3}
    Host = {c2}
    Everywhere = {c3}
    Address = {a1}
    Gateway = {g1, g2}
    Mac = {m1, m2}
    Config <- Settings
    Place <- Places
    FirstMac = m1
    MaxFaults = 1
    MaxChanges = 1
INVARIANT TypeOK
INVARIANT OneRulePerClient
INVARIANT AppliedIsExact
PROPERTY NetSettles
PROPERTY StatusSettles
