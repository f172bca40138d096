CONSTANTS
    me = me
    ana = ana
    p1 = p1
    p2 = p2
    old = old
    new = new
    hers = hers
    hers2 = hers2
    here = here
    there = there
    None = None
    Me = me
    Others = {ana}
    Procs = {p1, p2}
    KeyOf <- MCKeyOf
    Keys = {old, new, hers, hers2}
    Infos = {here, there}
    HarnessUrl = here
    Named = {ana}
    Vaults <- MCVaults
    Registries <- MCRegistries
    Offers <- MCOffers
    Faults = {"publish", "list", "write", "record"}
    MaxJobs = 1
    MaxNews = 1

SPECIFICATION Spec

INVARIANT TypeOK
INVARIANT JoinMeetsAll
PROPERTY OnlyCrossingTakes
