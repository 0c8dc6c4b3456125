SPECIFICATION Spec
SYMMETRY Symmetry
CHECK_DEADLOCK FALSE
CONSTANTS
    Users = {creator, u1}
    Creator = creator
    Calls = {r1, r2}
    Invitations = {s1, s2}
    OfferedRoles = {"Owner", "Admin"}
    NoUser = NoUser
    Staff = {u1}
    Requests = {r1, r2}
    Homes = {h1, h2}
    SourceIds = {s1, s2}
    Urls = {x1}
    Nodes = {n1, n2, n3}
    Root = Root
    Editors = {r1, r2}
    Scrapes = {r1, r2}
    Texts = {s1, s2}
    Facts = {h1, h2}
    Retries = 1
    MaxSeconds = 2
    MaxCaptures = 2
    FetchFaults = 1
    Sockets = {r1, r2}
    MaxEvents = 2
    Restarts = 1
    Visits = {r1, r2}
    Visitors = {s1}
    MaxContacts = 1
    IpMultiplier = 2
    FormFaults = 1
    Servers = {s1, s2}
    OldPlans = {x1, x2}
    NewPlans = {x2, x3}
INVARIANTS OwnerRemains DeletedAlone SourcesHaveAHome OneSourcePerUrl Acyclic ArchiveMatchesHash ChangesAreFound EventsArrive WaitlistKeepsItsWord CatalogueOfOneRelease
PROPERTIES RemovedStaysRemoved SubtreeTogether
