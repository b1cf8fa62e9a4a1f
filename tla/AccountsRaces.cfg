SPECIFICATION Spec
CONSTANTS
    boss = boss
    u1 = u1
    u2 = u2
    i1 = i1
    e1 = e1
    e2 = e2
    e3 = e3
    n1 = n1
    n2 = n2
    n3 = n3
    r1 = r1
    r2 = r2
    User = {boss, u1, u2}
    InviteId = {i1}
    Email = {e1, e2, e3}
    Name = {n1, n2, n3}
    Role = {"owner", "dealer", "super_admin"}
    Request = {r1, r2}
    Kinds = {"register", "invite", "edit", "setActive", "delete"}
    Renaming = FALSE
    Forms <- Network
    Offers <- OwnerOrDealer
    Owners = {u1}
    Seed <- OnlyAdministrator
    None = None
SYMMETRY Symmetric
INVARIANTS TypeOK OwnersExist InvitesMailed
PROPERTIES ActivationKept
CHECK_DEADLOCK FALSE
