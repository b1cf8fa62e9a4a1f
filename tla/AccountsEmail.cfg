SPECIFICATION Spec
CONSTANTS
    boss = boss
    u1 = u1
    u2 = u2
    i1 = i1
    e1 = e1
    e2 = e2
    e3 = e3
    n1 = n1
    n2 = n2
    n3 = n3
    r1 = r1
    r2 = r2
    User = {boss, u1, u2}
    InviteId = {}
    Email = {e1, e2, e3}
    Name = {n1, n2, n3}
    Role = {"owner", "super_admin"}
    Request = {r1, r2}
    Kinds = {"register"}
    Renaming = TRUE
    Forms <- AnyForm
    Offers <- NoOffer
    Owners = {}
    Seed <- OnlyAdministrator
    None = None
SYMMETRY Symmetric
INVARIANTS EmailsUnique
CHECK_DEADLOCK FALSE
