SPECIFICATION OfficeSpec
CONSTANTS
    ana = ana  bia = bia  carla = carla
    i1 = i1  i2 = i2  v1 = v1  v2 = v2
    q1 = q1  q2 = q2  q3 = q3  m1 = m1  m2 = m2  m3 = m3
    l1 = l1  l2 = l2  l3 = l3  c1 = c1
    o1 = o1  o2 = o2  o3 = o3  t1 = t1  t2 = t2  t3 = t3  k1 = k1
    e1 = e1  e2 = e2  e3 = e3
    Parts = {"promises", "accounts", "chat", "leads", "alerts", "registers", "figures"}
    Promised = {i1, i2}
    Reviews = {v1, v2}
    LastDay = 1
    Accounts = {ana, bia, carla}
    Managers = {ana, bia}
    Protected = {}
    AccountRequests = {q1, q2, q3}
    Plans <- MCPlans
    EmailMax = 1
    IpMax = 2
    MaxPasswords = 3
    Staff = {ana, bia}
    ChatRequests = {m1, m2, m3}
    MaxStamps = 4
    Contacts = {c1}
    LeadRequests = {l1, l2, l3}
    OpenStages = {"novo"}
    ClosedStages = {"ganho"}
    AlertTexts = {t1, t2, t3}
    Outages = {k1}
    UnknownKey = UnknownKey
    Deliveries = {o1, o2, o3}
    KeyOfText <- MCKeyOfText
    EndTexts = {t2}
    Edits = {e1, e2, e3}
    Unknown = Unknown
    Jumps = {35, 90}
    Dues <- MCDues
    ScanLimit = 1
    MaxNews = 3
INVARIANTS
    OfficeTypeOK
    SomebodyManages
    EntryIsGuarded
    UnseenIsUnread
    LeadsAreTrue
    OpenIsLastHeard
    EditsAreTold
PROPERTIES
    VerdictsAreSound
    FiguresAreHonest
CHECK_DEADLOCK FALSE
