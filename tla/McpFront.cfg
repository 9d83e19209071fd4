SPECIFICATION Spec
CONSTANTS
    Clients = {site, tool}
    Headless = {tool}
    Local = {site}
    Tools = {t1}
    Prompts = {}
    Resources = {u1}
    Templates = {m1, m2}
    Requests = {r1}
    MaxChanges = 2
    site = site
    tool = tool
    t1 = t1
    u1 = u1
    m1 = m1
    m2 = m2
    r1 = r1
INVARIANTS
    JudgedByOneList
    AnswerWarranted
    ListIsCurrent
CHECK_DEADLOCK FALSE
