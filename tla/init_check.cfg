SPECIFICATION Spec
CONSTANTS
    Hosts = {h1, h2}
    Tenants = {t1, t2, t3}
    InitCheckCount = 2
    Layouts = {"published_first", "heading", "consumed_first", "by_worker"}
INVARIANTS TypeOK FindsAsModelled OneHostIsExact MiscountNeedsDouble
CHECK_DEADLOCK FALSE
