SPECIFICATION Spec
CONSTANTS
    Callers = {t1, t2}
    Configs = {"first", "strict", "broken"}
    FirstConfig = "first"
    ValidConfigs = {"first", "strict"}
    Models = {m1, m2, m3}
    Unsummed = {m1, m2, m3}
    Torn = torn
    Altered = altered
    Sources = {"src1"}
    MaxHistory = 2
    MaxCalls = 8
    None = None
SYMMETRY CallerAndModelSymmetry
INVARIANTS TypeOK RunsTheCurrent SourcesFollowModel
PROPERTIES RollbackKeepsModels
CHECK_DEADLOCK FALSE
