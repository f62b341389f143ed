CONSTANTS
    d1 = d1
    autogen = autogen
    r2 = r2
    q1 = q1
    s1 = s1
    u1 = u1
    read = read
    all = all
    DBNames <- MCDBNames
    RPNames <- MCRPNames
    Autogen = autogen
    Durations = {0, 1, 3}
    MinDuration = 2
    CQNames = {q1}
    SubNames = {s1}
    Users = {u1}
    Privileges <- MCPrivileges
    RetentionAutoCreate = TRUE
    MaxCommits = 6
    NoDB = NoDB
    NoRP = NoRP
    NoPriv = NoPriv
SPECIFICATION Spec
PROPERTY CreateDatabaseContract
PROPERTY CreateDatabaseWithRetentionPolicyContract
