SPECIFICATION AdministrationSpec
CONSTANTS
    Tokens = {t1}
    MaxResets = 1
    Requests = {r1, r2, r3}
    DefaultName = n0
    Names = {n0, n1}
    Thresholds <- Pairs
    DefaultWarn = 70
    DefaultCrit = 85
    Editors = {e1, e2}
    Addresses = {a1, a2}
    Details = {d1, d2}
    RecipientIds = {i1, i2}
    MaxVersions = 3
    Absent = Absent
INVARIANTS HonouredKnowThePassword TagsTellTheTruth HistoryReplays
    RecipientsAreSound
PROPERTIES NoLostUpdate
SYMMETRY RequestSymmetry
CHECK_DEADLOCK FALSE
