SPECIFICATION Spec
CONSTANTS
    Users = {1, 2}
    t1 = t1
    NoTeamYet = NoTeam
    Teams = {t1}
    NoTeam = NoTeam
    Planets = {a1}
    Nobody = Nobody
    Bonus = 1
    Prize = 2
    Toll = 1
    TeamMax = 2
    MailDays = 1
    Boot = boot
    Cron = cron
    Admin = admin
    Kills = {k1, k2}
    Joins = {j1}
    Key = Key
    None = None
    Member0 <- MCMember0
    MaxDay = 1
    MaxPlay = 2
    MaxFaults = 1
INVARIANTS OneReportPerNight LedgerCoversReports
PROPERTIES Standings LockIsReleased
CHECK_DEADLOCK FALSE
