SPECIFICATION Spec
CONSTANTS
    Users = {u1, u2, u3}
    Calls = {c1, c2}
    Names = {n1, n2}
    NoUser = NoUser
    MaxTeams = 1
    TeamMax = 2
    MaxCode = 2
    MaxCalls = 5
    MaxNights = 1
SYMMETRY MCSymmetry
INVARIANTS TeamsAreCapped HullsRemember
CHECK_DEADLOCK FALSE
