SPECIFICATION LiveSpec
CONSTANTS
    NoOne = NoOne
    Ips = {ip1, ip2}
    Users = {ana}
    Limit = 1
    Window = 1
    Requests = {q}
    MaxSessions = 2
    MaxVersion = 2
    MaxPassword = 2
INVARIANTS TypeOK ResetReaches GuessBound
PROPERTIES GateHolds ChangeLeavesOne RefinesSessions ThrottleEnds
