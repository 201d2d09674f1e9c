SPECIFICATION FairSpec
CONSTANTS
    Clients = {"a", "b", "c"}
    Sessions <- TwoMeetOrOneJoins
    Restarting = {"a"}
    MaxRestarts = 1
    MaxFaults = 1
CHECK_DEADLOCK FALSE
PROPERTIES AllMeet
