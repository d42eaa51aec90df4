SPECIFICATION SendSpec
CONSTANTS
    s1 = s1
    s2 = s2
    Sends = {s1, s2}
    Devices = {1, 2}
    Primary = 1
    NoDevice = 0
    MaxReg = 2
    MaxChanges = 0
    MaxFaults = 1
PROPERTY CooldownRespected
