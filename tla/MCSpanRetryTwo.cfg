CONSTANTS
    Sessions = {s1, s2}
    Ports = {p1}
    Dests = {d1, d2}
    NoDest = noDest
    NoMirror = noMirror
    NoPort = noPort
    Absent = absent
    NoTimer = noTimer
    MaxQueue = 3
    s1 = s1
    s2 = s2
    p1 = p1
    d1 = d1
    d2 = d2
SPECIFICATION SpecNoRemoval
INVARIANT RetryArmed
