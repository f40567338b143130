SPECIFICATION Spec
CONSTANTS
    Minute = 3
    Second = 1
    MaxCredentials = 2
    MaxBandwidth = 3
    Sizes = {1, 2}
    MaxNow = 9
    MaxSent = 2
INVARIANT TwiceTheLimit
