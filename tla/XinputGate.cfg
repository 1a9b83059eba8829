SPECIFICATION FairSpec
CONSTANTS
    DefaultMinutes = 2
    Modulus = 4
    Minutes <- MCMinutes
    MaxMessages = 3
    Devices = {keyboard, mouse}
INVARIANTS TypeOK TimerArmed DevicesGated
PROPERTY DevicesDenied
CHECK_DEADLOCK FALSE
