SPECIFICATION Spec
CONSTANTS
    Legs = {l1}
    SizeOf <- MCSizeOf
    MaxBytes = 6
    MaxNotices = 0
    Hazards = {"send"}
    MaxFaults = 1
PROPERTY AtLeastOnce
