SPECIFICATION Spec
CONSTANTS
    Legs = {l1, l2}
    SizeOf <- MCSizeOf
    MaxBytes = 6
    MaxNotices = 1
    Hazards = {"tear", "crash", "history", "send"}
    MaxFaults = 1
PROPERTY AnnouncedIsForwarded
