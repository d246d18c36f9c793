SPECIFICATION Spec
CONSTANTS
    Images = {0, 1}
    MaxRequests = 1
    MaxFaults = 0
    MaxResets = 0
PROPERTIES
    CallsReturn
