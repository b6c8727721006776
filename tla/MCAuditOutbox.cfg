SPECIFICATION Spec
CONSTANTS
    mission1 = mission1
    Writers = {service, flush}
    MissionOf <- TheMissions
    MaxTx = 5
    MaxFaults = 2
    MaxCrashes = 1
    None = None
INVARIANTS TypeOK TopicInOrder
PROPERTIES EventsArePublished
CHECK_DEADLOCK FALSE
