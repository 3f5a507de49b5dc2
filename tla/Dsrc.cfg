\* One client, two faults or changes of the configuration, two messages.
SPECIFICATION Spec
CONSTANTS
    Client = {c1}
    Packet <- MCPacket
    MaxChanges = 1
    MaxFaults = 2
    MaxMsgs = 2
INVARIANTS ConnectFindsNoThread ErrorIsCurrent PublishedIsFramed SentInOrder
PROPERTIES IsDriverApplication Reconnects
\* run() returns
CHECK_DEADLOCK FALSE
