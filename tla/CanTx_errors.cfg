\* ACK and other errors on the bus
SPECIFICATION Spec
CONSTANTS
    Senders = {s1, s2}
    BoxNum = 1
    ErrorKinds = {"ack", "other"}
INVARIANTS TypeOK BoxesAccounted
 
CHECK_DEADLOCK FALSE
