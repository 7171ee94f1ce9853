\* an ACK error is reported while the mailbox is still busy
SPECIFICATION Spec
CONSTANTS
    Senders = {s1, s2}
    BoxNum = 1
    ErrorKinds = {"ack"}
INVARIANTS ResultAfterFrame
