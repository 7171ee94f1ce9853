\* frames are sent or lose the arbitration, no bus error
SPECIFICATION Spec
CONSTANTS
    Senders = {s1, s2}
    BoxNum = 1
    ErrorKinds = {}
INVARIANTS WaiterNotForgotten
PROPERTIES IsTxService EverySendReturns
