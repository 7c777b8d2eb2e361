SPECIFICATION Spec
CONSTANTS
    Conn = {c1}
    NoConn = NoConn
    QueueCap = 1
    CoalesceMax = 2
    MaxBlock = 2
INVARIANT ReceptionSurvives
