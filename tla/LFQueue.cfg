\* A ring of three, so that the indices wrap several times, and a consumer that
\* copies the message after releasing its slot: one slot stays unused.
CONSTANTS
    Capacity = 3
    MaxBacklog = 2
    ReadAfterRelease = TRUE
    Messages = {m1, m2}
    Torn = Torn
SPECIFICATION Spec
INVARIANTS TypeOK SecondReadIsTheSame NoOverwrite
PROPERTY ImplementsFIFOChannel
