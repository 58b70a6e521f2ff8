CONSTANTS
    ME_MAX_TICKERS = 1
    ME_MAX_ORDER_IDS = 3
    Updates <- MCUpdates
    MaxUpdates = 4
    MaxSnapshots = 2
    MaxDuplicates = 0
SPECIFICATION Spec
PROPERTY RecoveryCompletes
\* Datagrams that have not been lost have arrived, and the bounds are reached.
CHECK_DEADLOCK FALSE
