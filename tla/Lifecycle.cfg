SPECIFICATION Spec
CONSTANTS
    Programs <- MCPrograms
    PauseTurns <- MCPauseTurns
    BookLines <- MCBookLines
    Logged = {"engine", "synthesizer", "gateway"}
    Line <- MCLine
    MaxRequests = 1
    MaxUpdates = 2
    Percent = "%"
    Invalid = "invalid"
INVARIANTS TypeOK NothingDangles LoggedIsWritten
PROPERTY ShutdownCompletes
\* main() gets to its end, or log() ends the process.
CHECK_DEADLOCK FALSE
