\* Two CLIs, a server with two requests, one thread and two CLI sessions.
CONSTANTS
    Clis = {c1, c2}
    Requests = {r1, r2}
    Server = server
    Ids = {thread, a, b}
    Threads = {thread}
    NoProcess = none
    Columns = {1, 2}
    MaxTurns = 2
    MaxMessages = 2
    MaxExits = 1
SPECIFICATION Spec
SYMMETRY Alike
INVARIANTS
    NothingLost
    OrphansOnlyOvertaken
    SessionsHaveQuestion
    CreateConflictsForeign
    OpenedMigrated
CHECK_DEADLOCK FALSE
