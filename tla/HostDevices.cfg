SPECIFICATION FairSpec
CONSTANTS
    Devices = {"tcp", "fs", "timer", "io", "blob"}
    Reqs = {1, 2, 3}
    MaxOpens = 1
    Timers = {1, 2, 3}
    Cells = {1, 2}
    Reads = {1, 2, 3, 4}
    Typed <- MCTyped
    Blobs <- MCBlobs
    Actors <- MCActors
    Byte = {0, 1}
    Jobs = {1, 2}
    MaxWrites = 2
INVARIANTS OneOperation AnsweredReleased ForgottenReleased TimerOnce InputInOrder ChunksExact
PROPERTIES RequestsAnswered
CHECK_DEADLOCK FALSE
