\* Three processes start together, one from an older image.
SPECIFICATION FairSpec
CONSTANTS
    api = api
    worker = worker
    old = old
    Process = {api, worker, old}
    Api = {api}
    Files <- RollingFiles
    MaxFailures = 2
CHECK_DEADLOCK FALSE
INVARIANTS
    RecordedIsRun
    NothingSkipped
PROPERTY EveryProcessServes
