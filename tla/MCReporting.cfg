SPECIFICATION Spec
CONSTANTS
    MaxNotices = 2
    MaxAttempts = 1
    Hashes = {1}
    Schedules <- MCSchedules
    Requests <- MCRequests
    Machines <- MCMachines
INVARIANTS
    SoundLogAccepted
    OneTerminalPerRun
    ExitMatchesLog
    ResourcesReleased
    ShareRecordedFirst
    BlockReportedTruly
    ProfileHonoured
    DashboardFollowsLog
    ReadersAgree
PROPERTY LogShown
CHECK_DEADLOCK FALSE
