SPECIFICATION MCSpec
CONSTANTS
    Hosts <- MCHosts
    OptionSet <- MCOptions
    Faults = TRUE
INVARIANTS
    TypeOK
    AdmittedFits
    ServersAccept
    ServicesInstalled
    RoutingSound
    InstalledPassesChecks ResumeKeepsPlan
    PreexistingKept
    AddedIsRecorded
    ResetLeavesNothing
