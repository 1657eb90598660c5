SPECIFICATION MCSpec
CONSTANTS
    Hosts <- MCHosts
    OptionSet <- MCOptions
    Faults = TRUE
PROPERTY DeferredForPresentDns
