\* Every activation plan, reconciliations of two stages, every fault.
SPECIFICATION FairOperations
CONSTANTS
    Prestates <- AllPrestates
    Faults <- AllFaults
    N = 2
    Disruptions <- AllDisruptions
INVARIANTS
    RecordHonest
    PromptPreserved
    JournalHonest
PROPERTIES
    ActivationCompletes
    ReconciliationLands
