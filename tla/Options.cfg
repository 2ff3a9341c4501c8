SPECIFICATION Spec
CONSTANTS
    Durations <- Months
    OneYearDuration = 12
INVARIANTS
    AcceptedOptionsWork
    DefaultsNeverSpoil
