SPECIFICATION Spec
CONSTANTS
    Formats <- MCFormats
    Readable <- MCReadable
INVARIANTS MeaningKept WarnsOfLoss GuessedRight
CHECK_DEADLOCK FALSE
