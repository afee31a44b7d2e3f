SPECIFICATION DocumentsSpec
CONSTANTS
    p1 = p1
    p2 = p2
    NoFile = NoFile
    Providers <- PAndQ
    Processes = {p1, p2}
    Sheets <- TypedSheets
    Saves <- SavedValues
    CapModulus = 1073741824
    MaxChanges = 2
    MaxFaults = 1
SYMMETRY Symmetric
PROPERTIES
    SharesByConsent
    StateReadsBack
