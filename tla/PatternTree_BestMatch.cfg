\* Spec property BestMatchAsSpecified checked against the code's tie-break.
CONSTANTS
    Bytes <- MC_Bytes
    Placeholder = Placeholder
    Wildcard = Wildcard
    MaxKeyUnits = 2
    MaxKeys = 2
    MaxRequest = 2
    UninitWildcardBit = FALSE
SPECIFICATION Spec
INVARIANT BestMatchAsSpecified
