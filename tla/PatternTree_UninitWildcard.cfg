\* LookupSound when the uninitialized `wildcard` member of a node reads true.
CONSTANTS
    Bytes <- MC_Bytes
    Placeholder = Placeholder
    Wildcard = Wildcard
    MaxKeyUnits = 2
    MaxKeys = 2
    MaxRequest = 2
    UninitWildcardBit = TRUE
SPECIFICATION Spec
INVARIANT LookupSound
