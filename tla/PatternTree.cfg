\* Lookups on every tree built from up to three keys agree with the
\* reference meaning of the patterns; the build follows the key list.
CONSTANTS
    Bytes <- MC_Bytes
    Placeholder = Placeholder
    Wildcard = Wildcard
    MaxKeyUnits = 2
    MaxKeys = 3
    MaxRequest = 2
    UninitWildcardBit = FALSE
SPECIFICATION Spec
INVARIANTS
    TypeOK
    LookupSound
    LookupComplete
    BindingsFollowKeys
