CONSTANTS
    Configs <- MCConfigs
    AddressLists <- MCAddressLists
    Hosts <- MCHosts
    MaxChanges = 2
    MaxLookups = 2
SPECIFICATION Spec
INVARIANTS
    OutgoingBound
