\* Every origin of a subnet, every limit of the filter, records that age.
SPECIFICATION Spec
CONSTANT Exchanges <- AllExchanges
INVARIANTS
    SubnetIsGlobal
    NoECSHides
    ClientSubnetWins
    SubnetEchoed
    RecordsKept
    TTLNeverGrows
    ExpiresOnTime
