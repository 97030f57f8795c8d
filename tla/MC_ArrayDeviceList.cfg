CONSTANTS
    Udevs = {u1, u2}
    Devs = {d1, d2, d3}
    NoUblock = NoUblock
    FaultyName = FaultyName
SPECIFICATION Spec
INVARIANT NoDuplicateDevice
INVARIANT ExportDereferencesOnlyAttached
