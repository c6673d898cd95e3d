SPECIFICATION Spec
CONSTANTS
    Templates = {ammo, gear, odd}
    ammo = ammo
    gear = gear
    odd = odd
    Graded = {gear}
    Single = {gear}
    Unknown = {odd}
    StackSize = 2
    MaxSlots = 2
    MaxVolume = 3
    Requests = {r1, r2}
    r1 = r1
    r2 = r2
    Kinds = {"give", "pack", "put", "update", "delete", "repair"}
    Quantities = {1, 2}
    DeleteAnytime = FALSE
    LoginRace = FALSE
    Faults = {}
    MaxRows = 4
    MaxAsked = 2
INVARIANT Conserved
INVARIANT MendedStays
PROPERTY GiveFits
SYMMETRY Alike
CHECK_DEADLOCK FALSE
