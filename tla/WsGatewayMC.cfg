SPECIFICATION Spec

CONSTANTS
    Conns = {c1, c2}
    Devices = {d1, d2}
    Nameless = {n1}
    Rooms = {r1, r2}
    NoRoom = NoRoom
    Absent = Absent
    NoList = NoList
    Null = Null

INVARIANTS
    TypeOK
    StatusTruth
    HearsItsRooms
    CommandsItsRooms
    ShownIsCommandable
    NothingMissed

SYMMETRY Symmetry
