SPECIFICATION Spec
CONSTANTS
    HashBits = 8
    Peer = {g, h, c}
    Game = {g, h}
    MaxTyped = 2
    MaxEnds = 1
INVARIANTS
    TypeOK
    NamesCounted
    NamesSpread
    ChoiceTold
SYMMETRY GamesAlike
CHECK_DEADLOCK FALSE
