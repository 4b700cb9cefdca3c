SPECIFICATION Spec
CONSTANTS
    layer = layer
    buffer = buffer
    Surfaces = {layer, buffer}
    Index <- LayerAndBuffer
    InitWidth <- Widths
    MaxWidth = 5
    Users = {owner, guest}
    owner = owner
    guest = guest
    Owner = owner
    QueueSize = 3
    NegligibleWidth = 1
    BaseCost = 0
    DataFactor = 16
    NegligibleIncrease = 4
    BlockSize <- Blocks
    Calls <- AllCalls
    MaxCalls = 4
INVARIANTS QueueWithin FlushShowsAll
PROPERTY ImplementsCanvas
CONSTRAINT Unblurred
