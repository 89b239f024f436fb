CONSTANTS
    Client = {a, b, c}
    MaxBeat = 1
    Advances = {1}
    MaxLead = 1
    Leavers = {c}
    MaxCuts = 0
    NoRequest = NoRequest
SPECIFICATION Spec
SYMMETRY Symmetry
INVARIANT SurvivorsRunSameOrders
