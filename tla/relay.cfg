SPECIFICATION RelaySpec
CONSTANTS
    IdModulus = 2
    MaxDuplicates = 1
    MaxTotal = 3
    PictureSizes = {2, 3}
    MaxFrames = 2
    MaxForwards = 2
    MaxForwardDuplicates = 0
    MaxRestarts = 1
\* The receivers rest when MaxFrames are sent and nothing is on its way.
CHECK_DEADLOCK FALSE
INVARIANTS
    RelayTypeOK
    UniqueFramesWhole
    ArrivedYielded
    EndedByReuse
    PictureWhole
