SPECIFICATION Spec
CONSTANTS
    ThumbDim = 6
    MinFace = 2
    MaxSide = 5
    MaxFaces = 3
INVARIANTS BiggestFace CutInside CutShowsFace
