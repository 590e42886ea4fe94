SPECIFICATION Spec
CONSTANTS
    Paths = {p1, p2}
    None = None
    MaxActs = 5
INVARIANTS
    BuildingIsTrue
    PixmapsOwned
PROPERTIES
    ViewSpec
    ThumbnailShown
