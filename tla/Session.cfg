CONSTANTS
  Recorders = {r1, r2}
  Nobody = Nobody
  Foreign = Foreign
  Platforms = {"windows", "other"}
SPECIFICATION Spec
SYMMETRY MCSymmetry
INVARIANTS SuccessIsPublished
PROPERTIES NoReplace NothingLost
