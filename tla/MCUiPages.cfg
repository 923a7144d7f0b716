SPECIFICATION Spec
CONSTANTS
  Optional <- MCOptional
  Failing = {"NowPlaying"}
  Titles = {t1, t2}
SYMMETRY TitleSymmetry
INVARIANTS
  IndexInPages
  OwnerIsSeen
  RowIsAsDrawn
