SPECIFICATION Spec
CONSTANTS
  Wheels = {left, right}
  Moves <- MCMoves
  MaxCount = 32768
  MaxDrift = 65536
SYMMETRY Symmetry
INVARIANTS
  TypeOK
  EncoderTracks
  EncoderCongruent
  PublishedIsFresh
