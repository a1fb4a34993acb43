CONSTANTS
  t1 = t1
  t2 = t2
  Thread = {t1, t2}
  Party <- TwoParties
  Sizes = {1, 2, 3, 4}
  Draws <- MCDraws
  None = None
SPECIFICATION Spec
INVARIANTS TypeOK SameShuffle ShuffleApplied InverseIsInverse
