SPECIFICATION QueueSpec
CONSTANTS
  Nothing = Nothing
  Message = {j1, j2, j3, junk}
  Malformed = {junk}
  Consumer = {w1, w2}
SYMMETRY Symmetry
INVARIANTS QueueTypeOK OnePlace AnswersItsHand OneLiveHandler
