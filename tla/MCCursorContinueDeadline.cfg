CONSTANTS
  c1 = c1
  c2 = c2
  Calls = {c1, c2}
  NoCall = NoCall
  MaxPages = 3
SPECIFICATION UncooperativeSpec
PROPERTY DeadlineAnswers
