\* Two spammers, two goroutines at a time.
SPECIFICATION LiveSpec
CONSTANTS
  spam0 = spam0
  spam1 = spam1
  Nobody = Nobody
  Spammers <- TwoSpammers
  Goroutines = {g1, g2}
  CheckEvery = 2
  MaxSequence = 1
INVARIANTS
  TypeOK
  OneSender
  SignedCurrent
PROPERTIES
  SendsEnd
  Resynchronises
