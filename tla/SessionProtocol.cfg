SPECIFICATION FairSpec
CONSTANT MaxRounds = 2
INVARIANT TypeOK
INVARIANT ResponsesAreExpected
INVARIANT ChangesAreReported
PROPERTY ClientIsAnswered
PROPERTY SessionEnds
CHECK_DEADLOCK FALSE
