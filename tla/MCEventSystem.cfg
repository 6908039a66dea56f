SPECIFICATION QuestionsSpec
CONSTANTS
  h1 = h1
  h2 = h2
  a1 = a1
  a2 = a2
  Handlers = {h1, h2}
  Askers = {a1, a2}
  Cancellers = {a1}
  MaxId = 2
  MaxPosted = 2
  Contexts = {"c1", "c2"}
  MaxNumber = 3
  Careful = TRUE
  Providers <- ThreeProviders
INVARIANT QuestionsKnown
INVARIANT ShownOnce
INVARIANT NoLostQuestion
PROPERTY OfferedInOrder
PROPERTY CompletedOnce
PROPERTY EverythingEnds
INVARIANT KeysConsistent
PROPERTY KeysArrive
