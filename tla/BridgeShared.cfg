\* Three messages, their calls with an id or a blank one, then two function calls, a hosted tool and two texts.
CONSTANTS
  i1 = i1  c1 = c1  c2 = c2  h1 = h1  NoId = NoId
  Ids = {i1}
  MaxMessages = 3
  Calls = {c1, c2}
  Hosted = {h1}
  MaxText = 2
SPECIFICATION Spec
CHECK_DEADLOCK FALSE
INVARIANTS TypeOK HistoryKept ChoiceIsOffered StreamIsAggregate CutIsTold
PROPERTY Freed
