SPECIFICATION ProvidersSpec
CONSTANTS
  k1 = k1
  d1 = d1
  d2 = d2
  c1 = c1
  c2 = c2
  Statuses = {"authorized", "captured"}
  Amounts = {"five"}
  Events <- OnePayment
  Keys = {k1}
  Deliveries = {d1, d2}
  MaxFailures = 2
  MaxDuplicates = 1
  Calls = {c1, c2}
  Attempts = 2
  SpRetries = 2
  MaxLength = 8
  MaxChunkSize = 4
  MaxOverlap = 2
  MaxBytes = 5
  MaxDocs = 3
  MaxChars = 9
  MaxBudget = 4
CHECK_DEADLOCK FALSE
INVARIANTS
  AcceptedIsRecorded
  RecordsAccounted
  ChunksFaithful
  StreamIsText
  BudgetSpentInOrder
PROPERTIES
  KnownStaysKnown
  EventsGetRecorded
