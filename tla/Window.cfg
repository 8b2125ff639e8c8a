SPECIFICATION Spec
CONSTANTS
  c1 = c1  c2 = c2  h1 = h1  h2 = h2
  Conversation = {c1, c2}
  Handler = {h1, h2}
  Script <- Histories
  Role <- Roles
  Fact <- Numbers
  Budget = {9}
  Frame = 1
  DefaultSystem = 1
  SummaryBudget = 5
  AskSize = 2
  TranscriptCap = 4
  MinTranscript = 1
  NoteSizes = {1, 3}
  NoNote = NoNote
  MaxRequests = 3
SYMMETRY Exchange
INVARIANTS FitIsBest AnswersFit SlotIsTrue NoteIsOwn
CHECK_DEADLOCK FALSE
