SPECIFICATION MCSpec
CONSTANTS
  Tests = {t1, t2}
  t1 = t1
  t2 = t2
  MaxIssued = 4
  MaxListed = 5
  Shown = 3
  Fields <- ShownFields
  Entries <- TypedEntries
  ToolAnswers <- ShownAnswers
  OldCases <- SavedCases
  MaxCases = 2
  Files = 1
  MaxPresses = 3
  Urls <- TypedUrls
  Times = {0, 5}
  Buffer = 1
  ToolNames = {"read", "send"}
  Messages <- SentMessages
  MaxRequests = 2
  MinTools = 1
INVARIANTS OwnCodeOnly SerialKeepsSession CasesWereSeen ConnectionsReleased TokensAreFound WritesStayHere
PROPERTIES LoginSettles
CHECK_DEADLOCK FALSE
