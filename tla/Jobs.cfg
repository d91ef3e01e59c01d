CONSTANTS
  r1 = r1
  r2 = r2
  a1 = a1
  a2 = a2
  a3 = a3
  u1 = u1
  N = 2
  Files <- MCFiles
  Old <- MCOld
  MaxDeaths = 2
  MaxEdits = 1
  Events <- MCEvents
  Sessions <- MCSessions
  SessionOf <- MCSessionOf
  MaxTroubles = 1
  Mails <- MCMails
  MaxCrashes = 2
  Users <- MCUsers
  Ratings <- MCRatings
  MaxTexts = 2
  Cats <- MCCats
  Readers = FALSE
  Calls <- MCCalls
SPECIFICATION JobsSpec
INVARIANTS
  ImportedOnce
  FunnelIsOrdered
PROPERTIES
  QueuedImportsEnd
  MailsEnd
  HiddenTextsVanish
  RequestsEnd
CHECK_DEADLOCK FALSE
