CONSTANTS
  r1 = r1
  r2 = r2
  a1 = a1
  a2 = a2
  a3 = a3
  m1 = m1
  m2 = m2
  u1 = u1
  u2 = u2
  p1 = p1
  p2 = p2
  Calls <- MCCalls
  Roles = {"customer", "manager"}
  Staff = {"manager"}
  Customer = "customer"
  Manager = "manager"
  Admin = "admin"
  Users <- MCUsers
  Emails <- MCAddresses
  Window = 1
  MaxLinks = 2
  MaxGiven = 2
  Ids <- MCAddresses
  People <- MCPeople
  Mailboxes <- MCMailboxes
  Profiles <- MCProfiles
  EmailOf <- MCEmailOf
  Verified <- MCVerified
  MaxRows = 2
SPECIFICATION AccountsSpec
INVARIANTS
  AdminTokensAreForStaff
  RevocationHolds
  OfficeWorkIsForTheOffice
  EmailsAreOwn
  VerifiedMeansProved
  OneDefault
  EverybodyCanLogIn
PROPERTIES
  StepsAreAtomic
  IdentitiesDoNotMove
SYMMETRY Symmetry
CHECK_DEADLOCK FALSE
