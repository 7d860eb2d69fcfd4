\* One stream and two accounts; the user changes while tokens are under way.
SPECIFICATION FairCredentialsSpec
CONSTANTS
  a1 = a1
  a2 = a2
  write = write
  Account = {a1, a2}
  Nobody = Nobody
  Stream = {write}
  MaxNotices = 3
  MaxCloses = 2
INVARIANTS
  CallsCarryTheServedUser
  TokenFindsItsStreamStarting
PROPERTIES
  StartsComeToAnEnd
CHECK_DEADLOCK FALSE
