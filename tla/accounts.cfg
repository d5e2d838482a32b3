SPECIFICATION FairSpec
CONSTANTS
  Requests = {r1, r2}
  Emails = {ann, bob, boss}
  BootEmail = boss
  aSeed = aSeed
  aFallback = aFallback
  Names <- MCNames
  Tried <- OneSeed
  Fallbacks <- MCFallbacks
  CliName <- OneCliName
  Codes = {c1}
  Anyone = Anyone
  Attempts = 2
  MaxUsers = 3
INVARIANTS
  TypeOK
  ReservedInviteIsSingleUse
  EveryAccountWasInvited
  RedeemerJoined
  NoBootstrapAfterAdmin
  OneHttpAdmin
PROPERTIES
  RedemptionIsStable
  EveryRequestIsAnswered
CHECK_DEADLOCK FALSE
