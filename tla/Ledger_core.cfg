SPECIFICATION Spec
CONSTANTS
  alice = alice
  bob = bob
  Users = {alice, bob}
  NoUser = NoUser
  Referrer <- SelfReferrer
  Conns = {c1}
  Amounts = {2}
  RevShares = {50}
  Refs = {r1}
  Days = {d1}
  MaxRows = 4
INVARIANTS TypeOK PaidOnce FailedIffRefunded RewardsAreEarned AdminVerbsAudited
PROPERTIES EveryMutationPaired FreezeHoldsOnceDrained ImplementsBank
