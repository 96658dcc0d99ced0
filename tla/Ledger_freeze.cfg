SPECIFICATION Spec
CONSTANTS
  alice = alice
  bob = bob
  Users = {alice, bob}
  NoUser = NoUser
  Referrer <- SelfReferrer
  Conns = {c1, c2}
  Amounts = {2}
  RevShares = {50}
  Refs = {}
  Days = {}
  MaxRows = 5
PROPERTY NoTipFromFrozen
