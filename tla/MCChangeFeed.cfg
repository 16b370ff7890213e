\* A client follows the feed of one account, with tokens of the other one and
\* of an earlier session at hand, while both accounts commit changes.
CONSTANTS
  Workers = {w1}
  o1 = o1
  o2 = o2
  c1 = c1
  Owners = {o1, o2}
  FileIds = {f1, f2}
  Clients = {c1}
  OwnerOf <- MCOwnerOf
  Limits = {1, 2}
  Spare <- KeptTokens
  MaxRevision = 3
  Nobody = Nobody
  None = None
SPECIFICATION FollowSpec
INVARIANTS
  PagesExact
  MirrorIsListing
PROPERTIES
  EveryChangeDelivered
  ImplementsChangeStream
