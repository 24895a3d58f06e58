SPECIFICATION Spec
CONSTANTS
  alice = alice
  bob = bob
  carol = carol
  treasury = treasury
  buy = buy
  sell = sell
  top = top
  cash = cash
  back = back
  None = None
  s1 = s1
  s2 = s2
  s3 = s3
  Sessions = {s1}
  Requests = {buy, sell, top, cash, back}
  Workloads <- OneByOne
  Keyed = {buy, top}
  FeePct = 15
  RoyaltyPct = 60
  Platform = treasury
  Accounts <- MCAccounts
  Kind <- MCKind
  From <- MCFrom
  To <- MCTo
  Undoes <- MCUndoes
  Amount <- MCAmount
  Creators = {carol}
  CreatorOf <- MCCreatorOf
  Rank <- MCRank
  Fee <- MCFee
  Royalty <- MCRoyalty
  Opening <- MCOpening
INVARIANTS
  BalancesMatchLedger
PROPERTY
  BankSpec
