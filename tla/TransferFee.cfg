SPECIFICATION Spec
CONSTANTS
  Coin <- PairCoin
  Sats <- PairSats
  Asset <- PairAsset
  Index = {0, 1}
  Amounts = {2}
  Fees = {4}
  Giveaways = {1}
  Word = 32
  MaxTransfers = 1
INVARIANT
  FeeIsPaid
CHECK_DEADLOCK FALSE
