SPECIFICATION Spec
CONSTANTS
  Coin <- PairCoin
  Sats <- PairSats
  Asset <- PairAsset
  Index = {0, 1, 2}
  Amounts = {1}
  Fees = {1}
  Giveaways = {1}
  Word = 32
  MaxTransfers = 2
INVARIANTS
  TypeOK
  HandedOutIsRecorded
  OneChangePerIndex
PROPERTY
  FilesKeepUp
CHECK_DEADLOCK FALSE
