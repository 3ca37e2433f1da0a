SPECIFICATION FairSpec
CONSTANTS
  Outpoint <- PairOutpoint
  TxOf <- PairTxOf
  ScriptOf <- PairScriptOf
  Value <- PairValue
  Asset = {1}
  Amount <- PairAmount
  Tweaks = {}
  Largest = 2
  Depths = {1}
  MaxHeight = 2
  MaxReorgs = 1
INVARIANTS
  SearchIsComplete
  NoSpentCoins
PROPERTIES
  SyncAdvances
  SyncReplies
