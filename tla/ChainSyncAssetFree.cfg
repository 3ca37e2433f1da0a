SPECIFICATION Spec
CONSTANTS
  Outpoint <- MCOutpoint
  TxOf <- MCTxOf
  ScriptOf <- MCScriptOf
  Value <- MCValue
  Asset = {1, 2}
  Amount <- MCAmount
  Tweaks <- MCTweaks
  Largest = 2
  Depths = {1}
  MaxHeight = 2
  MaxReorgs = 0
INVARIANT
  BitcoinOnlyIsAssetFree
