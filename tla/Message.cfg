CONSTANTS
  Types <- MCTypes
  RawLen <- MCRawLen
  Values = {x}
  Lens = {0, 1, 4}
  Zero = Zero
  Rest = Rest
  Align = 4
  MaxLen = 15
  Size = 20
SPECIFICATION PartsSpec
INVARIANTS TypeOK NothingCutOff NothingChanged ZeroBehind PaddingFits
PROPERTY TreeBuilt
