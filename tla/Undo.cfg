CONSTANTS
  e1 = e1
  e2 = e2
  s0 = s0
  s1 = s1
  Editors <- TwoEditors
  Sceneries <- TwoSceneries
  Pointless = s0
  MaxFiles = 3
  LastFile = 3
  Missing = Missing
  Torn = Torn
  Nobody = Nobody
SPECIFICATION Spec
INVARIANTS TypeOK OneEditorAtWork RecordsOnDisk
PROPERTIES LeftoversKept UndoSpec
SYMMETRY Symmetry
