SPECIFICATION RamSpec
CONSTANTS
  RamWords = 8
  Zero = Zero
  w1 = w1
  Word <- MCWord
  WrittenGroups <- MCWrittenGroups
PROPERTY
  ImplementsFlatRam
