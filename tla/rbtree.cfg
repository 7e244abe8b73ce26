SPECIFICATION Spec
CONSTANTS
  Nodes = {block1, block2, block3, block4, block5, block6}
  Values = {1, 2, 3, 4, 5, 6}
  Null = Null
  FalseRoot = FalseRoot
  MaxOdd = 1
SYMMETRY NodeSymmetry
INVARIANTS
  TestPasses
  NodesAccounted
PROPERTY
  ImplementsSet
