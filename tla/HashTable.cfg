SPECIFICATION Spec
CONSTANTS
  a = a
  b = b
  c = c
  Threads = {t1, t2, t3}
  Values = {a, b, c}
  TableSize = 2
  Hash <- HashOf
  MaxChain = 2
SYMMETRY Symmetry
INVARIANTS
  TypeOK
  WriterAlone
  IteratorValid
PROPERTY ImplementsService
