SPECIFICATION Spec
CONSTANTS
  t1 = t1
  t2 = t2
  Threads = {t1, t2}
  Bytes = 1
  MaxAddrNum = 7
  Nums = {1, 2, 3, 4, 5, 6, 7, 8}
  MaxRejected = 1
INVARIANTS TypeOK FoundOnce
SYMMETRY ThreadSymmetry
CHECK_DEADLOCK FALSE
