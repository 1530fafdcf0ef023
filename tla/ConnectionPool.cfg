SPECIFICATION FairSpec
CONSTANTS
  Writers = {w1, w2, w3, w4}
  Readers = {read, probe}
  MaxOpen = 2
  w1 = w1
  w2 = w2
  w3 = w3
  w4 = w4
  read = read
  probe = probe
  Free = Free
  Server = Server
INVARIANTS
  PoolAccounted
  NeverStuck
PROPERTIES
  ReadsPassWriters
