CONSTANTS
  IP = {ip1, ip2}
  Threads = {t1, t2}
  Free = Free
  Max = 2  Window = 2  MaxLag = 1
  MaxTime = 8 
SPECIFICATION Spec
INVARIANTS TypeOK TwoBurstsAtMost NoExpiredSurvivor
SYMMETRY Symmetry
