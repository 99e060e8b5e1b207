CONSTANTS
  MaxSize = 65535
  Threads = {t1, t2}
  Times = {7, 1099, 2500}
  MaxTimes = 2
  MaxLines = 2
SPECIFICATION Spec
INVARIANT ReadsBack
