SPECIFICATION Spec
CONSTANTS
  Threads = {t1, t2}
  Nil = Nil
PROPERTIES KillsAll
CHECK_DEADLOCK FALSE
