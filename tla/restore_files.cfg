SPECIFICATION RestoreSpec
CONSTANTS
  Tasks = {t1}
  Stoppers = {s1}
  Archives = {a1}
  Initial = before
  Clients = {c1}
  MaxRestores = 2
  MaxFaults = 1
  MaxRestarts = 0
INVARIANTS RollbackKeepsFiles
