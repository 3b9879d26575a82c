SPECIFICATION RestoreSpec
CONSTANTS
  Tasks = {t1, t2}
  Stoppers = {s1, s2}
  Archives = {a1, a2}
  Initial = before
  Clients = {c1}
  MaxRestores = 2
  MaxFaults = 3
  MaxRestarts = 1
INVARIANTS AllOrNothing RecipientsHoldKeys ShutdownWaits
