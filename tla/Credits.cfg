\* Ledger: three requests at a limit of three, two failures open the circuit;
\* two turns of the month within reach of reservations that became stale.
\* Pools: two scrapes, two or three keys, one turn of the period.
\* Transports: three HSReplay requests for two snapshots; two pages of one site.
\* Tokens: two requests at a quota and a rate of one.
SPECIFICATION CreditsSpec
CONSTANTS
  Requests = {r1, r2, r3}
  w1 = w1
  w2 = w2
  Limit = 3
  Threshold = 2
  Cooldown = 1
  Stale = 2
  MonthLength = 3
  MaxWait = 1
  MaxTime = 6
  MaxAttempts = 5
SYMMETRY Symmetry
VIEW LiveView
CHECK_DEADLOCK FALSE
INVARIANTS
  LimitKept
  BillWithinLimit
  SingleProbe
  AccountsAreKept
PROPERTY RefusedStaysOut
