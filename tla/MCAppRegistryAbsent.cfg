SPECIFICATION RegistrySpec
CONSTANTS
  t1 = t1
  t2 = t2
  l1 = l1
  n1 = n1
  d1 = d1
  Tabs = {t1, t2}
  Shown = {t1}
  Leases = {l1}
  Names = {n1}
  Domains = {d1}
  Limit <- MCLimit
  None = None
CHECK_DEADLOCK FALSE
PROPERTY
  AbsentWasGone
