SPECIFICATION FairSpec
CONSTANTS
  t1 = t1  t2 = t2  t3 = t3  here = here  there = there
  Threads = {t1, t2, t3}
  Converters = {here, there}
  ConverterOf <- SharedAndApart
  BuildIds = {k1}
  Companions = {"main"}
  Servers = 1
  Answers = {"fits", "failed"}
  OnDisk = {"absent", "broken"}
  StoreMayFail = TRUE
  MaxLosses = 1
  MaxUnwinds = 1
  Requests = {r1, r2, r3}
  NoRequest = NoRequest
  NoThread = NoThread
INVARIANTS SingleFlight CoalescedAgree
PROPERTIES DiscoveryReturns
