SPECIFICATION PlatformSpec
CONSTANTS
  db = db
  c1 = c1
  c2 = c2
  r1 = r1
  r2 = r2
  r3 = r3
  k1 = k1
  m1 = m1
  m2 = m2
  Files <- TwoFiles
  Workers <- TwoWorkers
  NameOf <- Names12
  Specs <- SixSpecs
  Machines <- TwoMachines
  Stores = {db}
  Absent = Absent
  Unset = Unset
  MaxEdits = 1
  MaxDeaths = 1
  Requests = {1, 2}
  Credentials <- ThreeCredentials
  Providers <- Chain
  Agents = {"support"}
  Exposed = {"support"}
  Limiting = TRUE
  Cors = TRUE
  Keys = {k1}
  Capacity = 7
  Cost = 5
  TicksPerSecond = 3
  MaxTime = 12
  Calls = {c1, c2}
  Conversations = {k1}
  NoSaver = NoSaver
  Runs = {r1, r2, r3}
  Clients = {k1}
  Members = {m1, m2}
  Hooks = 1
  NoTurn = NoTurn
  NoObserver = NoObserver
  MaxTurns = 2
  MaxItems = 1
  Threads = {c1, c2}
  EntryPoints <- ThreeEntryPoints
  Known <- ThreeNames
  Nobody = Nobody
  MaxWork = 5
  MaxFaults = 1
INVARIANT PromiseKept
CHECK_DEADLOCK FALSE
