\* Every one-shot program, each at its own bounds. They end, and stay ended.
SPECIFICATION Spec
CHECK_DEADLOCK FALSE
SYMMETRY Calls

CONSTANTS
  None = None
  Odd = Odd
  MaxFaults = 1
  Prone = {"demo", "load", "batches", "class", "resolver", "mint", "channel", "jump"}
  SlotCall = {c1, c2}
  Slug = {"red", "blue"}
  Leases = 3
  Checks = {k1, k2}
  Starts = 3
  Claimers = {r1, r2}
  Uid = {1, 2}
  Tenant = {tenant}
  MaxRules = 4
  MaxWords = 5
  Locks = {"l1", "l2"}
  Packages = {engine, other}
  Engine = engine
  MaxLines = 3
  Fetched = {"f"}
  Content = {1, 2}
  MaxCommits = 3
  Names = {1, 2, 3, 4}
  FillDepth = 3
  Settings <- MCSettings
  Masked = "metrics"
  Secrets = 3
  Addresses = {"a", "b"}
  Reasons = {"x", "y"}
  Passwords = 2
  Labels = {"smtp", "drain"}
  Mailboxes <- MCMailboxes
  BoxSecrets = 4
  Text = {1, 2}
  SlotStack = {1, 2}
  Key = {k1, k2}
  Runs = 3
  Callers = {c1, c2}
  Zones <- MCZones
  Ticks = 3
  Links = {1, 2}
  Seeders = {c1, c2}
  PlacesOf <- MCPlacesOf
  Stack = {"network", "estate"}
  MaxRuns = 3

INVARIANTS
  
  ColourHolds
  UidsHold
  TextsHold
  RuntimeHolds
  BootHolds
  MailHolds
  
  KeysHold
  WatchersHold
  

PROPERTIES
  SlotLinesKept
  FoundIsKept
