SPECIFICATION Spec
CONSTANTS
  Sockets = {1, 2, 3, 4, 5}
  NoSocket = NoSocket
  Queues = {"reports"}
  Keep = 2
  Nothing = Nothing
  a = a
  b = b
  c = c
  la = la
  lb = lb
  s = s
  t = t
  Tenants = {s, t}
  Items = {a, b, c, la, lb}
  Home <- MCHome
  FirstOf <- MCFirstOf
  Entry <- MCEntry
  Part <- MCPart
  Files = {"note", "bill"}
  Pasted <- MCPasted
  Sheets = {1, 2}
  MaxCalls = 4
  Modules = {"pos"}
  Products = {"bread"}
  Unlisted = "code"
  Notes = {"deposit", "cake", "rent"}
  NoteOf <- MCNoteOf
  Preorders = {"cake"}
  NoCart = NoCart
  Tills = {1, 2}
  Tables = {"t1", "t2"}
  Articles = {"wine", "soup"}
  Courses = {"starter", "main"}
CHECK_DEADLOCK FALSE
INVARIANTS
  TypeOK
  OneLinkHasCause
  PagesHaveCause
  TenantsKeptApart
  TillHasCause
  ConsentKept
PROPERTIES
  PageCatchesUp
