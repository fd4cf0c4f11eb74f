SPECIFICATION ListenerSpec
CONSTANTS
  User = {u1}
  Level = {l1}
  Main = None
  NoUnload = {}
  Saver = {s1}
  MaxOps = 3
  None = None
PROPERTY UnusedUnloaded
