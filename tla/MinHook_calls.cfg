\* Every call of the library may fail, and it is uninitialized at any time, also
\* under hook objects that are alive.
CONSTANTS
  h1 = h1
  h2 = h2
  h3 = h3
  h4 = h4
  t1 = t1
  t2 = t2
  a1 = a1
  a2 = a2
  a3 = a3
  Objects = {h1, h2, h3, h4}
  Targets = {t1, t2}
  Adapters = {a1, a2, a3}
  Slots = {s1, s2, s3}
  TargetOf <- MCTargetOf
  AdapterOf <- MCAdapterOf
  OneEach = TRUE
  NoSlot = NoSlot
  NoHook = NoHook
SPECIFICATION MinHookSpec
INVARIANTS FlagsAreTrue OriginalIsOwn
PROPERTY ImplementsContract
