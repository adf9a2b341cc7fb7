SPECIFICATION Spec
CONSTANTS
  c1 = c1
  c2 = c2
  a = a
  b = b
  d = d
  Null = Null
  Cpus = {c1, c2}
  Tasks = {a}
  Clients = {k1}
  Home <- HomeOfMigrant
INVARIANT NoKassertFails
