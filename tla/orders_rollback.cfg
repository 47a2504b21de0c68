\* The client spells the id with a capital.
CONSTANTS
  z1 = z1
  z2 = z2
  n1 = n1
  n2 = n2
  title = title
  title2 = title2
  k1 = k1
  k2 = k2
  ann = ann
  bob = bob
  NoNumber = NoNumber
  NoMap = NoMap
  NoTask = NoTask
  Ids = {z1, z2}
  Zakaz = {z1, z2}
  Numbers = {n1, n2}
  Codes = {n1, n2}
  Titles = {title, title2}
  Kinds = {k1, k2}
  Clients = {ann, bob}
  SaveRequests <- SpelledRequests
  PlainSaves <- NoSaves
  Deletes <- NoSaves
  MaxFaults = 0
SPECIFICATION Spec
PROPERTIES
  RollbackRestores
