SPECIFICATION ProcessSpec
CONSTANTS
  ReadOrder <- CertificateAndToken
  Parsed = {"certificate"}
  Reloads = {r1, r2}
  Clients = {c1}
  MaxGeneration = 2
  main = main
  plugin = plugin
  Installers = {main, plugin}
  Offered <- MCOffered
  None = None
INVARIANTS
  TypeOK
  SnapshotFromItsWindow
  RequestsUseValidatedSources
PROPERTIES
  RotationReachesEveryCommand
