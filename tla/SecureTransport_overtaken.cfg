SPECIFICATION Spec
CONSTANTS
  ReadOrder <- CertificateAndToken
  Parsed = {"certificate"}
  Reloads = {r1, r2}
  Clients = {c1}
  MaxGeneration = 2
PROPERTIES
  LaterRequestsReceiveTheNew
