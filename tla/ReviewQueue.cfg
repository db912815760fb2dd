SPECIFICATION Spec
CONSTANTS
  admin = admin
  operator = operator
  visitor = visitor
  t1 = t1
  demo = demo
  Reviewers = {admin, operator, visitor}
  Rounds = {1}
  Tenants = {t1, demo}
  Scope <- MCScope
  Prefix <- MCPrefix
  Credential <- MCCredential
  Required = 2
  MaxTries = 3
  Console = console
  System = system
  None = None
INVARIANTS
  TenantsStayApart
  DecisionsNameTheirDeciders
  ToldIsSettled
PROPERTY
  ImplementsReviewRound
