SPECIFICATION Spec
CONSTANTS
  Statuses = {200, 201, 202, 204, 400, 401, 403, 404, 409, 503}
  TextLimit = 2
  BinaryLimit = 4
  MaxLength = 6
  MaxChunk = 3
CHECK_DEADLOCK FALSE
INVARIANTS
  TypeOK
  BoundedBuffer
  OutcomeIsTheMeaning
  OutcomeNamesStatus
PROPERTIES
  EventuallyAnswered
