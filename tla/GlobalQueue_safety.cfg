SPECIFICATION Spec
CONSTANTS
  qa = qa
  qb = qb
  xa = xa
  xb = xb
  y = y
  ext = ext
  m1 = m1
  m2 = m2
  c1 = c1
  c2 = c2
  Queues = {qa, qb}
  Modules = {xa, xb, y}
  IDs = {xa, xb, y, ext}
  QueueOf <- MCQueueOf
  Wants <- MCWants
  Msgs = {m1, m2}
  From <- MCFrom
  To <- MCTo
  Clients = {c1}
  Calls = {"RegisterQueue", "RegisterModule", "UnregisterModule", "UnregisterQueue", "AddLink"}
  Extra <- MCExtra
  Careful = FALSE
  Throws = TRUE
  MaxCalls = 2
  AtStart = {xa, y}
  Global = Global
  None = None
CHECK_DEADLOCK FALSE
INVARIANTS
  HandlerIsRegistered
  InOrder
  LinksSound
