SPECIFICATION Spec
CONSTANTS
  u1 = u1
  Conns = {c1}
  Admin = {c1}
  Persons = {u1}
  PersonOf <- MCPersonOf
  Roles = {"org_admin", "platform_admin"}
  Codes = {k1}
  Tokens = {1, 2}
  Exchanges = {e1, e2}
  Enders = {r1}
  None = None
  Props = {p1}
  Calls = {a1, a2}
  OpenPerConnection = 1
INVARIANTS TypeOK OneHeir RunsOnce
PROPERTIES ProposalsEnd RevokedOnlyWanes
CHECK_DEADLOCK FALSE
