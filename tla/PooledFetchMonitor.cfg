SPECIFICATION Spec
CONSTANTS
  Addr = {a1}
  Req = {r1, r2}
  Conn = {c1, c2}
  None = None
PROPERTIES
  CleansUpItself
