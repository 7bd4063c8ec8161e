SPECIFICATION CopySpec
CONSTANTS
  Thread = {t1, t2}
  Stream = {s1, s2}
  Block = {b1, b2}
  Event = {e1, e2}
  Value = {v1, v2}
  None = None
  Granule = 2
  Limit = 2
  Request <- MCRequest
SYMMETRY MCSymmetry
INVARIANTS
  CopyTypeOK
  ToDeviceFaithful
  ToHostFaithful
  CallersKeepTheContract
