\* Two savers, two fields in the ConfigMap and one in the Secret.
CONSTANTS
  s1 = s1
  s2 = s2
  id = id
  w = w
  token = token
  v = v
  Empty = Empty
  Nobody = Nobody
  Unknown = Unknown
  NoSave = NoSave
  Savers = {s1, s2}
  ConfigFields = {id}
  SecretFields = {token}
  Values = {Empty, v, w}
  Modes = {"kube", "file", "none"}
  ReadsFail = {"cold", "warm"}
SPECIFICATION Spec
INVARIANTS LostOnlyByOverlap CacheCurrent
PROPERTIES SnapshotSaves
SYMMETRY Alike
