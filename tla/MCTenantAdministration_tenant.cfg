\* Two requests at a time, one user besides the platform, three keys.
SPECIFICATION Spec
CONSTANTS
  Requests = {r1, r2}
  KeyIds = {k1, k2, k3}
  Users = {user}
  Roles = {"owner"}
  Values = {v1}
  Unset = Unset
  Unsure = Unsure
  NoTenant = NoTenant
SYMMETRY Symmetry
INVARIANTS
  TypeOK
  OneHeir
  SettingsKept
PROPERTY
  LinesAreKept
