CONSTANTS
  k1 = k1
  k2 = k2
  u1 = u1
  u2 = u2
  s1 = s1
  admin = admin
  viewer = viewer
  here = here
  there = there
  far = far
  localhost = localhost
  None = None
  Names <- MCNames
  Users <- MCUsers
  Roles <- MCRoles
  ClusterAdmin = admin
  Servers <- MCServers
  Localhost = localhost
  ClusterInfos <- NoInfos
  ExistingSecrets = {}
  Requests <- AutoRequest
  Limit <- RecreateLimit
SPECIFICATION Spec
\* The operator reacts to events and rests once there are none.
CHECK_DEADLOCK FALSE
INVARIANTS
  DoneHasKey
