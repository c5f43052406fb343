SPECIFICATION ClientsSpec
CONSTANTS
  ann = ann
  bob = bob
  c1 = c1
  c2 = c2
  Users <- MCUsers
  Posts <- MCPosts
  Requests = {r1, r2}
  Contents <- MCContents
  NewBodies <- MCPlainBodies
  Bodies = {}
  MaxListed = 2
  Reactors <- MCUsers
  RoleOf <- MCBobAdmin
  NoPost = NoPost
  Unsure = Unsure
SYMMETRY RequestSymmetry
INVARIANTS
  AckedReactions
