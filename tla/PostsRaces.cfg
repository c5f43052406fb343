SPECIFICATION ListsSpec
CONSTANTS
  ann = ann
  bob = bob
  c1 = c1
  c2 = c2
  Users <- MCUsers
  Posts <- MCPosts
  Requests = {r1, r2}
  Contents <- MCContents
  NewBodies <- MCNewBodies
  Bodies <- MCBodies
  MaxListed = 1
  Reactors <- MCUsers
  RoleOf <- MCAllAdmins
  NoPost = NoPost
  NoList = NoList
  Tagged = {c2}
  Pages <- MCPages
  Limits <- MCLimits
SYMMETRY FullSymmetry
INVARIANTS
  TypeOK
  ContentFromAuthor
  DraftsUnlisted
PROPERTIES
  LikesCountFollows
  DeletionsSettle
  ReactionsSettle
  EditsSettle
  AuthorsSettle
  TotalsAgree
