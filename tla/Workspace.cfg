CONSTANTS
  u1 = u1
  u2 = u2
  u3 = u3
  c1 = c1
  c2 = c2
  l1 = l1
  l2 = l2
  l3 = l3
  i1 = i1
  User = {u1, u2, u3}
  Conversation = {c1, c2}
  Link = {l1, l2, l3}
  Invite = {i1}
  Request = {r1, r2}
  None = None
  Anyone = Anyone
  Scenes <- AllScenes

SPECIFICATION Spec
SYMMETRY Symmetry
INVARIANTS TypeOK NoCheckFails ConstraintsUnlessRaced OneActiveLink OneDirectEach
PROPERTIES ChangesTold PatchKeepsTheRest JoinsUseLiveLinks
