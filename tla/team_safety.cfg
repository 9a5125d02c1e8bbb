\* Two projects of one owner, two people to invite, two requests at a time.
CONSTANTS
  u1 = u1
  People = {u1, u2, u3}
  Projects = {x1, x2}
  Calls = {c1, c2}
  OwnerOf <- MCOwnerOf
  Plans <- MCPlans
  Trial = "trial"
  NoPlan = "expired"
  MaxProjects <- MCMaxProjects
  MaxInvited <- MCMaxInvited
  Asked = {"owner", "manager"}
  MaxInvites = 2
SPECIFICATION Spec
SYMMETRY Symmetric
INVARIANT TypeOK
INVARIANT OwnerKeepsRole
PROPERTY ProjectsWithinPlan
PROPERTY MembersWithinPlan
PROPERTY InvitesFinal
CHECK_DEADLOCK FALSE
