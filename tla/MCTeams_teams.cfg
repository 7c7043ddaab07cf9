CONSTANTS
  ann = ann
  bob = bob
  root = root
  crew = crew
  site = site
  link = link
  q1 = q1
  q2 = q2
  Users = {ann, bob, root}
  Admins = {root}
  Teams = {crew}
  Entities = {site, link}
  Websites = {site}
  Requests = {q1, q2}
  Roles = {"member", "manager"}
  CloudModes = {TRUE, FALSE}
SPECIFICATION Spec
SYMMETRY Symmetry
INVARIANTS MembershipUnique OwnerKept DeletionComplete
PROPERTIES RankKept DeletionJustified
CHECK_DEADLOCK FALSE
