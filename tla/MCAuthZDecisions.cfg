CONSTANTS
  r1 = r1  r2 = r2  u1 = u1  u2 = u2  d1 = d1  d2 = d2  alice = alice  bob = bob
  Roles = {r1, r2}
  RoleDefinitions = {d1, d2}
  Resources = {u1, u2}
  Actions = {"READ"}
  AccessLevels = {"ALL", "OWN"}
  AccessLevelFns <- MCFns
  Priorities = {0, 1}
  Relationships = {"OWNER"}
  Identifiers = {"userId"}
  Checks <- MCChecks
  Callbacks = {"default"}
  RootOptions <- MCRootOptions
  Definitions <- MCDefinitions
  FeatureOptions <- MCFeatureOptions
  Contexts <- MCContexts
  Objects <- MCObjects
  Blank = Blank  Invalid = Invalid  Null = Null  Absent = Absent
  NoContext = NoContext  NoRole = NoRole
SPECIFICATION Spec
INVARIANTS TypeOK RoleInfoComplete DefinitionsClosed DefaultRoleRegistered FeaturePrefixApplied CanWithinHasPermission ReportMatchesDecisions
PROPERTIES ForwardOnly FailureKeepsDefinitions
