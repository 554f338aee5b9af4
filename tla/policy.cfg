CONSTANTS
  Segments = {"arguments", "tenant", "body"}
  Alias = "arguments"
  Texts = {"x", "y", "z"}
  Null = Null  Unset = Unset
  ToolIds = {"s__t", "s__u"}
  Callers = {"tenant"}  Anonymous = Anonymous
  Dicts <- MCDicts  RuleSets <- MCRuleSets  Replies <- MCReplies
  Malformed = Malformed  Broken = Broken
SPECIFICATION Spec
CHECK_DEADLOCK FALSE
INVARIANTS
  TypeOK
  ForwardedSatisfiesRules
  RedactionExact
  DeniedWithoutDecision
