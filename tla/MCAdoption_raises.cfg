SPECIFICATION Spec
CHECK_DEADLOCK FALSE
CONSTANTS
  NoLabel = NoLabel
  Unset = Unset
  NoReason = NoReason
  NoPayload = NoPayload
  NoReport = NoReport
  Names <- AllNames
  Labels <- AllLabels
  VerbOf <- LabelVerbs
  SlugOf <- LabelSlugs
  ProposedOf <- LabelProposals
  ReadBack <- YamlNames
  Malformed = Malformed
  NotText = NotText
  GateName <- DenyNames
  AllowName = "allow"
  PolicyLabel = "policy"
  HighRisk <- RiskyWords
  Oversight <- RiskyWords
  OwnItems <- PeopleItems
  MaxEdits = 2
  MaxOnboards = 2
  MaxMerges = 0
INVARIANTS
  ScanNeverRaises
