SPECIFICATION Spec
CHECK_DEADLOCK FALSE
CONSTANTS
  n1 = n1
  n2 = n2
  Names = {n1, n2}
  Labels <- TwoLabels
  VerbOf <- LabelVerbs
  SourceReasons <- TwoReasons
  CanonReason <- LabelReasons
  ActionLabels <- VerbLabels
  MaxFiles = 2
  MaxAdds = 3
  NoLabel = NoLabel
  Unset = Unset
  NoReason = NoReason
INVARIANT
  SourceNamedReasonAsserted
