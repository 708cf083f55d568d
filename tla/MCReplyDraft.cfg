SPECIFICATION FairSpec
CONSTANTS
  CommentIds = {c1, c2}
  Chars <- MCChars
  BlankChars <- MCBlank
  MaxLength = 2
  Templates <- MCTemplates
  Outputs <- MCOutputs
  None = None
  MaxRequests = 2
INVARIANTS
  PreviewIsCurrent
  AwaitedAnswerIsCurrent
  LabelMeansModelOutput
PROPERTIES
  AwaitedAnswerArrives
