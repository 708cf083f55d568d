SPECIFICATION FairSpec
CONSTANTS
  Comments = {"c1", "c2", "c3"}
  Commits = {"k1", "k2", "k3", "k4"}
  CommitOf <- MCCommitOf
  Log <- MCLog
  Limit = 3
  None = None
  MaxSessions = 2
  MaxSummaries = 2
INVARIANTS
  OneAnswerAwaited
PROPERTIES
  SessionKeepsComment
  NavigationIsOneStep
  SummaryRequestsAreNumbered
  LoadingEnds
