SPECIFICATION Spec
CONSTANTS
  Parts = {"request", "events", "areas", "resume", "forward"}
  Signatures = 2
  MaxChanges = 1
  Causes = {"refused", "late"}
  EventCapacity = 2
  MaxTurns = 3
  MaxLines = 2
  Replies <- MCReplies
  Threshold = 2
  Jitters = {0, 2}
  Long = 5
  SignalCapacity = 1
  MaxSleeps = 3
  MaxBreaks = 2
  CastCapacity = 2
  MaxSent = 4
CHECK_DEADLOCK FALSE
INVARIANTS CommandsAreSafe AreasAreExact ResumesCounted ForwardingIsFaithful
PROPERTIES RequestEnds StreamIsTrue WatcherFollows ResumesSettle ForwardingEnds
