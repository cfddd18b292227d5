SPECIFICATION Spec
CONSTANTS
  MaxLogEntries = 2
  MaxSamples = 1
  StateLines <- MCStateLines
  People <- MCPeople
  Growth = {0, 2}
  Intervals = {0}
  Notices <- MCNotices
  Noticed <- MCNoticed
  Replies <- MCReplies
  MaxStates = 2
  MaxReports = 3
  MaxUser = 2
  MaxSessions = 2
INVARIANTS DashboardInv Understood StateShown AnswersShown ClientsShown WindowIsTail LogIsTail FormatsAgree ChallengeAnswered DatesRight
CHECK_DEADLOCK FALSE
