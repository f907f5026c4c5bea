SPECIFICATION Spec
CONSTANTS
  Parts = {"mail", "items", "search", "times", "people", "tasks", "manager"}
  Off = Off  NoItem = NoItem  NoJob = NoJob  Unborn = Unborn  Destroyed = Destroyed
  NoCall = NoCall  None = None
  m1 = m1  m2 = m2  inbox = inbox  asks = asks  fair = fair  good = good  bob = bob  dom = dom
  Callers = {1}  Workers = {1, 2}
  MaxCalls = 2  MaxChanges = 1  MaxFailures = 1  MaxRestarts = 1
  Msgs = {m1, m2}  Files = {doc}  Custom = {f1}  Repeats = {0, 2}  MaxId = 3  MaxOutlook = 2
  Originals <- MCOriginals  Edits <- MCEdits  News <- MCNews  Touches <- MCTouches
  RuleBook <- MCRuleBook  Policies <- MCPolicies
  MaxItems = 2  MaxTouches = 1  MaxRules = 3  MaxDrafts = 2
  Texts = {asks, fair, good}  Queries = {asks}  Models = {small, large}  Messages <- MCMessages
  Folders = {inbox}  FolderOf <- MCFolderOf  Automated = {}  Mailboxes <- MCMailboxes
  Limits = {1}  Threshold = 5  Cosine <- MCCosine  EmbedCap = 2  BatchSize = 1
  Interval = 2  Hour = 4  Day = 20  Grid = 2  Attendees = {1, 2}
  Meetings <- MCMeetings  MaxMeetings = 3  Requests <- MCRequests
  Persons = {1, 2, 3}  Odd = {3}  Names = {bob, dom}  NameQueries <- MCNameQueries  Starts <- MCStarts
  Finds <- MCFinds  Domains = {dom}  Sources <- MCSources  NameLimits = {1, 9}
  CacheTtl = 2  NegativeTtl = 1  MaxTicks = 3
  Tasks = {1}  Dues = {1}  MaxTaskChanges = 2
  ResetEvery = 3  MaxOutages = 2
SYMMETRY MCSymmetry
INVARIANTS
  Recoverable AllOrNothing Intended RulesFireAsRead
  AsUncached VectorsKept SlotsAreRight PeopleAreRight LaneRepairs OneLoop
CHECK_DEADLOCK FALSE
