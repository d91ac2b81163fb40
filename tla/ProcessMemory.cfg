SPECIFICATION Spec
CONSTANTS
 LoginWorlds <- MCLoginWorlds
 Requests <- MCRequests
 Digests <- MCDigests
 MatchWindow = 1
 Retention = 4
 MaxCandidates = 2
 MaxSeen = 3
 PageSize = 2
 LoginLag = 1
 RequestLag = 1
 FirstMark = 1
 MaxClock = 5
 Listings <- MCListings
 Polls = 4
 Publishers <- MCPublishers
 NamesOf <- MCNamesOf
 Pipelines <- MCPipelines
 TTL = 2
 MaxMoment = 3
 Generations = 2
 PollKinds <- MCPollKinds
 PollWorlds <- MCPollWorlds
 SeriesCap = 6
 SnapshotPollLimit = 4
 GatewayWorlds <- MCGatewayWorlds
 Gateways <- MCGateways
 Tenths = 2
 GatewayLag = 1
 GatewayPage = 2
 ListRowCap = 6
 Budgets = {0, 2}
 CacheEntries = 2
 CacheTTL = 4
 Ahead = 2
 MaxInstant = 9
 QueryWorlds <- MCQueryWorlds
 DefaultLimit = 3
 Regrants = 2
 BatchWorlds <- MCBatchWorlds
 BatchLimit = 3
 BatchRegrants = 2
 Items = {1, 2, 3, 4, 5}
 PerPage = 2
 ServerPages = {1, 2}
 PageCap = 4
 Edits = 2
 Ids = {1, 2, 3}
 NameSet = {"x", "y"}
 Catalogs <- MCCatalogs
 NoName = "none"
 RowsAsked = 2
 RowsGiven = {1, 2}
 Hour = 2
 TotalCap = 3
 PagesCap = 2
 MaxTime = 3
 Changes = 2
 Outcomes = {1, 2}
 Snapshots = {1, 2}
 MaxCount = 2
 Indexes = 2
 Keys = {"inferred", "email", "zone"}
 Inferred = "inferred"
 Identity = {"email"}
 Marked = "true"
 Bags <- MCBags
 GaugeNames = {"g"}
 MaxPoints = 3
INVARIANT RightUser
INVARIANT TunnelsTold
INVARIANT OneGeneration
INVARIANT PollsAddUp
INVARIANT GatewaySound
INVARIANT QuerySound
INVARIANT BatchSound
INVARIANT ListingSound
INVARIANT NamesSound
INVARIANT OutcomesTold
INVARIANT FilterExact
CHECK_DEADLOCK FALSE
