\* Three subtasks on pages of one; up to three tasks of up to two seconds on
\* list pages of one; two accounts, a callback URL with and without spaces at
\* its ends.
CONSTANTS
    s1 = s1
    s2 = s2
    s3 = s3
    p1 = p1
    p2 = p2
    x = x
    y = y
    url = url
    padded = padded
    nourl = blank
    Subs = {s1, s2, s3}
    PromptOf <- SubPrompt
    PlatformOf <- SubPlatform
    Statuses = {"completed", "error"}
    Listings <- SavedTogether
    PageSize = 1
    All = all
    None = none
    RowsPerPage = 1
    AllTasks = all
    Nothing = nothing
    MaxTasks = 3
    Seconds = {1, 2}
    PlatformOptions = {x, y}
    MaxPrompts = 2
    ApiKeys = {k1, k2}
    Urls = {url, padded}
    Trim <- Trimmed
    Blank = blank
    NotYet = notyet
SYMMETRY Accounts
SPECIFICATION Spec
INVARIANTS
    ConsoleTypeOK
    MatchesVisible
    FilterSatisfiable
    WalkMissesNothing
PROPERTIES
    PagingMoves
    CollapseSticks
    SyncedIsShown
    OnlyTypedUrlsAreSent
    UrlFollowsKey
CHECK_DEADLOCK FALSE
