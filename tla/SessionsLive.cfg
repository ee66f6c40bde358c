\* One tab; logins and logouts overlap; what the code schedules is fair.
CONSTANTS
    Tabs = {t1}
    b1 = b1
    Browsers = {b1}
    BrowserOf <- OneBrowser
    Pages = {home, settings}
    Home = home
    Polling = {home}
    Login = login
    None = none
    MaxLogins = 2
    MaxCalls = 2
SPECIFICATION FairSpec

PROPERTY DeadSessionsEnd
CHECK_DEADLOCK FALSE
