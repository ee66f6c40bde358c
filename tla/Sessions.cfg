\* Two tabs of one browser, two pages of which one polls, two logins.
CONSTANTS
    Tabs = {t1, t2}
    b1 = b1
    Browsers = {b1}
    BrowserOf <- OneBrowser
    Pages = {home, settings}
    Home = home
    Polling = {home}
    Login = login
    None = none
    MaxLogins = 2
    MaxCalls = 1
SYMMETRY Symmetry
SPECIFICATION Spec
INVARIANTS
    SessionInv
    RefusalsFinal
    
PROPERTY LoginLeadsBack
CHECK_DEADLOCK FALSE
