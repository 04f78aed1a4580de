SPECIFICATION FairSpec
CONSTANTS
    firewall = firewall
    mail = mail
    ftp = ftp
    webadmin = webadmin
    Action = {a1}
    Module = {firewall, mail, ftp, webadmin}
    Firewall = firewall
    WebAdmin = webadmin
    Unconfigured = {ftp}
    Depends <- MCDepends
    PostSaves <- MCPostSaves
    None = None
    MaxEdits = 2
    MaxFaults = 1
INVARIANTS
    TypeOK
    FlagLost
    SuccessMeansSaved
PROPERTIES
    ActionEnds
