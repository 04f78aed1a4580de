SPECIFICATION Spec
CONSTANTS
    firewall = firewall
    mail = mail
    ftp = ftp
    webadmin = webadmin
    Action = {a1, a2}
    Module = {firewall, webadmin}
    Firewall = firewall
    WebAdmin = webadmin
    Unconfigured = {}
    Depends <- MCDepends
    PostSaves <- MCPostSaves
    None = None
    MaxEdits = 2
    MaxFaults = 1
INVARIANTS
    FlagLost
    SuccessMeansSaved
