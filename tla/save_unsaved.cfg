SPECIFICATION Spec
CONSTANTS
    firewall = firewall
    mail = mail
    ftp = ftp
    webadmin = webadmin
    Action = {a1}
    Module = {firewall, mail, ftp, webadmin}
    Firewall = firewall
    WebAdmin = webadmin
    Unconfigured = {}
    Depends <- MCDepends
    PostSaves <- MCPostSaves
    None = None
    MaxEdits = 2
    MaxFaults = 0
INVARIANTS
    UnsavedTellsAll
