------------------------------ MODULE PageScripts ------------------------------
(***************************************************************************)
(* The small scripts of the administration pages, each with a state of its *)
(* own: forms sent with Ajax (form.js), uploads (fileUpload.js), the mail   *)
(* account of a user (mail-user-addon.js), the button that tells of        *)
(* unsaved changes and the left menu (common.js), and the packages to      *)
(* install (software-management.js).                                       *)
(***************************************************************************)
EXTENDS Naturals, FiniteSets

CONSTANTS
    Package,    \* rows of a table of packages
    MaxSubmits  \* bound: submissions, uploads, refreshes

VARIABLES
    script,     \* the script at work, one of Scripted
    form, upload, mail, saveButton, sideMenu, packages

scriptVars == <<script, form, upload, mail, saveButton, sideMenu, packages>>

Scripted == {"form", "upload", "mail", "saveButton", "menu", "packages"}
Folder == {"core", "network", "office"}

\* The folder of the page is open when it comes, although menuShown says nothing;
\* headTitle.mas asks for the state of the button.
ScriptsInit ==
    /\ script \in Scripted
    /\ form = [button |-> "label", saved |-> "none", pending |-> 0, sent |-> 0, shown |-> {}, twice |-> FALSE]
    /\ upload = [pending |-> 0, started |-> 0, enabled |-> TRUE, twice |-> FALSE]
    /\ mail = [account |-> "none", inForm |-> "none", label |-> "none", shown |-> {"none"}]
    /\ saveButton = [changed |-> FALSE, unsaved |-> FALSE, asked |-> 1,
                     pending |-> {[no |-> 1, answer |-> "none"]}, overtaken |-> FALSE, elsewhere |-> FALSE]
    /\ sideMenu = [shown |-> "none", open |-> {"core"}, despleg |-> {"core"}]
    /\ packages = [selected |-> {}, ticked |-> {}, all |-> FALSE, hidden |-> {}, enabled |-> FALSE, sent |-> {}]

------------------------------------------------------------------------------
FormIs(f) ==
    /\ script = "form" /\ form' = f
    /\ UNCHANGED <<script, upload, mail, saveButton, sideMenu, packages>>

\* submit(): the button is saved under its id, as it is, and becomes a spinner.
SetSpinner(f) == [f EXCEPT !.saved = f.button, !.button = "spinner"]
SubmitForm ==
    /\ form.sent < MaxSubmits
    /\ FormIs([SetSpinner(form) EXCEPT !.pending = @ + 1, !.sent = @ + 1, !.shown = {},
                                       !.twice = @ \/ form.pending > 0])

\* restoreAfterLoading(): the second time nothing is found.
RestoreAfterLoading(f) ==
    IF f.saved = "none" THEN f ELSE [f EXCEPT !.button = f.saved, !.saved = "none"]
FormAnswered(div) ==
    /\ form.pending > 0
    /\ FormIs([RestoreAfterLoading(form) EXCEPT !.pending = @ - 1, !.shown = @ \union div])
------------------------------------------------------------------------------
UploadIs(u) ==
    /\ script = "upload" /\ upload' = u
    /\ UNCHANGED <<script, form, mail, saveButton, sideMenu, packages>>

\* backup.mas makes a FileUpload, with an iframe of its own, each time a file is
\* chosen; start() disables the button that restores the file.
ChooseFile ==
    /\ upload.started < MaxSubmits
    /\ UploadIs([upload EXCEPT !.pending = @ + 1, !.started = @ + 1, !.enabled = FALSE,
                               !.twice = @ \/ upload.pending > 0])

\* _onIframeLoad(), but not for the "about:blank" that the iframe has at first.
IframeLoaded(blank) ==
    /\ upload.pending > 0
    /\ UploadIs(IF blank THEN upload ELSE [upload EXCEPT !.pending = @ - 1, !.enabled = TRUE])
------------------------------------------------------------------------------
MailIs(m) ==
    /\ script = "mail" /\ mail' = m
    /\ UNCHANGED <<script, form, upload, saveButton, sideMenu, packages>>

\* accountChange(): the label keeps the account that was removed.
AccountChange(account) ==
    MailIs([account |-> account, inForm |-> account,
            label |-> IF account = "none" THEN mail.label ELSE account,
            shown |-> IF account = "none" THEN {"none", "managed"}
                      ELSE {"account", IF account = "unmanaged" THEN "unmanaged" ELSE "managed"}])

TypeMail(account) == MailIs([mail EXCEPT !.inForm = account])

\* editFormWillRemoveAccount(), before the form is sent
FormWillRemoveAccount ==
    /\ "unmanaged" \notin mail.shown /\ "none" \notin mail.shown
    /\ mail.inForm # mail.label
------------------------------------------------------------------------------
SaveButtonIs(b) ==
    /\ script = "saveButton" /\ saveButton' = b
    /\ UNCHANGED <<script, form, upload, mail, sideMenu, packages>>

\* A change made in the page: it asks for the state when the server has answered.
ChangeMade ==
    /\ saveButton.asked < MaxSubmits
    /\ SaveButtonIs([saveButton EXCEPT !.unsaved = TRUE, !.elsewhere = FALSE, !.asked = @ + 1,
                     !.pending = @ \union {[no |-> saveButton.asked + 1, answer |-> "none"]}])

ChangesSavedElsewhere ==
    /\ saveButton.unsaved /\ SaveButtonIs([saveButton EXCEPT !.unsaved = FALSE, !.elsewhere = TRUE])

HasUnsavedChanges(r) ==
    /\ r \in saveButton.pending /\ r.answer = "none"
    /\ SaveButtonIs([saveButton EXCEPT !.pending =
           (@ \ {r}) \union {[r EXCEPT !.answer = IF saveButton.unsaved THEN "yes" ELSE "no"]}])

\* setSaveChangesButton(), with whatever answer comes.
SetSaveChangesButton(r) ==
    /\ r \in saveButton.pending /\ r.answer # "none"
    /\ SaveButtonIs([saveButton EXCEPT !.changed = r.answer = "yes", !.pending = @ \ {r},
                     !.overtaken = @ \/ \E q \in saveButton.pending : q.no < r.no])
------------------------------------------------------------------------------
MenuIs(m) ==
    /\ script = "menu" /\ sideMenu' = m
    /\ UNCHANGED <<script, form, upload, mail, saveButton, packages>>

MenuOpen(m, name) == [m EXCEPT !.shown = name, !.open = @ \union {name}, !.despleg = @ \union {name}]
OnlySlidUp(m, name) == [m EXCEPT !.open = @ \ {name}] \* mutant
MenuClose(m, name) == [m EXCEPT !.open = @ \ {name}, !.despleg = @ \ {name}]

ShowMenu(name) ==
    MenuIs(IF sideMenu.shown = name THEN MenuClose([sideMenu EXCEPT !.shown = "none"], name)
           ELSE IF sideMenu.shown # "none" THEN MenuOpen(MenuClose(sideMenu, sideMenu.shown), name)
           ELSE IF name \in sideMenu.despleg THEN MenuClose(sideMenu, name)
           ELSE MenuOpen(sideMenu, name))
------------------------------------------------------------------------------
PackagesAre(p) ==
    /\ script = "packages" /\ packages' = p
    /\ UNCHANGED <<script, form, upload, mail, saveButton, sideMenu>>

\* updateActionButton(): the box in the head of the table counts too.
UpdateActionButton(p) == [p EXCEPT !.enabled = p.all \/ p.ticked # {}]

\* togglePackage(), of the icons of the basic mode
TogglePackage(p) ==
    PackagesAre([packages EXCEPT !.selected = IF p \in @ THEN @ \ {p} ELSE @ \union {p}])

\* The box of a row that is shown
TickPackage(p) ==
    /\ p \notin packages.hidden
    /\ PackagesAre(UpdateActionButton([packages EXCEPT !.ticked = IF p \in @ THEN @ \ {p} ELSE @ \union {p}]))

\* checkAll(): the rows that the filter hides as well.
CheckAllPackages ==
    PackagesAre(UpdateActionButton([packages EXCEPT !.all = ~@, !.ticked = IF packages.all THEN {} ELSE Package]))

FilterTable(matching) == PackagesAre([packages EXCEPT !.hidden = Package \ matching])

\* _sendFormPackagesList(): nothing is sent without packages.
SendPackages(list) == list # {} /\ PackagesAre([packages EXCEPT !.sent = list])
SendForm == packages.enabled /\ SendPackages(packages.ticked)
SendFormBasic == SendPackages(packages.selected)
------------------------------------------------------------------------------
ScriptsNext ==
    \/ SubmitForm
    \/ \E div \in {{}, {"note"}, {"error"}} : FormAnswered(div)
    \/ ChooseFile
    \/ \E blank \in BOOLEAN : IframeLoaded(blank)
    \/ \E account \in {"none", "managed", "unmanaged"} : AccountChange(account) \/ TypeMail(account)
    \/ ChangeMade \/ ChangesSavedElsewhere
    \/ \E r \in saveButton.pending : HasUnsavedChanges(r) \/ SetSaveChangesButton(r)
    \/ \E name \in Folder : ShowMenu(name)
    \/ \E p \in Package : TogglePackage(p) \/ TickPackage(p)
    \/ CheckAllPackages \/ SendForm \/ SendFormBasic
    \/ \E matching \in SUBSET Package : FilterTable(matching)

ScriptsSpec == ScriptsInit /\ [][ScriptsNext]_scriptVars
------------------------------------------------------------------------------
ScriptsTypeOK ==
    /\ form.button \in {"label", "spinner"} /\ form.saved \in {"none", "label", "spinner"}
    /\ packages.ticked \subseteq Package /\ sideMenu.despleg \subseteq Folder

\* Whatever the order of clicks and answers: a form that was not sent twice at
\* once has its button back when it is answered, and tells one thing; a file is
\* not restored while it is uploaded, unless another one was chosen meanwhile; the
\* account of a user is not taken away by the form unnoticed; when no answer is
\* to come, and none overtook another, the button tells of changes that were made
\* in the page; the left menu has at most the folder that was chosen last open
\* beside that of the page, and marks what is open; and packages that are ticked
\* can be sent.
ScriptsHold ==
    /\ ~form.twice => /\ form.button = IF form.pending = 0 THEN "label" ELSE "spinner"
                      /\ Cardinality(form.shown) <= IF form.pending = 0 THEN 1 ELSE 0
    /\ ~upload.twice => upload.enabled = (upload.pending = 0)
    /\ FormWillRemoveAccount <=> mail.account = "managed" /\ mail.inForm # mail.account
    /\ saveButton.pending = {} /\ ~saveButton.overtaken /\ ~saveButton.elsewhere =>
           saveButton.changed = saveButton.unsaved
    /\ sideMenu.open = sideMenu.despleg /\ sideMenu.open \subseteq {sideMenu.shown, "core"}
    /\ packages.ticked # {} => packages.enabled

==============================================================================
