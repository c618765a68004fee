------------------------------- MODULE MCService --------------------------------
(***************************************************************************)
(* Instances of the start-up for TLC.                                      *)
(***************************************************************************)
EXTENDS Service, TLC

CONSTANTS
    kGood, kOther, kBad,  \* key strings; kBad is no base64 of 32 bytes
    pw,                   \* a password
    ip, home, lan         \* hosts: an address, a target, a name of the network

Secret(k, p) == [key |-> k, password |-> p]

Targets == [h \in Hosts |-> IF h = home THEN ip ELSE None]

Draft(secrets, peers, poll) ==
    [encryption |-> secrets, default |-> ip, named |-> Targets,
     peers |-> peers, poll |-> poll]

\* A complete file, and files with one mistake each.
AllDrafts == {Draft(Secret(kGood, None), {home}, 500), Draft(Secret(kBad, pw), {home}, 500),
              Draft(NoSecrets, {home}, 500), Draft(Secret(None, pw), {home, lan}, 500),
              Draft(Secret(None, pw), {ip}, 0)}

OneDraft == {Draft(Secret(kGood, None), {home}, 500)}

NoVariables  == {NoSecrets}
SomeEnvirons == {NoSecrets, Secret(kOther, None)}

SomeInvocations ==
    {[args |-> NoSecrets, host |-> home], [args |-> Secret(None, pw), host |-> DefaultName]}

Desk(wayland, x11, wl, xclip, wsl) ==
    [wayland |-> wayland, x11 |-> x11, wl |-> wl, xclip |-> xclip, wsl |-> wsl]

\* Before the session, in it with the tools for X11 only, and with all tools.
SomeDesktops == {Desk(FALSE, FALSE, FALSE, TRUE, FALSE), Desk(TRUE, TRUE, FALSE, TRUE, FALSE),
                 Desk(TRUE, TRUE, TRUE, TRUE, FALSE), Desk(FALSE, TRUE, TRUE, FALSE, TRUE)}

Limits(edit, init, send, stop, crash, prt, tools) ==
    [x \in BudgetKinds |->
        CASE x = "edit"  -> edit
          [] x = "init"  -> init
          [] x = "send"  -> send
          [] x = "stop"  -> stop
          [] x = "crash" -> crash
          [] x = "port"  -> prt
          [] x = "tools" -> tools]

TwoEdits == Limits(2, 1, 1, 1, 1, 1, 1)
OneSend  == Limits(1, 0, 1, 0, 0, 0, 0)
=============================================================================
