\* Edits, faults and restarts in any order, on four desktops.
SPECIFICATION FairSpec

CONSTANTS
    kGood = kGood
    kOther = kOther
    kBad = kBad
    pw = pw
    ip = ip
    home = home
    lan = lan
    DefaultName = DefaultName
    Absent = Absent
    Broken = Broken
    None = None
    Error = Error
    KeyStrings = {kGood, kOther, kBad}
    GoodKeys = {kGood, kOther}
    Passwords = {pw}
    Hosts = {ip, home, lan}
    Addresses = {ip}
    Drafts <- AllDrafts
    Invocations <- SomeInvocations
    Desktops <- SomeDesktops
    Environs <- SomeEnvirons
    Budget <- TwoEdits

\* A daemon that runs, with nobody to disturb it, starts nothing any more.
CHECK_DEADLOCK FALSE
INVARIANT STypeOK
INVARIANT RunsWhatItNeeds
INVARIANT SealedIfPossible
PROPERTY PicksWhatWorks
PROPERTY ServiceComesUp
