\* One send, with a password as argument and a key in the environment.
SPECIFICATION FairSpec

CONSTANTS
    kGood = kGood
    kOther = kOther
    kBad = kBad
    pw = pw
    ip = ip
    home = home
    lan = lan
    DefaultName = DefaultName
    Absent = Absent
    Broken = Broken
    None = None
    Error = Error
    KeyStrings = {kGood, kOther, kBad}
    GoodKeys = {kGood, kOther}
    Passwords = {pw}
    Hosts = {ip, home, lan}
    Addresses = {ip}
    Drafts <- OneDraft
    Invocations <- SomeInvocations
    Desktops <- SomeDesktops
    Environs <- SomeEnvirons
    Budget <- OneSend

INVARIANT PriorityKept
