-------------------------------- MODULE Service ---------------------------------
(***************************************************************************)
(* The start of the commands of one user on one host: the configuration    *)
(* file (cb-core/src/config.rs), what the command line makes of it         *)
(* (cb-cli/src/main.rs), the choice of the clipboard                       *)
(* (cb-core/src/clipboard.rs), and `cb-sync daemon' under systemd          *)
(* (contrib/systemd/cb-sync.service).                                      *)
(*                                                                         *)
(* A string is an atom; whether the address parser, or the base64 decoder, *)
(* accepts it is a constant.                                               *)
(***************************************************************************)
EXTENDS Naturals, FiniteSets

CONSTANTS
    KeyStrings,  \* strings given as keys
    GoodKeys,    \* those of them that key_from_base64 accepts
    Passwords,   \* strings given as passwords
    Hosts,       \* strings given as hosts; targets may be named after them
    Addresses,   \* those that SocketAddr::parse accepts, with the port added
    DefaultName, \* the target "default", or an empty one
    Drafts,      \* the configurations that the user may write
    Invocations, \* the arguments with which the user may run cb-sync
    Desktops,    \* what processes may find of the desktop
    Environs,    \* the CB_SYNC_KEY and CB_SYNC_PASSWORD there may be
    Absent, Broken,  \* no file; a file that cannot be read or parsed
    None, Error,
    Budget       \* bounds: what the user and other processes do

BudgetKinds == {"edit", "init", "send", "stop", "crash", "port", "tools"}

\* The secrets that one source gives: --key and --password, the two variables,
\* or the two entries of the section [encryption].
Secrets == [key : KeyStrings \cup {None}, password : Passwords \cup {None}]

Setting == [encryption : Secrets, default : Hosts \cup {None},
            named : [Hosts -> Hosts \cup {None}],
            peers : SUBSET (Hosts \cup {DefaultName}), poll : Nat]

Invocation == [args : Secrets, host : Hosts \cup {DefaultName}]

\* the variables that name a display, the installed tools, the kernel
Desktop == [wayland : BOOLEAN, x11 : BOOLEAN, wl : BOOLEAN, xclip : BOOLEAN, wsl : BOOLEAN]

NoSecrets == [key |-> None, password |-> None]

\* Config::default, which is also what Config::example and an empty file say
DefaultConfig ==
    [encryption |-> NoSecrets, default |-> None,
     named |-> [h \in Hosts |-> None], peers |-> {}, poll |-> 500]

ASSUME ServiceAssumption ==
    /\ GoodKeys \subseteq KeyStrings /\ Addresses \subseteq Hosts
    /\ None \notin KeyStrings \cup Passwords \cup Hosts
    /\ Error \notin Hosts \cup {None}
    /\ \A x \in KeyStrings : <<"key", x>> # None
    /\ \A x \in Passwords : <<"password", x>> # None
    /\ DefaultName \notin Hosts
    /\ Drafts \subseteq Setting /\ Absent \notin Setting /\ Broken \notin Setting
    /\ Absent # Broken
    /\ Invocations \subseteq Invocation
    /\ Environs \subseteq Secrets
    /\ Desktops \subseteq Desktop
    /\ Budget \in [BudgetKinds -> Nat]

-----------------------------------------------------------------------------
(* Config and the functions of main.rs that read it.                       *)

\* Config::load: every error of load_from is dropped.
load(f) == IF f \in {Absent, Broken} THEN DefaultConfig ELSE f

\* clap: an argument that is not given is taken from its variable.
Given(args, env) ==
    [key      |-> IF args.key # None THEN args.key ELSE env.key,
     password |-> IF args.password # None THEN args.password ELSE env.password]

\* Fault variant of KeyOf: the password is forgotten.
KeyOfKeyOnly(s) ==
    IF s.key = None THEN None ELSE IF s.key \in GoodKeys THEN <<"key", s.key>> ELSE Error

\* A source yields its key if it has one, and else its password.
KeyOf(s) ==
    IF s.key # None
    THEN IF s.key \in GoodKeys THEN <<"key", s.key>> ELSE Error
    ELSE IF s.password # None THEN <<"password", s.password>> ELSE None

get_key(args, env, config) ==
    IF KeyOf(Given(args, env)) # None THEN KeyOf(Given(args, env))
    ELSE KeyOf(config.encryption)

parse_addr(h) == IF h \in Addresses THEN h ELSE Error

resolve_target(t, config) ==
    IF t = DefaultName
    THEN IF config.default = None THEN Error ELSE parse_addr(config.default)
    ELSE parse_addr(IF config.named[t] # None THEN config.named[t] ELSE t)

-----------------------------------------------------------------------------
(* The choice of the clipboard.                                            *)

\* Fault variant of detect_display_server: the tools are not looked for.
detect_display_serverByVariable(d) ==
    IF d.wayland THEN "Wayland"
    ELSE IF d.x11 THEN "X11" ELSE IF d.wsl THEN "Wsl" ELSE "Unknown"

detect_display_server(d) ==
    IF d.wayland /\ d.wl THEN "Wayland"
    ELSE IF d.x11 /\ d.xclip THEN "X11" ELSE IF d.wsl THEN "Wsl" ELSE "Unknown"

create_clipboard(d) ==
    IF detect_display_server(d) # "Unknown" THEN detect_display_server(d)
    ELSE IF d.wsl THEN "Wsl" ELSE IF d.wl THEN "Wayland" ELSE "X11"

\* the backends whose commands can succeed
Working(d) ==
    {b \in {"Wayland", "X11", "Wsl"} :
        CASE b = "Wayland" -> d.wayland /\ d.wl
          [] b = "X11"     -> d.x11 /\ d.xclip
          [] b = "Wsl"     -> d.wsl}

-----------------------------------------------------------------------------
VARIABLES
    file,     \* the configuration file
    initing,  \* `config init' has found that it may write
    env,      \* the variables of the user's processes
    desk,     \* what a process started now finds of the desktop
    wanted,   \* the user has started the unit and not stopped it since
    unit,     \* systemd: inactive, active, or waiting to restart
    proc,     \* the process of the daemon
    conf,     \* the configuration it has read
    seen,     \* the desktop, with the variables it was started with
    backend,  \* the clipboard that its main loop polls
    port,     \* who listens on the port
    sent,     \* the last content that `cb-sync send' has sent, or None
    spent     \* how much of Budget is used

user   == <<file, initing, env, desk, wanted>>
daemon == <<unit, proc, conf, seen, backend, port>>
vars   == <<user, daemon, sent, spent>>

Files == Setting \cup {Absent, Broken}

STypeOK ==
    /\ file \in Files
    /\ initing \in BOOLEAN
    /\ env \in Environs
    /\ desk \in Desktops /\ seen \in Desktops
    /\ wanted \in BOOLEAN
    /\ unit \in {"inactive", "active", "waiting"}
    /\ proc \in {"none", "binding", "running"}
    /\ conf \in Setting
    /\ backend \in {"Wayland", "X11", "Wsl"}
    /\ port \in {"free", "daemon", "other"}
    /\ port = "daemon" <=> proc = "running"
    /\ proc # "none" => unit = "active"
    /\ spent \in [BudgetKinds -> Nat]

Init ==
    /\ file = Absent
    /\ initing = FALSE
    /\ env \in Environs
    /\ desk \in Desktops /\ seen = desk
    /\ wanted = FALSE
    /\ unit = "inactive"
    /\ proc = "none"
    /\ conf = DefaultConfig
    /\ backend = create_clipboard(desk)
    /\ port = "free"
    /\ sent = None
    /\ spent = [b \in BudgetKinds |-> 0]

Spend(b) == spent[b] < Budget[b] /\ spent' = [spent EXCEPT ![b] = @ + 1]

-----------------------------------------------------------------------------
(* The daemon (Commands::Daemon, Daemon::new and run) and its unit.        *)

DaemonKey(c)   == get_key(NoSecrets, env, c)
DaemonPeers(c) == {resolve_target(p, c) : p \in c.peers}

\* Fault variant of MayStart: no key is asked for.
MayStartUnsealed(c) ==
    DaemonKey(c) # Error /\ c.peers # {} /\ Error \notin DaemonPeers(c)

\* the checks before the daemon binds its address
MayStart(c) ==
    DaemonKey(c) \notin {None, Error} /\ c.peers # {} /\ Error \notin DaemonPeers(c)

\* Fault variant of Fails: the process stays.
FailsAndStays == unit' = "waiting" /\ UNCHANGED proc

\* The process ends with a failure to systemd: an error, a panic, a signal other
\* than SIGHUP, SIGINT, SIGTERM and SIGPIPE, after which the unit is stopped.
Fails == proc' = "none" /\ unit' = "waiting"

\* Fault variant of LaunchFails: main prints the error and returns Ok.
LaunchFailsOk ==
    /\ unit = "active" /\ proc = "none" /\ ~MayStart(load(file))
    /\ unit' = "inactive"
    /\ UNCHANGED <<user, proc, conf, seen, backend, port, sent, spent>>

LaunchFails ==
    /\ unit = "active" /\ proc = "none" /\ ~MayStart(load(file))
    /\ Fails
    /\ UNCHANGED <<user, conf, seen, backend, port, sent, spent>>

Launch ==
    /\ unit = "active" /\ proc = "none" /\ MayStart(load(file))
    /\ conf' = load(file)
    /\ seen' = desk
    /\ proc' = "binding"
    /\ UNCHANGED <<user, unit, backend, port, sent, spent>>

\* The variables are those of the launch, the tools those of now.
View == [desk EXCEPT !.wayland = seen.wayland, !.x11 = seen.x11]

\* create_clipboard, bind, and the interval of the polls.
Bind ==
    /\ proc = "binding" /\ port = "free" /\ conf.poll > 0
    /\ backend' = create_clipboard(View)
    /\ port' = "daemon"
    /\ proc' = "running"
    /\ UNCHANGED <<user, unit, conf, seen, sent, spent>>

\* The port is taken, or tokio's interval panics on a zero period.
BindFails ==
    /\ proc = "binding" /\ (port = "other" \/ conf.poll = 0)
    /\ Fails
    /\ UNCHANGED <<user, conf, seen, backend, port, sent, spent>>

Released == IF port = "daemon" THEN "free" ELSE port

Crash ==
    /\ proc # "none" /\ Spend("crash")
    /\ Fails
    /\ port' = Released
    /\ UNCHANGED <<user, conf, seen, backend, sent>>

\* Restart=on-failure after RestartSec; the five seconds stay clear of the
\* limit of systemd, five starts within ten seconds.
Restart ==
    /\ unit = "waiting"
    /\ unit' = "active"
    /\ UNCHANGED <<user, proc, conf, seen, backend, port, sent, spent>>

-----------------------------------------------------------------------------
(* The user, the session and other processes.                              *)

StartUnit ==
    /\ unit = "inactive"
    /\ unit' = "active"
    /\ wanted' = TRUE
    /\ UNCHANGED <<file, initing, env, desk, proc, conf, seen, backend, port, sent, spent>>

\* Ctrl+C, a stop of the unit, or a SIGTERM from whoever
StopUnit ==
    /\ unit # "inactive" /\ Spend("stop")
    /\ unit' = "inactive"
    /\ wanted' = FALSE
    /\ proc' = "none"
    /\ port' = Released
    /\ UNCHANGED <<file, initing, env, desk, conf, seen, backend, sent>>

Edit(f) ==
    /\ Spend("edit")
    /\ file' = f
    /\ UNCHANGED <<initing, env, desk, wanted, daemon, sent>>

\* `config init': the check, which comes after that of the secrets with which
\* main begins, and the write of the example.
InitCheck(force, args) ==
    /\ ~initing /\ Spend("init")
    /\ get_key(args, env, load(file)) # Error
    /\ file = Absent \/ force
    /\ initing' = TRUE
    /\ UNCHANGED <<file, env, desk, wanted, daemon, sent>>

InitWrite ==
    /\ initing
    /\ file' = DefaultConfig
    /\ initing' = FALSE
    /\ UNCHANGED <<env, desk, wanted, daemon, sent, spent>>

\* `cb-sync send', up to the transfer; an error ends it before anything is sent
Send(i) ==
    LET c == load(file)
        k == get_key(i.args, env, c)
        a == resolve_target(i.host, c)
    IN  /\ k # Error /\ a # Error
        /\ Spend("send")
        /\ sent' = [args |-> i.args, file |-> file, key |-> k, to |-> a]
        /\ UNCHANGED <<user, daemon>>

\* Another process, `cb-sync listen' for instance, takes the port and leaves it.
TakePort ==
    /\ port = "free" /\ Spend("port")
    /\ port' = "other"
    /\ UNCHANGED <<user, unit, proc, conf, seen, backend, sent>>

LeavePort ==
    /\ port = "other"
    /\ port' = "free"
    /\ UNCHANGED <<user, unit, proc, conf, seen, backend, sent, spent>>

\* The graphical session begins, or tools are installed.
DesktopChanges(d) ==
    /\ Spend("tools")
    /\ \A x \in DOMAIN d : desk[x] => d[x]
    /\ d # desk /\ d.wsl = desk.wsl
    /\ desk' = d
    /\ UNCHANGED <<file, initing, env, wanted, daemon, sent>>

-----------------------------------------------------------------------------
Systemd == Launch \/ LaunchFails \/ Bind \/ BindFails \/ Restart

Others ==
    \/ StartUnit \/ StopUnit \/ Crash \/ TakePort \/ LeavePort \/ InitWrite
    \/ \E f \in Drafts \cup {Absent, Broken} : Edit(f)
    \/ \E force \in BOOLEAN, i \in Invocations : InitCheck(force, i.args)
    \/ \E i \in Invocations : Send(i)
    \/ \E d \in Desktops : DesktopChanges(d)

Next == Systemd \/ Others

Spec == Init /\ [][Next]_vars

\* systemd starts what it has to start, and a start runs to its end.
FairSpec == Spec /\ WF_vars(Systemd)

-----------------------------------------------------------------------------
\* A DAEMON THAT RUNS CAN SYNC.  It has a key, peers whose addresses are known,
\* and polls, whatever the file has become meanwhile (Commands::Daemon: "Daemon
\* mode requires encryption").
RunsWhatItNeeds ==
    proc = "running" =>
        /\ DaemonKey(conf) \notin {None, Error}
        /\ conf.peers # {} /\ Error \notin DaemonPeers(conf)
        /\ conf.poll > 0

\* THE SERVICE COMES UP.  When the file says what the daemon needs, nobody else
\* has the port and the user wants the unit, the daemon runs in the end, however
\* often it has failed before: its failures are failures to systemd, which
\* starts it again.
Ready ==
    /\ wanted /\ port # "other"
    /\ MayStart(load(file)) /\ load(file).poll > 0

ServiceComesUp == <>[]Ready => <>[](proc = "running")

\* THE CLIPBOARD THAT WORKS IS TAKEN.  A daemon that starts polls a backend whose
\* commands can work, if there is any (detect_display_server).
PicksWhatWorks ==
    [][proc' = "running" /\ proc # "running" /\ Working(View) # {}
        => backend' \in Working(View)]_vars

\* A SECRET IS USED.  A content leaves in the clear only if neither the arguments
\* nor the variables nor a file that could be read have a secret (get_key).
HasSecret(s) == s.key # None \/ s.password # None

SealedIfPossible ==
    sent # None /\ sent.key = None =>
        /\ ~HasSecret(sent.args) /\ ~HasSecret(env)
        /\ sent.file \in {Absent, Broken} \/ ~HasSecret(sent.file.encryption)

\* ARGUMENTS COME FIRST: "Priority: CLI args > env vars > config file"
\* (main.rs:151).
PriorityKept ==
    sent # None /\ KeyOf(sent.args) # None => sent.key = KeyOf(sent.args)
=============================================================================
