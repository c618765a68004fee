------------------------------ MODULE ServiceProofs ------------------------------
(***************************************************************************)
(* What the start of the commands keeps for every configuration, argument, *)
(* variable and desktop, however often the daemon fails.                   *)
(***************************************************************************)
EXTENDS Service, TLAPS

\* What the checks of a launch found stays true of what it read, because a
\* process keeps its variables and reads the file once.
LaunchChecked ==
    /\ proc # "none" => MayStart(conf)
    /\ proc = "running" => conf.poll > 0

LEMMA LoadType == ASSUME file \in Files PROVE load(file) \in Setting
  <1>1. DefaultConfig \in Setting
    BY DEF DefaultConfig, Setting, Secrets, NoSecrets
  <1> QED
    BY <1>1 DEF load, Files

LEMMA SpendType ==
    ASSUME spent \in [BudgetKinds -> Nat], NEW b \in BudgetKinds, Spend(b)
    PROVE  spent' \in [BudgetKinds -> Nat]
  BY DEF Spend

LEMMA ClipboardType == \A d : create_clipboard(d) \in {"Wayland", "X11", "Wsl"}
  BY DEF create_clipboard, detect_display_server

\* A start of systemd keeps the types.
LEMMA SystemdTypes ==
    ASSUME STypeOK, Systemd
    PROVE  STypeOK'
  <1> USE DEF STypeOK
  <1>1. CASE Launch
    BY <1>1, LoadType DEF Launch, user
  <1>2. CASE LaunchFails
    BY <1>2 DEF LaunchFails, Fails, user
  <1>3. CASE Bind
    BY <1>3, ClipboardType DEF Bind, user
  <1>4. CASE BindFails
    BY <1>4 DEF BindFails, Fails, user
  <1>5. CASE Restart
    BY <1>5 DEF Restart, user
  <1> QED
    BY <1>1, <1>2, <1>3, <1>4, <1>5 DEF Systemd

LEMMA OthersTypes ==
    ASSUME STypeOK, Others
    PROVE  STypeOK'
  <1> USE DEF STypeOK
  <1>1. CASE StartUnit
    BY <1>1 DEF StartUnit
  <1>2. CASE StopUnit
    <2>1. spent' \in [BudgetKinds -> Nat]
      BY <1>2, SpendType DEF StopUnit, BudgetKinds
    <2> QED
      BY <1>2, <2>1 DEF StopUnit, Released
  <1>3. CASE Crash
    <2>1. spent' \in [BudgetKinds -> Nat]
      BY <1>3, SpendType DEF Crash, BudgetKinds
    <2> QED
      BY <1>3, <2>1 DEF Crash, Fails, Released, user
  <1>4. CASE TakePort
    <2>1. spent' \in [BudgetKinds -> Nat]
      BY <1>4, SpendType DEF TakePort, BudgetKinds
    <2> QED
      BY <1>4, <2>1 DEF TakePort, user
  <1>5. CASE LeavePort
    BY <1>5 DEF LeavePort, user
  <1>6. CASE InitWrite
    <2>1. DefaultConfig \in Files
      BY DEF DefaultConfig, Files, Setting, Secrets, NoSecrets
    <2> QED
      BY <1>6, <2>1 DEF InitWrite, daemon
  <1>7. ASSUME NEW f \in Drafts \cup {Absent, Broken}, Edit(f)
        PROVE  STypeOK'
    <2>1. spent' \in [BudgetKinds -> Nat]
      BY <1>7, SpendType DEF Edit, BudgetKinds
    <2>2. f \in Files
      BY ServiceAssumption DEF Files
    <2> QED
      BY <1>7, <2>1, <2>2 DEF Edit, daemon
  <1>8. ASSUME NEW force \in BOOLEAN, NEW i \in Invocations, InitCheck(force, i.args)
        PROVE  STypeOK'
    <2>1. spent' \in [BudgetKinds -> Nat]
      BY <1>8, SpendType DEF InitCheck, BudgetKinds
    <2> QED
      BY <1>8, <2>1 DEF InitCheck, daemon
  <1>9. ASSUME NEW i \in Invocations, Send(i)
        PROVE  STypeOK'
    <2>1. spent' \in [BudgetKinds -> Nat]
      BY <1>9, SpendType DEF Send, BudgetKinds
    <2> QED
      BY <1>9, <2>1 DEF Send, user, daemon
  <1>10. ASSUME NEW d \in Desktops, DesktopChanges(d)
         PROVE  STypeOK'
    <2>1. spent' \in [BudgetKinds -> Nat]
      BY <1>10, SpendType DEF DesktopChanges, BudgetKinds
    <2> QED
      BY <1>10, <2>1 DEF DesktopChanges, daemon
  <1> QED
    BY <1>1, <1>2, <1>3, <1>4, <1>5, <1>6, <1>7, <1>8, <1>9, <1>10 DEF Others

\* THE TYPE INVARIANT of the start-up.
THEOREM ServiceTypes == Spec => []STypeOK
  <1>1. Init => STypeOK
    <2> SUFFICES ASSUME Init
                 PROVE  STypeOK
      OBVIOUS
    <2>1. DefaultConfig \in Setting
      BY DEF DefaultConfig, Setting, Secrets, NoSecrets
    <2> QED
      BY <2>1, ClipboardType DEF Init, STypeOK, Files
  <1>2. STypeOK /\ [Next]_vars => STypeOK'
    BY SystemdTypes, OthersTypes DEF Next, STypeOK, vars, user, daemon
  <1> QED
    BY <1>1, <1>2, PTL DEF Spec

-----------------------------------------------------------------------------
(* A step leaves the variables of the processes alone, and what a process  *)
(* has read.                                                               *)

LEMMA EnvironmentKept == [Next]_vars => UNCHANGED env
  BY DEF Next, Systemd, Others, Launch, LaunchFails, Bind, BindFails, Restart, StartUnit,
         StopUnit, Crash, TakePort, LeavePort, InitWrite, Edit, InitCheck, Send,
         DesktopChanges, vars, user

LEMMA LaunchCheckedStep == LaunchChecked /\ [Next]_vars => LaunchChecked'
  <1> SUFFICES ASSUME LaunchChecked, [Next]_vars
               PROVE  LaunchChecked'
    OBVIOUS
  <1> USE DEF LaunchChecked
  <1>1. UNCHANGED env
    BY EnvironmentKept
  <1>2. ASSUME UNCHANGED conf
        PROVE  MayStart(conf)' <=> MayStart(conf)
    BY <1>1, <1>2 DEF MayStart, DaemonKey, DaemonPeers
  <1>3. CASE Launch
    <2>1. MayStart(conf)' /\ proc' = "binding"
      BY <1>1, <1>3 DEF Launch, MayStart, DaemonKey, DaemonPeers
    <2> QED
      BY <2>1
  <1>4. CASE Bind
    BY <1>2, <1>4 DEF Bind
  <1>5. CASE proc' = "none"
    BY <1>5
  <1>6. CASE UNCHANGED <<proc, conf>>
    BY <1>2, <1>6
  <1> QED
    BY <1>3, <1>4, <1>5, <1>6
    DEF Next, Systemd, Others, LaunchFails, BindFails, Fails, Restart, StartUnit, StopUnit,
        Crash, TakePort, LeavePort, InitWrite, Edit, InitCheck, Send, DesktopChanges,
        vars, daemon

\* A DAEMON THAT RUNS CAN SYNC, whatever the configuration, which may change while
\* it runs (Commands::Daemon).
THEOREM RunningIsChecked == Spec => []RunsWhatItNeeds
  <1>1. Init => LaunchChecked
    BY DEF Init, LaunchChecked
  <1>2. LaunchChecked => RunsWhatItNeeds
    BY DEF LaunchChecked, RunsWhatItNeeds, MayStart
  <1> QED
    BY <1>1, <1>2, LaunchCheckedStep, PTL DEF Spec

-----------------------------------------------------------------------------
(* Secrets.                                                                *)

\* A source without a key has no secret.
LEMMA NoKeyNoSecret ==
    ASSUME NEW s \in Secrets, KeyOf(s) = None
    PROVE  ~HasSecret(s)
  BY ServiceAssumption DEF KeyOf, HasSecret, Secrets

LEMMA GivenType ==
    ASSUME NEW a \in Secrets, NEW v \in Secrets
    PROVE  /\ Given(a, v) \in Secrets
           /\ HasSecret(a) \/ HasSecret(v) => HasSecret(Given(a, v))
  BY DEF Given, Secrets, HasSecret

\* A SECRET IS USED wherever it stands, for every argument, variable and file that
\* can be read (main.rs get_key).
THEOREM SecretsAreUsed == Spec => []SealedIfPossible
  <1>1. Init => SealedIfPossible
    BY DEF Init, SealedIfPossible
  <1>2. STypeOK /\ SealedIfPossible /\ [Next]_vars => SealedIfPossible'
    <2> SUFFICES ASSUME STypeOK, SealedIfPossible, [Next]_vars
                 PROVE  SealedIfPossible'
      OBVIOUS
    <2>1. UNCHANGED env /\ env \in Secrets
      BY EnvironmentKept, ServiceAssumption DEF STypeOK
    <2>2. ASSUME NEW i \in Invocations, Send(i), sent'.key = None
          PROVE  /\ ~HasSecret(sent'.args) /\ ~HasSecret(env)
                 /\ sent'.file \in {Absent, Broken} \/ ~HasSecret(sent'.file.encryption)
      <3> DEFINE c == load(file)
      <3>1. /\ sent'.args = i.args /\ sent'.file = file
            /\ get_key(i.args, env, c) = None
        BY <2>2 DEF Send
      <3>2. i.args \in Secrets /\ c.encryption \in Secrets
        BY LoadType, ServiceAssumption DEF STypeOK, Invocation, Setting
      <3>3. KeyOf(Given(i.args, env)) = None /\ KeyOf(c.encryption) = None
        BY <3>1 DEF get_key
      <3>4. ~HasSecret(i.args) /\ ~HasSecret(env)
        BY <2>1, <3>2, <3>3, NoKeyNoSecret, GivenType
      <3>5. ~HasSecret(c.encryption)
        BY <3>2, <3>3, NoKeyNoSecret
      <3> QED
        BY <3>1, <3>4, <3>5 DEF load
    <2>3. CASE UNCHANGED sent
      BY <2>1, <2>3 DEF SealedIfPossible
    <2>4. CASE \E i \in Invocations : Send(i)
      BY <2>1, <2>2, <2>4 DEF SealedIfPossible
    <2> QED
      BY <2>3, <2>4
      DEF Next, Systemd, Others, Launch, LaunchFails, Bind, BindFails, Restart, StartUnit,
          StopUnit, Crash, TakePort, LeavePort, InitWrite, Edit, InitCheck, DesktopChanges, vars
  <1> QED
    BY <1>1, <1>2, ServiceTypes, PTL DEF Spec

-----------------------------------------------------------------------------
(* The clipboard.                                                          *)

LEMMA ClipboardWorks ==
    ASSUME NEW d \in Desktop, Working(d) # {}
    PROVE  create_clipboard(d) \in Working(d)
  BY DEF Working, create_clipboard, detect_display_server, Desktop

\* THE CLIPBOARD THAT WORKS IS TAKEN, on every desktop and with every set of tools
\* (clipboard.rs detect_display_server, create_clipboard).
THEOREM WorkingIsPicked == Spec => PicksWhatWorks
  <1>1. STypeOK /\ [Next]_vars =>
            (proc' = "running" /\ proc # "running" /\ Working(View) # {}
                => backend' \in Working(View)) \/ UNCHANGED vars
    <2> SUFFICES ASSUME STypeOK, Next, proc' = "running", proc # "running",
                        Working(View) # {}
                 PROVE  backend' \in Working(View)
      OBVIOUS
    <2>1. Bind
      BY DEF Next, Systemd, Others, Launch, LaunchFails, BindFails, Fails, Restart, StartUnit,
             StopUnit, Crash, TakePort, LeavePort, InitWrite, Edit, InitCheck, Send,
             DesktopChanges, daemon
    <2>2. View \in Desktop
      BY ServiceAssumption DEF STypeOK, View, Desktop
    <2> QED
      BY <2>1, <2>2, ClipboardWorks DEF Bind
  <1> QED
    BY <1>1, ServiceTypes, PTL DEF Spec, PicksWhatWorks
=============================================================================
