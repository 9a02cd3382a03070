------------------------------ MODULE MCSetup -------------------------------
(* How a session begins, for TLC: Connect finds or installs a stub, and    *)
(* Launch has it start the command.  Launch begins when Connect is done    *)
(* and uses nothing of it but the connection, so a behaviour is one of one *)
(* of them, while the other keeps a first state.                           *)
EXTENDS Connect, Launch

VARIABLE component

----------------------------------------------------------------------------
(* Two clients of different builds.                                        *)
MCVer == [c \in Clients |-> c]

MCRequests ==
  "a" :> {[user |-> "app", transport |-> "tcp"], [user |-> "root", transport |-> "shell"]} @@
  "b" :> {[user |-> "app", transport |-> "unix"], [user |-> "shell", transport |-> "tcp"]}

PlainDevice ==
  [api |-> 23, oldAdb |-> FALSE, uid |-> "shell", abi |-> 1, mv |-> TRUE, selinux |-> TRUE,
   runas |-> "", su |-> TRUE, net |-> TRUE, bind |-> TRUE, service |-> FALSE]

(* A recent device, an old one, and variations that other code deals with. *)
MCDevices ==
  { PlainDevice,
    [PlainDevice EXCEPT !.api = 17, !.oldAdb = TRUE, !.mv = FALSE],
    [PlainDevice EXCEPT !.api = 19, !.oldAdb = TRUE, !.bind = FALSE, !.selinux = FALSE, !.abi = 2],
    [PlainDevice EXCEPT !.runas = "unknown", !.service = TRUE, !.su = FALSE],
    [PlainDevice EXCEPT !.runas = "notPermitted", !.uid = "root", !.net = FALSE, !.abi = 3] }

----------------------------------------------------------------------------
(* What is to be started.                                                  *)
PlainJob ==
  [uenvops |-> <<>>, forwarded |-> <<>>, chdir |-> Null, exename |-> Null, command |-> "cmd",
   args |-> <<>>, candidates |-> <<>>, ttys |-> {}, termops |-> <<>>, clientBits |-> <<>>,
   stubBits |-> <<>>]

MCDeviceEnv == <<[name |-> "PATH", value |-> "p"], [name |-> "TERM", value |-> "t"]>>

(* Environments: up to three operations, TERM forwarded or not.              *)
EnvOps ==
  {Clear} \cup {Unset(n) : n \in {"TERM", "HUGE"}}
          \cup {Set(n, v) : n \in {"TERM", "HUGE"}, v \in {"v", "huge"}}
EnvJobs ==
  {[PlainJob EXCEPT !.uenvops = ops, !.forwarded = f] :
     ops \in SeqOf(EnvOps, 3), f \in {<<>>, <<Set("TERM", "xterm")>>}}

(* The commands that shex_main_common serves, with their options.          *)
Options == {[PlainJob EXCEPT !.chdir = d, !.exename = x] : d \in {Null, "dir"}, x \in {Null, "exe"}}
Candidates ==
  {[opens |-> FALSE, fits |-> FALSE, file |-> Null], [opens |-> TRUE, fits |-> FALSE, file |-> "alien"],
   [opens |-> TRUE, fits |-> TRUE, file |-> "prog"], [opens |-> TRUE, fits |-> TRUE, file |-> "other"]}
Args == {<<>>, <<"-x", "huge">>}

ArgJobs ==
  {shell_main(o, script) : o \in Options, script \in {Null, "script", "huge"}} \cup
  {rcmd_main(o, c, a) : o \in Options, c \in {"cmd", "huge"}, a \in Args} \cup
  {rcmd_self_main(o, a) : o \in Options, a \in Args} \cup
  {xcmd_main(o, "cmd", g, p, <<"-x">>) :
     <<o, g, p>> \in {t \in Options \X SeqOf(Candidates, 1) \X SeqOf(Candidates, 1) :
                        ~xcmd_usage_error(t[1], t[2], t[3])}}

(* Terminals: each side knows some of four settings.                       *)
Thing(n) == IF n \in {2, 4} THEN "oflag" ELSE "iflag"
Bits(S) == [i \in DOMAIN SetToSortSeq(S, <) |->
              [name |-> SetToSortSeq(S, <)[i], thing |-> Thing(SetToSortSeq(S, <)[i])]]
PtyJobs ==
  {[PlainJob EXCEPT !.ttys = t, !.termops = <<"force-tty">>, !.clientBits = Bits(c), !.stubBits = Bits(s)] :
     t \in {{}, {0}, {2}, {0, 1, 2}}, c \in {{1, 2, 3, 4}, {1, 4}, {2, 3}}, s \in SUBSET {1, 2, 3, 4}}


(* Which descriptors are terminals, and up to three terminal options.      *)
TermJobs ==
  {[j EXCEPT !.ttys = t, !.termops = o, !.clientBits = Bits({1, 2, 3}), !.stubBits = Bits({1, 2, 4})] :
     j \in {PlainJob, shell_main(PlainJob, Null)}, t \in SUBSET (0..2),
     o \in SeqOf({"force-tty", "disable-tty"}, 3)}

MCJobs == EnvJobs \cup ArgJobs \cup PtyJobs \cup TermJobs

----------------------------------------------------------------------------
ConnectIdle ==
  /\ dev = PlainDevice /\ file = "none"
  /\ req = [c \in Clients |-> CHOOSE r \in Requests[c] : TRUE]
  /\ ConnectInit
LaunchIdle == job = PlainJob /\ LaunchInit

MCInit ==
  \/ component = "connect" /\ ConnectInit /\ LaunchIdle
  \/ component = "launch" /\ ConnectIdle /\ LaunchInit

MCNext ==
  /\ UNCHANGED component
  /\ \/ component = "connect" /\ ConnectNext /\ UNCHANGED launchvars
     \/ component = "launch" /\ LaunchNext /\ UNCHANGED connvars

MCSpec ==
  /\ MCInit /\ [][MCNext]_<<component, connvars, launchvars>>
  /\ \A c \in Clients : /\ WF_connvars(component = "connect" /\ ClientStep(c))
                         /\ WF_connvars(component = "connect" /\ StubStep(c))
  /\ WF_launchvars(component = "launch" /\ ShexStep)
  /\ WF_launchvars(component = "launch" /\ ChildSetupStep)

(* Every client connects or gives up, and every command is started or      *)
(* given up (Settles of Connect, Launches of Launch).                      *)
MCSettles == component = "connect" => Settles
MCLaunches == component = "launch" => Launches
============================================================================
