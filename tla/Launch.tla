------------------------------- MODULE Launch -------------------------------
(***************************************************************************)
(* From the hello message to the start of the child: shex sends the        *)
(* terminal settings, the directory, the program to execute (xcmd), the    *)
(* environment operations and the command line; stub reads them, sets up   *)
(* the pty and starts the child (shex_main_common, read_child_arglist,     *)
(* start_child, setup_pty, xenviron.c).                                    *)
(*                                                                         *)
(* An item of the wire is what one write puts there: a message, or the     *)
(* payload of a jumbo message.  Names, values and arguments are model      *)
(* values or strings; those in Big do not fit a message.                   *)
(***************************************************************************)
EXTENDS Naturals, Sequences, SequencesExt

CONSTANTS
  Jobs,        \* the commands to consider, see Asked below
  Big,         \* names, values and arguments that need a jumbo message
  Longer,      \* pairs <<n, m>> of names where m is n and some more letters
  DeviceEnv,   \* stub's own environment: a sequence of [name, value]
  MaxMeddles   \* bound: replacements of the cached program by others

VARIABLES
  job,      \* the command
  cpc,      \* where shex is: head, find, open, answer, upload, tail, done, gone
  wire,     \* items on their way to stub
  back,     \* answers on their way to shex
  st,       \* stub
  cached,   \* the program of that name in stub's directory
  meddles

launchvars == <<job, cpc, wire, back, st, cached, meddles>>

(***************************************************************************)
(* A job is [uenvops, forwarded, chdir, exename, command, args,            *)
(* candidates, ttys, termops, clientBits, stubBits]: the user's            *)
(* environment operations in order, the variables forwarded from shex's    *)
(* environment, the files that may be the program of xcmd (none for other  *)
(* commands), those of shex's descriptors 0, 1 and 2 that are terminals,   *)
(* the user's terminal options, and the sorted lists of terminal settings  *)
(* each side knows, of entries [name, thing].  A candidate is [opens,      *)
(* fits, file]: it can be opened, is an ELF file for the device, and what  *)
(* its contents are.                                                       *)
(***************************************************************************)
Null == "null"
Set(n, v) == [op |-> "set", name |-> n, value |-> v]
Unset(n) == [op |-> "unset", name |-> n, value |-> Null]
Clear == [op |-> "clear", name |-> Null, value |-> Null]

Item(type, a, b) == [type |-> type, a |-> a, b |-> b, nr_argv |-> 0, bits |-> <<>>, pty |-> {}]
Raw(a) == Item("raw", a, Null)

----------------------------------------------------------------------------
(* shex                                                                    *)

(* The commands fill in what is to be executed; script is the command and  *)
(* its arguments, quoted, in one string.                                   *)
shell_main(j, script) ==
  IF script = Null
  THEN [j EXCEPT !.exename = "ARG_DEFAULT_SH", !.command = "ARG_DEFAULT_SH_LOGIN", !.args = <<>>]
  ELSE [j EXCEPT !.command = "ARG_DEFAULT_SH", !.args = <<"-c", script>>]

rcmd_main(j, command, args) == [j EXCEPT !.command = command, !.args = args]

rcmd_self_main(j, args) ==
  [j EXCEPT !.exename = "/proc/self/exe", !.command = "ARG_CMDLINE_SELF_ARGV0", !.args = args]

(* The candidates given come before those of the directories in the path.  *)
(* A usage error (an exename, no candidate at all) is not a job.           *)
xcmd_usage_error(j, given, path) == j.exename # Null \/ given \o path = <<>>
xcmd_main(j, program, given, path, args) ==
  [j EXCEPT !.exename = "ARG_EXEC_FILE", !.command = program, !.args = args,
            !.candidates = given \o path]

(* The user's terminal options; by default only a login shell gets a pty.  *)
TtyOption(mode, op) ==
  CASE op = "disable-tty" -> "TTY_DISABLE"
    [] op = "force-tty" /\ mode = "TTY_ENABLE" -> "TTY_SUPER_ENABLE"
    [] op = "force-tty" /\ mode # "TTY_ENABLE" -> "TTY_ENABLE"

TtyMode(j) ==
  LET mode == FoldLeft(TtyOption, "TTY_AUTO", j.termops)
  IN  CASE mode # "TTY_AUTO" -> mode
        [] mode = "TTY_AUTO" /\ j.command = "ARG_DEFAULT_SH_LOGIN" -> "TTY_ENABLE"
        [] mode = "TTY_AUTO" /\ j.command # "ARG_DEFAULT_SH_LOGIN" -> "TTY_DISABLE"

(* The descriptors of the child that shall be a pty.                       *)
WantPty(j) ==
  CASE TtyMode(j) = "TTY_SUPER_ENABLE" -> 0..2
    [] TtyMode(j) = "TTY_ENABLE" -> j.ttys
    [] TtyMode(j) = "TTY_DISABLE" -> {}

(* make_hello_msg: the settings whose side has a terminal, standard output *)
(* or else standard error for those of the output.                         *)
Sent(j) ==
  LET ours == WantPty(j) \cap j.ttys
  IN  SelectSeq(j.clientBits, LAMBDA b : IF b.thing = "oflag" THEN ours \cap {1, 2} # {} ELSE 0 \in ours)

(* Mutant: the command itself is counted once, not twice.                  *)
HelloShort(j) ==
  [Item("hello", Null, Null) EXCEPT !.nr_argv = 1 + Len(j.args), !.bits = Sent(j),
                                !.pty = WantPty(j)]

(* The hello message, with the number of arguments to come.                *)
Hello(j) ==
  [Item("hello", Null, Null) EXCEPT !.nr_argv = 2 + Len(j.args), !.bits = Sent(j),
                                !.pty = WantPty(j)]
Chdir(j) == IF j.chdir = Null THEN <<>> ELSE <<Item("chdir", j.chdir, Null)>>

(* The list of environment operations is built from its end, and then      *)
(* reversed.                                                               *)
parse_uenvops(j) == Reverse(j.uenvops)
forward_envvar(ops, e) == <<e>> \o ops
reverse_environ_ops(ops) == Reverse(ops)
EnvironOps(j) == reverse_environ_ops(FoldLeft(forward_envvar, parse_uenvops(j), j.forwarded))

(* send_environ_set, send_environ_unset and send_environ_clearenv.         *)
EnvironItems(e) ==
  CASE e.op = "clear" -> <<Item("clearenv", Null, Null)>>
    [] e.op = "set" /\ e.name \notin Big /\ e.value \notin Big ->
         <<Item("setenv", e.name, e.value)>>
    [] e.op = "set" /\ (e.name \in Big \/ e.value \in Big) ->
         <<Item("setenvJumbo", Null, Null), Raw(e.name), Raw(e.value)>>
    [] e.op = "unset" /\ e.name \notin Big -> <<Item("unsetenv", e.name, Null)>>
    [] e.op = "unset" /\ e.name \in Big -> <<Item("unsetenvJumbo", Null, Null), Raw(e.name)>>

send_environ_ops(ops) == FlattenSeq([i \in DOMAIN ops |-> EnvironItems(ops[i])])

(* send_cmdline_argument; the special ones have no value.                  *)
Special == {"ARG_DEFAULT_SH", "ARG_DEFAULT_SH_LOGIN", "ARG_EXEC_FILE", "ARG_CMDLINE_SELF_ARGV0"}
ArgItems(a) ==
  CASE a \in Special -> <<Item(a, Null, Null)>>
    [] a \in Big -> <<Item("argJumbo", Null, Null), Raw(a)>>
    [] OTHER -> <<Item("arg", a, Null)>>

(* send_cmdline *)
Cmdline(j) == <<IF j.exename = Null THEN j.command ELSE j.exename, j.command>> \o j.args

SendHead ==
  /\ cpc = "head"
  /\ wire' = wire \o <<Hello(job)>> \o Chdir(job)
  /\ cpc' = IF job.candidates = <<>> THEN "tail" ELSE "find"
  /\ UNCHANGED <<job, back, st, cached, meddles>>

(* find_xcmd_candidate: the first that can be opened and runs on the       *)
(* device.  Without one shex dies, and stub sees the end of the connection.*)
Candidate(j) == SelectInSeq(j.candidates, LAMBDA c : c.opens /\ c.fits)
Program(j) == IF Candidate(j) = 0 THEN Null ELSE j.candidates[Candidate(j)].file

find_xcmd_candidate ==
  /\ cpc = "find"
  /\ cpc' = IF Candidate(job) = 0 THEN "gone" ELSE "open"
  /\ UNCHANGED <<job, wire, back, st, cached, meddles>>

(* send_open_exec_file, with the hash of the candidate.                    *)
OpenExecFile ==
  /\ cpc = "open"
  /\ wire' = Append(wire, Item("open", Program(job), Null))
  /\ cpc' = "answer"
  /\ UNCHANGED <<job, back, st, cached, meddles>>

(* Mutant: after a mismatch the file is only asked for again.              *)
OpenExecResponseNoUpload ==
  /\ cpc = "answer" /\ back # <<>>
  /\ cpc' = IF Head(back) = "ok" THEN "tail" ELSE "open"
  /\ back' = Tail(back)
  /\ UNCHANGED <<job, wire, st, cached, meddles>>

(* handle_open_exec_response *)
OpenExecResponse ==
  /\ cpc = "answer" /\ back # <<>>
  /\ cpc' = IF Head(back) = "ok" THEN "tail" ELSE "upload"
  /\ back' = Tail(back)
  /\ UNCHANGED <<job, wire, st, cached, meddles>>

(* send_file_to_device: another fb-adb puts the file there, atomically.    *)
Upload ==
  /\ cpc = "upload"
  /\ cached' = Program(job)
  /\ cpc' = "open"
  /\ UNCHANGED <<job, wire, back, st, meddles>>

(* send_environ_ops and send_cmdline.                                      *)
SendTail ==
  /\ cpc = "tail"
  /\ wire' = wire \o send_environ_ops(EnvironOps(job))
                  \o FlattenSeq([i \in DOMAIN Cmdline(job) |-> ArgItems(Cmdline(job)[i])])
  /\ cpc' = "done"
  /\ UNCHANGED <<job, back, st, cached, meddles>>

ShexStep == SendHead \/ find_xcmd_candidate \/ OpenExecFile \/ OpenExecResponse \/ Upload \/ SendTail

(* The connection breaks: some of what was written does not arrive.        *)
Break ==
  /\ cpc # "gone" /\ st.pc \notin {"started", "dead"}
  /\ \E n \in 0..Len(wire) : wire' = SubSeq(wire, 1, n)
  /\ cpc' = "gone"
  /\ UNCHANGED <<job, back, st, cached, meddles>>

(* Another client's xcmd puts another program of that name there.          *)
ReplaceCached ==
  /\ meddles < MaxMeddles /\ job.candidates # <<>>
  /\ cached' = "other"
  /\ meddles' = meddles + 1
  /\ UNCHANGED <<job, cpc, wire, back, st>>

----------------------------------------------------------------------------
(* xenviron.c: an environment is a sequence of entries.                    *)

(* xenviron_match compares as many characters as the entry's name has.     *)
xenviron_match(entry, name) == entry.name = name \/ <<entry.name, name>> \in Longer

Slot(env, name) == SelectInSeq(env, LAMBDA e : xenviron_match(e, name))

xenviron_set(env, name, value) ==
  LET i == Slot(env, name)
      entry == [name |-> name, value |-> value]
  IN  IF i = 0 THEN Append(env, entry) ELSE [env EXCEPT ![i] = entry]

xenviron_unset(env, name) ==
  LET i == Slot(env, name) IN IF i = 0 THEN env ELSE RemoveAt(env, i)

(* The copy of stub's environment is made at the first operation; xe is    *)
(* empty before that.                                                      *)
Xe(s) == IF s.xe = <<>> THEN DeviceEnv ELSE s.xe[1]

----------------------------------------------------------------------------
(* stub                                                                    *)

Stub == [pc |-> "hello", expected |-> 0, bits |-> <<>>, pty |-> {}, argv |-> <<>>, cwd |-> Null, xe |-> <<>>,
         exec |-> Null, attr |-> <<>>, tc |-> 1, tb |-> 1]

(* The jumbo messages, with how many payloads follow.                      *)
Payloads(m) ==
  CASE m.type = "setenvJumbo" -> 2
    [] m.type \in {"unsetenvJumbo", "argJumbo"} -> 1
    [] OTHER -> 0

(* There is not yet a message with its payloads to read.                   *)
Incomplete == IF wire = <<>> THEN TRUE ELSE Len(wire) <= Payloads(Head(wire))

(* What an argument becomes on the device; the file to execute is named by *)
(* its descriptor.                                                         *)
ArgValue(m, payload) ==
  CASE m.type = "arg" -> m.a
    [] m.type = "argJumbo" -> payload[1].a
    [] m.type = "ARG_EXEC_FILE" -> "fd"
    [] OTHER -> m.type

(* handle_open_exec_file: the file is hashed through the descriptor that   *)
(* will be executed.                                                       *)
handle_open_exec_file(s, wanted) == IF cached = wanted THEN [s EXCEPT !.exec = cached] ELSE s

ArgTypes == {"arg", "argJumbo"} \cup Special

(* One round of the loop of read_child_arglist.                            *)
HandleInit(s, m, payload) ==
  CASE m.type \in ArgTypes \ {"ARG_EXEC_FILE"} ->
         [s EXCEPT !.argv = Append(@, ArgValue(m, payload))]
    [] m.type = "ARG_EXEC_FILE" ->
         IF s.exec = Null THEN [s EXCEPT !.pc = "dead"]
         ELSE [s EXCEPT !.argv = Append(@, ArgValue(m, payload))]
    [] m.type = "clearenv" -> [s EXCEPT !.xe = << <<>> >>]
    [] m.type = "setenv" -> [s EXCEPT !.xe = <<xenviron_set(Xe(s), m.a, m.b)>>]
    [] m.type = "setenvJumbo" -> [s EXCEPT !.xe = <<xenviron_set(Xe(s), payload[1].a, payload[2].a)>>]
    [] m.type = "unsetenv" -> [s EXCEPT !.xe = <<xenviron_unset(Xe(s), m.a)>>]
    [] m.type = "unsetenvJumbo" -> [s EXCEPT !.xe = <<xenviron_unset(Xe(s), payload[1].a)>>]
    [] m.type = "chdir" -> [s EXCEPT !.cwd = m.a]
    [] m.type = "open" ->
         IF s.exec # Null THEN [s EXCEPT !.pc = "dead"] ELSE handle_open_exec_file(s, m.a)
    [] OTHER -> [s EXCEPT !.pc = "dead"]

ReadInit ==
  /\ st.pc = "args" /\ Len(st.argv) < st.expected
  /\ ~Incomplete
  /\ LET m == Head(wire)
         n == Payloads(m)
         s == HandleInit(st, m, SubSeq(wire, 2, n + 1))
     IN  /\ st' = s
         /\ wire' = SubSeq(wire, n + 2, Len(wire))
         /\ back' = IF m.type = "open" /\ st.exec = Null
                    THEN Append(back, IF s.exec = Null THEN "mismatch" ELSE "ok") ELSE back
  /\ UNCHANGED <<job, cpc, cached, meddles>>

(* read_msg of the hello, and the first lines of start_child.              *)
AcceptHello ==
  /\ st.pc = "hello" /\ wire # <<>>
  /\ st' = [st EXCEPT !.pc = IF Head(wire).nr_argv < 2 THEN "dead" ELSE "args",
                      !.expected = Head(wire).nr_argv, !.bits = Head(wire).bits,
                      !.pty = Head(wire).pty]
  /\ wire' = Tail(wire)
  /\ UNCHANGED <<job, cpc, back, cached, meddles>>

(* read_msg, or the read of a payload, meets the end of the connection.    *)
Disconnected ==
  /\ st.pc \in {"hello", "args"} /\ cpc = "gone"
  /\ st.pc = "args" => Len(st.argv) < st.expected
  /\ Incomplete
  /\ st' = [st EXCEPT !.pc = "dead"]
  /\ UNCHANGED <<job, cpc, wire, back, cached, meddles>>

(* child_start with a pty, whose settings are made up by setup_pty.        *)
ArgsDone ==
  /\ st.pc = "args" /\ Len(st.argv) = st.expected
  /\ st' = [st EXCEPT !.pc = "pty"]
  /\ UNCHANGED <<job, cpc, wire, back, cached, meddles>>

(* One round of the merge in setup_pty: both lists are sorted by name.     *)
SetupPty ==
  /\ st.pc = "pty"
  /\ st' = IF st.tc > Len(st.bits) \/ st.tb > Len(job.stubBits) THEN [st EXCEPT !.pc = "started"]
           ELSE LET tc == st.bits[st.tc].name
                    tb == job.stubBits[st.tb].name
                IN  CASE tc < tb -> [st EXCEPT !.tc = @ + 1]
                      [] tc > tb -> [st EXCEPT !.tb = @ + 1]
                      [] OTHER -> [st EXCEPT !.tc = @ + 1, !.tb = @ + 1, !.attr = Append(@, tb)]
  /\ UNCHANGED <<job, cpc, wire, back, cached, meddles>>

ChildSetupStep == AcceptHello \/ ReadInit \/ Disconnected \/ ArgsDone \/ SetupPty

LaunchInit ==
  /\ job \in Jobs
  /\ cpc = "head"
  /\ wire = <<>> /\ back = <<>>
  /\ st = Stub
  /\ cached \in (IF job.candidates = <<>> THEN {Null} ELSE {Null, Program(job), "other"})
  /\ meddles = 0

LaunchNext == ShexStep \/ ChildSetupStep \/ Break \/ ReplaceCached

(* The two processes run.                                                  *)
LaunchFairness == WF_launchvars(ShexStep) /\ WF_launchvars(ChildSetupStep)

LaunchSpec == LaunchInit /\ [][LaunchNext]_launchvars /\ LaunchFairness

----------------------------------------------------------------------------
Started == st.pc = "started"

(* The value of name after the operations ops: the last one that concerns  *)
(* it decides.                                                             *)
Concerns(op, name) == op.op = "clear" \/ op.name = name
ValueAfter(ops, name) ==
  LET last == {i \in DOMAIN ops : Concerns(ops[i], name) /\
                 \A k \in DOMAIN ops : Concerns(ops[k], name) => k <= i}
      own == {i \in DOMAIN DeviceEnv : DeviceEnv[i].name = name}
  IN  IF last # {} THEN ops[CHOOSE i \in last : TRUE].value
      ELSE IF own # {} THEN DeviceEnv[CHOOSE i \in own : TRUE].value ELSE Null

Names(ops) == {ops[i].name : i \in DOMAIN ops} \cup {DeviceEnv[i].name : i \in DOMAIN DeviceEnv}

(* The child's environment holds each name at most once.                   *)
ChildValue(name) ==
  LET env == Xe(st)
      at == {i \in DOMAIN env : env[i].name = name}
  IN  IF at = {} THEN <<>> ELSE [k \in {1} |-> env[CHOOSE i \in at : TRUE].value]
Unique(env) == \A i, k \in DOMAIN env : env[i].name = env[k].name => i = k

(* Each name has the value that one of these lists of operations gives it. *)
HasEnv(lists) ==
  /\ Unique(Xe(st))
  /\ \A n \in UNION {Names(ops) : ops \in lists} \ {Null} :
       \E ops \in lists :
         ChildValue(n) = IF ValueAfter(ops, n) = Null THEN <<>> ELSE <<ValueAfter(ops, n)>>

(* The child gets the environment the operations describe: each variable   *)
(* has the value of the last operation that concerns it in the order of    *)
(* the command line, or is forwarded (LINES, COLUMNS and TERM), or is      *)
(* stub's own (environ_ops, read_child_arglist, xenviron.c).  Which wins   *)
(* of a forwarded variable and an operation on it is UserOverrides.        *)
EnvAsAsked ==
  Started => HasEnv({job.uenvops \o job.forwarded, job.forwarded \o job.uenvops})

(* What the comment on forward_envvar in shex_main_common says: forwarded  *)
(* variables come first "so that explicit user environment modifications   *)
(* override".                                                              *)
UserOverrides == Started => HasEnv({job.forwarded \o job.uenvops})

(* The child gets the command line and the directory that were asked for,  *)
(* or is not started at all when the connection breaks: send_cmdline and   *)
(* read_child_arglist agree on the number of arguments, and payloads are   *)
(* never taken for messages.                                               *)
CommandAsAsked ==
  /\ Started =>
       /\ st.cwd = job.chdir
       /\ st.argv = [i \in DOMAIN Cmdline(job) |->
                       IF Cmdline(job)[i] = "ARG_EXEC_FILE" THEN "fd" ELSE Cmdline(job)[i]]
       /\ wire = <<>>
  /\ st.pc = "dead" => cpc = "gone"

(* xcmd executes the first usable candidate, whose hash was sent, whatever *)
(* others put in the file of that name meanwhile.                          *)
Usable(c) == c.opens /\ c.fits
ExecutesCandidate ==
  Started =>
    IF job.candidates = <<>> THEN st.exec = Null
    ELSE \E i \in DOMAIN job.candidates :
           /\ Usable(job.candidates[i]) /\ st.exec = job.candidates[i].file
           /\ \A k \in 1..i-1 : ~Usable(job.candidates[k])

(* The child has a pty only where shex has a terminal or it was forced     *)
(* twice, and of the settings of shex's terminal those that both sides     *)
(* know are made, and no other.                                            *)
TermAsAsked ==
  /\ Started /\ ~(st.pty \subseteq job.ttys) =>
       \E i \in 2..Len(job.termops) : job.termops[i-1] = "force-tty" /\ job.termops[i] = "force-tty"
  /\ Started => {st.attr[i] : i \in DOMAIN st.attr} =
               {Sent(job)[i].name : i \in DOMAIN Sent(job)} \cap
               {job.stubBits[i].name : i \in DOMAIN job.stubBits}

(* The child that is started is the one that was asked for, in all four    *)
(* respects.                                                               *)
StartedAsAsked == EnvAsAsked /\ CommandAsAsked /\ ExecutesCandidate /\ TermAsAsked

(* Every command is started or given up: the dialogue about the program    *)
(* ends, neither side waits for the other for ever.                        *)
Launches == <>(st.pc \in {"started", "dead"})

=============================================================================
