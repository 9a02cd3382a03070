# A TLA+ development for fb-adb

fb-adb replaces `adb shell`. A process on the host, **shex** (`cmd_shex.c`),
talks to a process on the device, **stub** (`cmd_stub.c`), over one byte stream
in each direction. The two multiplex the standard streams of a remote child
process over that connection, with their own flow control, in-band control
messages and an orderly shutdown. Around this core are the ways to get a stub
started and connected, a daemon that keeps stubs at hand, a file transfer on top
of a session, a proxy for the Java debugger, and a small library for resources,
errors, signals, children and terminals. This directory models these parts,
checks them with TLC, and proves the safety of the core with TLAPS for any number
of streams and any sizes. Paths below are relative to `src/`.

## The system's parts

| Part | State | Operations | Talks to |
|---|---|---|---|
| Connection, `core.c` | `struct fb_adb_sh`: channels, `turn`, `max_outgoing_msg` | `io_loop_pump`, `io_loop_do_io`, `queue_message_synch`, one handler per message type | channels; the peer by messages; shex or stub by the `process_msg` hook |
| Channels, `channel.c` | fd, ring buffer, `window`, `bytes_written`, `sent_eof`, `pending_close`, `err` | read, write (direct or buffered), close, poll | ring buffers, fds |
| Ring buffer, `ringbuf.c` | memory and two free-running `size_t` counters | reserve, note added, read, note removed | channels |
| shex, `cmd_shex.c` | main loop, `saw_sigwinch`, `child_exit_status` | connect, launch, pump, send window size, drain, return | connection, terminal, adb |
| stub, `cmd_stub.c` | main loop, child | re-exec, rebind, start the child, pump, normal and abnormal exit, exit status | connection, child |
| Connection setup, `cmd_shex.c`, `cmd_stub.c`, `adb.c`, `peer.c`, `chat.c` | installed stub, its copy for an application, temporary files, forwards, `struct childcom` | try, install, re-exec as root or as an application, rebind to a socket, retry | adb, other clients, daemon |
| Launch, `cmd_shex.c`, `cmd_stub.c`, `xenviron.c`, `termbits.c` | messages after the hello, the child's environment and arguments | send and apply environment operations, offer and upload a program, set up the pty | stub, child |
| Daemon, `stubdaemon.c`, `cmd_shex.c` | socket-name file on the device, cache file on the host, control and listening sockets | start, replace, accept, time out, stop; find through the cache | shex, stub processes |
| File transfer, `xfer.c` | one message in flight, destination file, temporary file | send and receive a file, atomic replacement or in place | `fput`, `fget`, `fcat`; a session as its byte stream |
| JDWP proxy, `cmd_jdwp.c` | cache of real reference types, fake ones, pending and deferred packets, class loaders | forward and translate packets, transactions of its own, flush the cache | a debugger, an application's VM |
| pty encoding, `adbenc.c` | two-state encoder and decoder | encode, decode, and four loops around them | channels, setup |
| Resource lists and errors, `util.c` | tree of cleanup lists, error context | push, pop, transfer, `catch_error`, `die`, quit | everything |
| Timeouts, `util.c` | interval timer, handler, mask, saved contexts | set, expire, unwind | anything that does I/O |
| Children and recorder, `child.c`, `fdrecorder.c` | pid, `dead`; pipe and buffer filled from a SIGIO callback | start, wait, kill, clean up; poll, take | adb runner, stub |
| Terminals, `xmkraw.c` | list of saved terminals | make raw, restore, suspend, resume | shex's channels |

`PROJECT.json` lists every part with its status, the hazards of each with their
lines, and the source lines behind every definition.

What is hard to get right, and what the properties are about:

* **Credit.** A source may read only what its sink has room for; the two ends
  count in different processes, over deltas that are in flight, while the sink
  mixes direct and buffered writes. One byte of disagreement kills the session.
* **Waiting.** Both ends stop sending when their buffers are full. Neither may
  wait for the other for ever; nor may shex for a stub that died, a parent for a
  child that prints more than a pipe holds, or a client for a daemon that left.
* **Order at the end.** End of file may not overtake data, the exit status may
  not overtake output, and stub may not exit before shex has the status, because
  adb drops the last bytes of a process that exits.
* **Failure in the middle.** The connection breaks within a message, a transfer
  ends between its data and its rename, a stub is replaced between hello and
  re-exec, a quit signal arrives inside a cleanup.
* **Signals.** They are let in only around some system calls, but these also run
  inside other operations: SIGWINCH in `queue_message_synch`, SIGIO and SIGCHLD in
  `child_wait`, SIGALRM on unwinding.
* **Who knows what.** Both sides must agree on whether bytes are pty-encoded, on
  the build that runs, and (debugger, proxy and application) on which class an
  identifier means and how often it is counted.
* **Splits.** The pty encoding escapes one byte as two, and reads, writes and
  buffers end anywhere.

## Modules

| Module | Models |
|---|---|
| `Mux` | The connection and its channels (`core.c`, `channel.c`), under any main program |
| `Session` | Extends `Mux` with the main programs of shex and stub, the child, SIGWINCH, a lost connection |
| `MCSession`, `MCStreams` | `Session` for TLC |
| `MuxProofs`, `SessionProofs`, `ConnectProofs`, `DaemonProofs`, `XferProofs`, `RingBufProofs` | Theorems about `Mux`, `Session`, `Connect`, `Daemon`, `Xfer` and `RingBuf` |
| `ProcessProofs` | Theorems about `TtySave` and `Child` |
| `JdwpProofs` | Theorems about `JdwpProxy` |
| `Connect` | Reaching a stub of one's own build, as the right user, over the right transport (`cmd_shex.c`, `cmd_stub.c`, `adb.c`) |
| `Launch` | From the hello message to the start of the child (`cmd_shex.c`, `cmd_stub.c`, `xenviron.c`, `termbits.c`) |
| `MCSetup` | `Connect` and `Launch` for TLC |
| `Xfer`, `MCXfer` | File transfer (`xfer.c`) and its instance |
| `JdwpProxy`, `MCJdwpProxy` | The proxy between debugger and application (`cmd_jdwp.c`) and its instance |
| `MCServices` | `Xfer` and `JdwpProxy` for TLC |
| `JdwpTypes`, `JdwpWire` | The types of the debugger protocol's messages, and the cursor that walks and rewrites them (`cmd_jdwp.c`) |
| `RingBuf`, `BoundedFifo` | The ring buffer, and what it promises |
| `AdbEnc` | The pty encoding and its four loops |
| `Reslist` | Resource lists, errors and quit signals (`util.c`) |
| `MCLibrary` | `RingBuf`, `AdbEnc`, `JdwpWire` and `Reslist` for TLC |
| `Child` | Child processes and the recorder (`child.c`, `fdrecorder.c`, signals of `util.c`) |
| `Timeout` | Nested timeouts (`util.c`) |
| `TtySave` | The user's terminals (`xmkraw.c`, `cmd_shex.c`) |
| `Daemon` | Finding, starting, replacing and stopping the daemon (`stubdaemon.c`, the daemon cache of `cmd_shex.c`) |
| `MCProcess` | `Child`, `Timeout`, `TtySave` and `Daemon` for TLC |

`MCSetup`, `MCServices`, `MCLibrary` and `MCProcess` put modules side by side
that share no state. The variable `component`, fixed in the initial state, says which of them
moves; the others keep one initial state. So such a run is several checks with
one configuration, and nothing is interleaved that the program does not
interleave.

### Mux

Each process runs `PUMP_WHILE(cond)`: pump, evaluate the condition, do I/O,
again. `stage[p]` is where process `p` is in it: `"pump"` (inside
`io_loop_pump`), `"check"` (about to evaluate the condition, or between two
loops), `"poll"` (inside `io_loop_do_io`, with the channels still to be polled
in `todo[p]`), or `"exited"`.

* `ch[p][c]` is a channel with the fields of `struct channel` that steer it. A
  ring buffer is its size; `RingBuf` justifies that. For sinks the buffered
  bytes are kept as well (`kept`), because a direct write could overtake them.
* `q[p]` holds the messages `p` has queued that its peer has not processed. The
  bytes of those messages are in `p`'s TO_PEER buffer, on the wire (`wire[p]`) or
  in the peer's FROM_PEER buffer; these are counted in bytes, and a message can be
  processed when its size has arrived (`detect_msg`). So messages are split by
  reads and writes at every byte.
* One action per message handler (`RecvData`, `RecvWindow`, `RecvClose`,
  `RecvControl`), per sender (`XmitAcks`, `XmitData`, `XmitEof`,
  `DoPendingClose`), and per outcome of `channel_poll` (`PeerRead`, `PeerEof`,
  `PeerWrite`, `PeerWriteError`, `StreamRead`, `StreamEof`, `StreamWrite`,
  `StreamWriteError`, `Temporary`). The guards keep the order of
  `io_loop_pump`: all messages, then acks, then data, pending closes and EOFs.
* `die_proto_error` is `Die`: every check in the handlers is there, and
  `NoProtocolError` says that none is ever hit.
* The environment decides how much a read or write moves, which fds `poll`
  reports, how well LZ4 compresses, when the connection is lost and how much of
  what it carried arrives.

`turn`, the rotation of the channels in `io_loop_pump`, is left open: the model
visits the channels in every order. The position `pos` in a message is a ghost
that no handler reads; the invariant is stated with it.

### Session

`pc[p]` says which `PUMP_WHILE` (or blocking call) the main program is in, and
`LoopCond` is its condition. In shex: `"main"`, `"winch"` (inside
`queue_message_synch` for a window size), `"drain"`, then `"done"` (status
returned) or `"lost"`. In stub: `"main"`; on the abnormal path `"abn_peer"`,
`"abn_stdin"`, `"hup"`; on the clean path `"clean"`, `child_wait`, `"send"`,
`"close_to"`, `"close_from"`, `"done"`. `child_wait` blocks without pumping: a
child that closes its output and runs on leaves what is queued in TO_PEER
there until it exits, and `Delivery` excepts that state.

SIGWINCH is blocked outside `ppoll`: `winch` is the pending signal,
`saw_sigwinch` the flag its handler sets. Window sizes are counted in resizes.

### RingBuf and AdbEnc

`RingBuf` keeps the two counters in `Bits`-bit arithmetic and the memory byte by
byte; `BoundedFifo` is a queue with a capacity. `AdbEnc` has the coder byte by
byte over an alphabet of the three special characters and one other, and one
action per iteration of `write_all_adb_encoded`, `read_all_adb_encoded`,
`channel_write_adb_hack` and `channel_read_adb_hack`. Buffers that wrap hand
their bytes to the coder in two pieces, split anywhere; `write` accepts any part
of them; shex may be killed at any point.

### Connect

`cl[c].pc` is where client `c` is in `start_stub_adb`, `tc_connect_normal` or
`tc_connect_user`, `stub[c]` the stub it talks to (which build it is, as whom it
runs, where it reads from), `to[c]` and `from[c]` what is on the way. `file` is
`/data/local/tmp/fb-adb`, `copy` the one in the application's directory, `tmp[c]`
the file under a name of the client's own. A try goes through the phases of
`try_adb_stub`: the installed stub, then one's own stubs, one per processor, each
sent (`adb_send_file`), renamed (`Rename`, or `cat` where SELinux forbids `mv`,
during which the file holds a part) and started. Where SELinux forbids an
application to execute that file, the script of `re_exec_as_user` first compares and
copies it (`Thunk`) and then moves it to the name that is executed (`ThunkMove`). `Switch` and `Switched` are
`command_re_exec_as_root` and `command_re_exec_as_user`; `Again` is the next
attempt of `tc_connect_user`; `ViaService` is the way through the package's service
when run-as does not work. `Upgrade`, `Listening`, `Accept` and
`connect_to_device_socket` move the connection to a socket. On the stub's side
`StubRead` is one `read_msg` of `stub_main_1` with the reader chosen by `isatty`,
which a re-exec chooses anew. A message carries how it was written, so that a
reader of the other kind finds it garbled. A device (`Devices`) is its API level,
adb's age, the processor, what SELinux, run-as, su and the network allow.

### Launch

A `job` is what the user asked for; `shell_main`, `rcmd_main`, `rcmd_self_main` and
`xcmd_main` make it, and `TtyMode` and `WantPty` decide from the terminal options
which descriptors shall be a pty. `find_xcmd_candidate` takes the first file that can
be opened and fits the device. `wire` holds one item per write: a message, or
the payload of a jumbo message. shex's side is a sequence of three parts
(`SendHead`, the dialogue about the program, `SendTail`); stub's is one action per
item it reads. `EnvironOps` builds the list as the code does, from its end, with
the forwarded variables added and then reversed, and `xenviron_set` and
`xenviron_unset` change the array in place. `ReplaceCached` is another session
that puts another program under the same name. `EnvAsAsked`, `CommandAsAsked`,
`ExecutesCandidate` and `TermAsAsked` compare the child that is started with
reference definitions over the job: folding the operations over the device's
environment, the user's and the forwarded ones in either order (which of them
should be last is `UserOverrides`, finding 5); the argument list; the very program that was offered; the settings
both sides know.

### Xfer

A sender and a receiver per transfer, files with an identity of their own and a
name that stands for one of them, so that a rename, an unlink by name and a
descriptor that outlives its name are different things. One action per message
sent or received and per step of `do_xfer_recv` (`RecvStat`, `Open`, `RecvData`,
`Finish`, `Rename`, `SyncDir`); `Dies` is an error with the cleanups it runs, of which
the unlink has no effect in a directory that is not writable.
Either side may be killed and the connection cut; with `Torn` a connection may
end inside a message, and the rest of the message is then any value.

### JdwpProxy, JdwpTypes and JdwpWire

The proxy is sequential, so `pc` is what it does, or the transaction it waits for:
`translate` walks the identifiers of a packet (`job`); `SIGNATURE`,
`CLASSLOADER`, `MODIFIERS`, `CLASSESBYSIGNATURE`, `DISPOSE` and the rest are its own
commands, each in flight together with whatever debugger and application send.
`cache` is `real_reftype_cache` with its counts, `fakes` the identifiers the
debugger is shown, `defer` and `ldef` the two lists of packets set aside, with the
code's insertions at the head. The application's side (`reg`, `lref`, `loaded`) is
external: it counts an identifier each time it sends it and forgets it when
DisposeObjects brings the count to zero, and it unloads a class loader that
nothing holds, or sends a command the proxy does not know. A command of the
debugger has up to two references. Ghost fields of a packet (`of`, `means`, `n`) say what it is about.

`JdwpTypes` has the table of `setup_jdwp_types` and what a peer that follows the
protocol sends for it, which differs where `ProtocolFields` and `WireWidth` say so
(`M_LineTable`, the invoke commands' options, `CapabilitiesNew`, values in regions,
`double`; `Misdeclared` marks the ones that move what comes after them); `JdwpWire` the cursor with its stack of frames and
`translate_payload_2`. A byte is a value, the first byte of one or padding, so a
read that is not aligned with a field is an error.

### Reslist

A list is the sequence of what it owns, and the C stack is explicit (`frames`):
scopes of the program's own code, calls of `empty_reslist` and of cleanup
functions, `catch_error` and `die`. The program makes any call that C's scopes
allow, cleanup functions included; a quit signal can arrive wherever signals are
let in.

### Child, Timeout and TtySave

`Child` has children that write to a recorder's pipe, exit, or are signalled;
process ids that are used again once a child was waited for; and a parent that
starts, waits, kills and cleans up. Signals are pending until `LetIn` says that
they are let in: in `sigsuspend` and in calls that say so, not between `waitpid`
and `dead = true`. `Timeout` nests `set_timeout`, with the timer, the handler, the
mask and a pending SIGALRM saved and restored in the order of the code.
`TtySave` has the pointers of the `<sys/queue.h>` list, because
`ttysave_make_raw` inserts an entry it found once more. `ttysave_restore` is a
function on the variables it changes (`Released`, behind the callers' test in `Restore`), since the exit of shex calls it
for all three channels in one step; it notes when `LIST_REMOVE` writes to an entry
that was freed, the next one or the one before.

### Daemon

A *client* is a shex that wants a daemon. It reads a socket name from its cache
file and connects (`connect_fb_adb_daemon`); if that fails it runs start-daemon
on the device, stores the name that prints and connects once more; if that fails
too it connects without a daemon. A *command* is start-daemon, start-daemon
`--replace` or stop-daemon on its own. start-daemon is `run_stub_daemon`: ask the
daemon the device's file names for its hello, use it if its fingerprint is our
own, otherwise stop it and become the daemon.

`pc[h]` is where process `h` is, `got[h]` the name or answer it has in hand.
Every system call on a shared file or socket is a step of its own: `stat`,
`open`, `read` and the unlink by name of the cache file (kept as files with an
identity, so a client can hold a file that is no longer the one the name stands
for); truncating and writing the device's file, with the lock released in
between as in the code; connecting to a socket. `dmn[d]` is the daemon that `d`
started: `"setup"` (it listens and has not announced itself), `"serve"`,
`"exiting"` (told to exit or timed out, sockets still open), `"exited"`. `ctl[d]`
and `cli[d]` are the backlogs of its two sockets. A daemon's random name is the
name of the process that started it; all names have one length and are written
at offset 0, so the device's file is absent, empty or one whole name. Two ghosts:
`overlap` (two launches were under way at once) and `disturbed` (a process was
not alone, or a daemon failed under it).

`OneDaemon` is stated for launches that do not overlap. Launches that do overlap
can leave two daemons that serve, of which the file names one: the lock is
released before the name is written, and looking for a daemon is not under the
lock at all (`stubdaemon.c:280`). The other ends at its timeout.

## Runs

| Run | Checks | Instance | Shows |
|---|---|---|---|
| `session` | `Delivery`, `SessionEnds`, `ResizeArrives` | one stream each way, one-byte stream buffers, a one-byte wire, shex may be killed; or two resizes while nothing is typed | every byte read is delivered with all buffers full; a session whose child exits ends; the last size sent reaches the pty, also when SIGWINCH interrupts the queueing of the previous one |
| `loss` | `LossEndsSession` | as `session`; shex killed or the connection lost; the child need not read its stdin | whoever is left drops a partial message and purges what it cannot write, both processes end, and a running child is signalled, unless bytes for its stdin stay unread (`UnreadStdin`, finding 4) |
| `flow` | `NoProtocolError`, `WithinCapacity`, `InOrder`, `FlowControl`, `EofAfterData`, `LostOnlyIfCut`, `StatusAfterOutput` | one compressed stream, four-byte buffers, `U32Max` 5, temporary errors; or two bytes of output, the connection lost, shex killed | credit, capacity, order, end of file; `FlowControl` is the inductive invariant of the proofs; a status is returned only after all output; no false "lost connection" |
| `setup` | `Understood`, `RunsAsAsked`, `EndsWell`, `MCSettles`; `StartedAsAsked`, `MCLaunches` | two clients of different builds, five devices, one loss; every environment of up to three operations, command lines of every command, lists of candidates, terminal options on any of the descriptors, terminals that know different settings | encodings agree through re-exec and rebinding; the right build runs as the right user; an able device is reached; nobody waits for ever; the child is the one asked for |
| `services` | `NeverPartial`, `SuccessIsWhole`, `FailureCleansUp`, `MCTransferEnds` | two transfers to one destination, fput in both explicit modes and fget in automatic mode against an automatic fput, files of one and two chunks with a size that was announced wrongly, one fault | the destination is the old file or a whole new one; success means exactly the source's bytes; a failure leaves a part behind only in place and where the directory does not let it be removed; both sides end |
| | `PacketsInOrder`, `RepliesMatch`, `NamesSound`, `ReferencesHeld`, `Answered` | three classes, two loaders, a cache of two, identifiers modulo 7, two commands of up to two references each, an event or an unsupported command of the application, an unloaded loader | order, matching, identity of classes and counts of references, whatever is deferred and flushed; every command is answered. `NoStaleId` in `NamesSound` excepts an identifier that a later one of its own command flushed (*Observations*) |
| `library` | `IsFifo`; `Transparent`; `Rewritten`; `OwnedOnce`, `NothingLeaks`, `KeepsOuter` | capacity 4 with three-bit counters; messages of 1, streams of 3, buffers of 4; all message types, as the protocol has them, with one class; three lists, two cleanups, a stack of three | the ring buffer implements `BoundedFifo`; the encoding is transparent wherever it is split; identifiers are rewritten everywhere and nothing else is, save in two kinds of message (*Observations*); resources are released once, in time and not too early |
| `process` | `TerminalsKept`; `NoStranger`, `Recorded`, `WaitsEnd`; `IoEnds`; `OneDaemon`, `AloneGetsDaemon`, `NobodyStranded` | two terminals in every arrangement on three channels; two children, two process ids, a pipe of one; two timeouts; two clients and a command of two versions, one failure | terminals are raw while used and restored after; no other process is signalled, recorders lose nothing and a wait ends; timeouts end I/O; launches that do not overlap leave one daemon, and it is found; no one waits for an answer that cannot come |
| `resize` | violation of `ResizeNotLost` | two resizes of the terminal, two bytes of output | finding 1 |
| `adbenc_truncated` | violation of `BinaryClean` | messages of 3 with a buffer of 3 | finding 2 |
| `xfer_torn` | violation of `NeverPartial` | as `services`, connections end inside messages | finding 3 |
| `local_exit` | violation of `KilledOnLocalExit` | as `session`, shex killed, the child need not read its stdin | finding 4 |
| `env_order` | violation of `UserOverrides` | as `setup` | finding 5 |

**Bounds of the session.** `MaxBytes` bounds what a stream's fd delivers,
`MaxWinch` the resizes; nothing else is bounded. Message sizes are scaled down and
keep their order, not strictly: a header (4 bytes), close, data and exit (5),
compressed data (7), window (9) and window size (12) become 1, 1, 2, 2 and 3. A
header of one byte is never split, which loses nothing: `detect_msg` waits for the
rest of a header as it waits for the rest of a message. The sizes are large enough
for what matters: messages split over several reads; TO_PEER without room for an
ack, for data or for a control message; a stream buffer that fills and empties more
than once (`MaxBytes` above `StreamCap`); a write counter at `U32Max` that forces
the buffered path (`flow`, where `U32Max - bytes_written` is less than a message);
an empty data message, which `xmit_data_uncompressed` sends when exactly a header
fits. With one-byte stream buffers a source sees end of file only once credit
returns; in `flow` it is seen at any time.

**Bounds elsewhere.** `MaxFaults` and `MaxFailures` count losses in one behaviour;
one is enough for every failure to meet every step, two would be about failures of
the recovery. (Timeouts of a daemon and stale caches are not counted.) `MaxMeddles`
2 lets the cached program be replaced before it is looked up and again after its upload. `CacheMax` 2 with three classes
makes the cache flush while a packet is translated, and `IdMod` 7 lets identifiers
meet pending ones. `MaxFrames` 3 allows a cleanup function inside `die` inside
`catch_error`, or two scopes; `PipeCap` 1 with `MaxOutput` 2 blocks a child on a
full pipe; `MaxDepth` 2 is the first depth with something to restore. `BufSz` 4
against `MaxData` 3 lets a buffer of the encoding both wrap and not fit an
escaped stream.

Some constants keep a run clear of behaviour that is wrong for a reason of its
own and is listed under *Findings* or *Observations*: `Torn = FALSE` (finding 3);
`BufSz > 2 * MaxHello` (finding 2); `Longer = {}`, no name that is the beginning of
another; `MaxClasses = 1`. Where a property has an exception instead,
the definition names it: `UnreadStdin` in `LossEndsSession`, `NoStaleId` in
`NamesSound`, `job.wrong` in `Rewritten`, both orders of the environment in
`EnvAsAsked`. `KilledOnLocalExit`, `IdsKnown`, `EveryMessage` and `UserOverrides` state
the same thing without it.

**Two kinds of behaviour.** `session` and `flow` choose at the start what the
environment will do (`second` of `MCStreams`), so that two questions about one
instance do not multiply. In `session` either the streams run both ways and shex may
be killed, or the terminal is resized while nothing is typed and shex lives. In
`flow` either nothing is lost and the write counter reaches its limit, or the
connection is lost or shex killed with two bytes of output (`FewBytes`); temporary
errors occur in both. Only the environment is restricted: shex
and stub take every step they can.

**Reduction.** `MCNext` lets a process inside `io_loop_pump` finish the pump
before another process moves. A pump step reads and writes only the process's
own channels, the queue entries that are already in its buffer, the tail of its
own queue and the fd of a direct write. No step of the other process or the
environment reads these except through the wire, which pump steps leave
alone, so pump steps commute with them. The run `flow` checks states inside a
pump as well: only the interleaving is reduced. The proofs are about the
unreduced `SSpec`. A kill that would have fallen inside a pump ends the rest of
that pump; what the pump had queued was seen by no one, so for the peer and for
the properties it is a kill before the pump.

**Fairness.** In a session, `ProcessFairness`: a process that is not blocked, or
whose poll the peer connection makes return, takes a step: the kernel schedules
runnable processes. `OutputFairness`: whoever reads shex's output keeps reading or
closes it, and the output of a child that has exited comes to an end.
`StdinFairness`: the child keeps reading its standard input or closes it; only
`session`, which is about delivery, assumes this. `loss` and `local_exit` have
`StdinEndFairness` instead: the pipe to a child that has exited is found broken;
a child that runs may leave its standard input unread for ever. These are
strong fairness on `poll` reporting the fd, because the process may be busy with
other channels in between. Nothing is assumed about shex's own stdin, the child's
exit, resizes or failures. Temporary errors are left out of the liveness runs: an
fd that poll reports does not fail with EAGAIN for ever. Elsewhere, weak fairness
for the steps of each process, which blocks only where the code does: client and
stub (`Connect`), shex and stub (`Launch`), sender and receiver (`Xfer`), proxy and
application (`JdwpProxy`), a child that prints and exits, the delivery of signals
that are let in, and the timer (`Child`, `Timeout`). No fairness on faults, on
other clients' interference, on what a debugger or a user does.

**Deadlock** is checked in the runs of a session, where `Over` is the one state in
which nothing is left to do, and for the daemon in `process`. The others have
programs that simply end; there the liveness properties say that they do not stop
before.

## Findings

1. **A resize is forgotten** (`resize`; `cmd_shex.c:2413`). shex reads the size
   and calls `queue_message_synch`, which polls when TO_PEER is full and so lets
   the next SIGWINCH in; `saw_sigwinch = false` afterwards erases it. The child
   keeps the old size until the next resize.
2. **A handshake message is truncated** (`adbenc_truncated`; `adbenc.c:139`).
   `write_all_adb_encoded` compares the encoded bytes written with the plain
   length, so a message of at most 4096 bytes whose encoding is longer loses its
   end.
3. **A partial file under the destination's name** (`xfer_torn`; `xfer.c:91`).
   `recv_xfer_msg` does not check its second read. When the connection ends inside
   a data message, its length is whatever the stack held; if that is zero, the
   receiver takes it for the end of the file and renames a partial file to the
   destination.
4. **A child that does not read outlives the session** (`local_exit`;
   `cmd_stub.c:841`). stub's abnormal exit waits until the buffered stdin is
   written. A child that neither reads it nor closes its stdin nor exits is never
   signalled, and stub stays with it, while `commands.xml:63` says that fb-adb
   "kills remote program on local exit".
5. **Forwarded variables win over the user's** (`env_order`; `cmd_shex.c:2191`).
   They are prepended to a list that is then reversed. The comment at
   `cmd_shex.c:2189-2190` wants the opposite: "so that explicit user environment
   modifications override".

## Observations

Met while modelling; no run of their own. Where a definition is named, it states
what the repository says and fails when put into the cfg of the run that uses its
module.

*Session.*
* When shex can no longer write to a lost connection it closes its standard
  streams, and goes on pumping until they are drained. Meanwhile it may still read
  what stub had sent, the exit status included. Its output then lacks the data that
  arrived after the close, and it returns the child's status and not "lost
  connection" (`cmd_shex.c:2393-2431`). `StatusAfterOutput` excepts this.
* `NoSignalWithoutCtty` (`Ctty = FALSE`): with `--no-ctty` stub sends the death signal when the
  connection is gone (`child.c:105`), while `commands.xml:177-178` says the child
  "is not sent any signal".

*Connect and Launch.*
* Two `--user` clients of different builds can replace each other's stub for ever:
  `tc_connect_user` has no limit (`cmd_shex.c:2042`). `Settles` excepts this.
* `command_re_exec_as_root` does not compare builds, so root sessions may be
  served by another build that was installed in between; `RunsAsAsked` excepts it.
* The fallback to `cat` writes the installed stub in place (`adb.c:116`): others
  can start a part of it.
* stub's callback over IPv6 opens its socket with AF_INET (`cmd_stub.c:567`).
* `xenviron_match` compares as many characters as the entry's name has
  (`xenviron.c:87`), so setting or unsetting a name also hits an entry whose name is
  the beginning of it; `xenviron_unset` moves one element too many; INPCK is
  spelled "PNPCK" in `termnames.h.in:55`, so that setting is never forwarded.

*Xfer.*
* An explicit write mode does not switch off the heuristic for hard links, and the
  heuristic is not applied to a file within a destination directory.
* The unlink of a failed transfer is not checked (`xfer.c:299`, `fs.c:1205-1208`). In a
  directory without write access, which is why auto mode writes in place, it fails,
  and the part that was written stays under the destination's name.
* A transfer that fails in place unlinks the destination by name, also when
  another transfer has put a whole file there meanwhile.

*JDWP.*
* `IdsKnown` (in `services`): a command leaves with an identifier that was just given
  back. Translating a second reference of the command may find the cache full and
  flush it, and with it the first one, which is already written (`cmd_jdwp.c:4388`,
  `4604-4617`). `NoStaleId` excepts exactly this.
* `EveryMessage` (in `library`): `double` has four bytes in the type table
  (`cmd_jdwp.c:1412`), and M_LineTable's reply a count too many (2925). What follows
  such a field is read in the wrong place, so the message is refused or damaged.
  `Rewritten` excepts these messages (`Misdeclared`).
* `RefreshReadsAll` (in `library`, with `MaxClasses` 2): `jdwp_cursor_leave` goes on to
  the next record by itself, and `refresh_classes_with_signature` calls
  `jdwp_cursor_next` after it (`cmd_jdwp.c:4498`), so a list of two classes of one name
  is read beyond its end, and neither is found again after a flush.
* `AssertionsHold`: after a failed transaction the cache holds an entry without a
  fake type; the next flush dereferences it (`cmd_jdwp.c:4340`).
* The type table has no elements for regions of objects (`cmd_jdwp.c:1338-1348`), no
  `options` at the end of the invoke commands and 31 of the 32 capabilities. All of
  these are at the end of their message and hold no reference types, and bytes that
  the walk does not reach are sent on as they are: `Rewritten` holds for them.
* An unsupported command is answered by the proxy itself, also one of the
  application (`cmd_jdwp.c:2017-2023`).
* An error in translating a debugger's command is sent to the application
  (`cmd_jdwp.c:2080`); `send_generic_reply` takes 16 bits of an identifier.
* `do_jdwp_handshake` copies where it means to compare (422, 436), and
  `sizeof (packet)` is a pointer's (2086; only in log output).

*Library.*
* `AlarmThrows`: `util.h:336-338` says SIGALRM raises an exception from I/O context;
  while the outermost timeout unwinds, the handler is restored before the mask,
  and a pending SIGALRM ends the process (`util.c:1398-1412`).
* Cleanups run by `die` have `_reslist_current` on a list that is being destroyed;
  `reslist_xfer` and `reslist_reparent` leave the parent pointers of lists on the
  stack as they were. Neither is used to harm in the code as it stands.
* `ttysave_make_raw` inserts an entry again that it has found (`xmkraw.c:241`). With
  standard input and output on one terminal this links an entry to itself, and with
  standard error on another the search for that one does not end. With input and
  output on two terminals and error on either of them, an entry that is freed may
  still be linked, and restoring the other terminal writes to it. `TableSound` in
  `TerminalsKept` says that these are the only arrangements that do harm, and
  `ProcessProofs` proves it.

## Proofs

Eight modules hold theorems. Each is about its component for every value of the
constants; the assumptions on them are named in the component's module, and TLC
evaluates them on every run.

| Module | Theorem | Says |
|---|---|---|
| `MuxProofs` | `Accounting` | `Spec => [](TypeOK /\ FlowControl)` |
| | `NeverDies` | `Spec => []NoProtocolError` |
| | `BuffersSuffice` | `Spec => []WithinCapacity` |
| | `DeliversInOrder` | `Spec => []InOrder` |
| `SessionProofs` | `SessionUsesMux` | `SSpec => Spec`: shex and stub use the connection as `Mux` assumes |
| | `SessionSafe` | the safety properties of the connection, for the session |
| | `EofWaitsForData` | `SSpec => []EofAfterData` |
| | `LostMeansCut` | `SSpec => []LostOnlyIfCut` |
| | `OutputBeforeStatus` | `SSpec => []StatusAfterOutput` |
| `ConnectProofs` | `ConnectUnderstood` | `ConnectSpec => []Understood` |
| | `ConnectRunsAsAsked` | `ConnectSpec => []RunsAsAsked` |
| | `ConnectEndsWell` | `ConnectSpec => []EndsWell` |
| `ProcessProofs` | `OnlyChildrenSignalled` | `ChildSpec => []NoStranger` |
| | `OutputRecorded` | `ChildSpec => []Recorded` |
| | `TtyKept` | `TtySpec => []TerminalsKept` |
| `DaemonProofs` | `WaitersAreServed` | `Spec => []NobodyStranded` |
| | `AtMostOneDaemon` | `Spec => []OneDaemon` |
| | `AloneConnects` | `Spec => []AloneGetsDaemon` |
| `XferProofs` | `FailureLeaves` | `XferSpec => []FailureCleansUp` |
| | `SuccessMeansWhole` | `XferSpec => []SuccessIsWhole` |
| | `NameIsNeverPartial` | `XferSpec => []NeverPartial`, if `~Torn` |
| `JdwpProofs` | `ProxyInOrder` | `Spec => []PacketsInOrder` |
| | `ProxyRepliesMatch` | `Spec => []RepliesMatch`, if `Narrow` |
| `RingBufProofs` | `CountersHold` | `RingSpec => []RingTypeOK` |
| | `RingIsFifo` | `RingSpec => IsFifo`, the refinement of `BoundedFifo` |

### The connection

`MuxProofs` is about `Mux` with any number of streams in either direction, any
capacities and message sizes that satisfy `MuxAssumption` (stream buffers not
larger than `UINT32_MAX`, messages not larger than the receive buffer, headers
not larger than messages), and any main programs: `MainStep` allows any close,
control message or exit at any point.

None of the three safety properties is inductive: that a
message fits depends on the credit the sink issued long before, and on every
message in flight. The usual invariant, *credit plus bytes in flight plus bytes
buffered is the capacity*, sums over a queue, which needs induction over
sequences. `FlowControl` avoids the sum. Every data message carries its position
in the stream and every WINDOW message its position in the credit issued (the
ghost `pos`). The messages of a stream cover increasing, disjoint ranges between
what the sink has (`Got`) and what the source has sent (`Sent`), and likewise for
credit between what the source has used and may use (`window + rd`) and what the
sink has issued (`CreditInFlight`, `DataInFlight`). Consuming the head, appending
at the end and moving a boundary preserve ranges, which is first-order. Data
without gaps (`Contiguous`) holds only while the sink is open, since a closed
sink discards messages, and the source's side of it only while TO_PEER is open,
since a closed TO_PEER discards them too. `Numbered` ties the bytes written and
buffered to their positions. From `Credit` and `DataInFlight` a message that
arrives fits the buffer; from `Credit` and `CreditInFlight` a delta that arrives
keeps the window within the sink's capacity, hence below `UINT32_MAX`;
`Sendable` excludes the other errors; `Numbered` gives `InOrder`. The invariant
`IInv` is `TypeOK /\ NoProtocolError /\ FlowControl`; the proof has one lemma per
action, on top of lemmas for the few ways an action can touch a stream
(`SourceReads`, `DataSent`, `CreditSent`, `CreditArrives`, `DataArrives`,
`SinkWrites`, `SinkFails`, `QuietStep`).

### The end of a session

`SessionUsesMux` needs that a control message carries one of `ControlArgs`: the
window sizes and statuses a session sends (`Carried`). With it `IInv` holds in
every session, and the rest rests on it and on `SessionInv`, four conjuncts that
are inductive only together:

* `StreamsEnd`. A CLOSE message, or the exit status, is queued only when its
  source is closed and has sent all it read; so all of that is in the queue before
  it or has arrived (`EndInFlight`). A sink that closes or is about to, without an
  error, has seen that message, hence has everything, and when it is closed it has
  written it (`EndSeen`, as long as its process is in its main loop: afterwards
  the main program closes sinks too).
* `Connected`. While the connection stands and shex runs, stub runs, is on its way
  out through the clean exit at most, and neither side has closed its end early.
  This is what the wait for FROM_PEER at the end of `stub_main_1` is for: were
  stub to exit first, the transport could drop its last bytes.
* `ShexInv`. Each place in shex's main program and what has happened before it. In
  particular shex drains without a status only after a loss: either it could not
  write (`WriteLost`) or it has read all that will come.
* `StatusInv`. stub is ready to send only with a status and with all streams dead
  (`ExitReady`), what is queued is the child's status (`ExitQueued`), and when
  shex has it the child's output has arrived, unless writing it failed
  (`StatusKnown`).

Most steps only have to be shown `Steady`: they open nothing, forget no error,
close the connection only when it is broken, and move the streams by one message
or byte range at most. `SteadyKept` then gives the invariant once for all of them;
the steps in which a main program closes something, exits or learns the status
have lemmas of their own.

### Reaching the stub

`ConnectProofs` is about any number of clients of any builds, each with any of the
requests, on any device that `ConnectAssumption` describes, and any number of
losses. The three properties rest on one invariant, `ConnectInv`, which is stated
per client.

`Talks(c)` says, for each place of the client (`AtStart`, `AtHello`, `AtNext`,
`AtSwitch`, `AtUpgrade`, `AtEnd`), where its stub can be, what is on the way in
either direction, and in which encoding each side reads. Its heart is that at most
one message is ever under way, and that the client changes its `writer` in the step
in which it learns that the stub has changed what it reads (`Expects(c) =
cl[c].writer`). The order of re-exec and rebinding is free, so what is left to do
(`todo`) decides which of the facts about user (`Fits`) and transport (`OnSocket`)
already hold. A stub that died may have left a line behind, or nothing; never a
packet where the client reads text. From `Talks`, `Understood` and `RunsAsAsked`.

`Undisturbed(c)` is for `EndsWell`: for a client that can get what it asks and that
was not hurt, the stub lives (`StubLives`), the installed file is the client's
(`Installed`), the stub will greet (`Greets`) and will be able to change its user
(`Switches`). `Undisturbed` depends on the shared files, so a step of one client
must be shown to leave the others' alone: it changes `file` or `copy` only where it
sets `hurt` for all who rely on them (`Apart`, `ApartKeeps`). The script that makes
the application's copy is two steps, and what it is about to move is the client's own
build. There is one lemma per action, which shows `Kept(c)` for the client that moves.

### The debugger's proxy

`JdwpProofs` is about any classes, any cache size, any number of commands, events
and unloadings, and identifiers of any width above the number of commands
(`JdwpAssumption`). `ProxyInv` is `Control /\ Good(View)`.

`View` is a record of the five places a packet can be in: the debugger's connection,
the packet that is translated, the connection to the application, what the
application sent (`Flow`, oldest first: set aside by the transaction under way,
deferred, in the socket) and what the debugger got. A step of the proxy moves a
packet from one place to another, removes one or adds one, or does two of these at
once (it takes an answer and sends its next command). Each elementary move is a lemma
about any two views (`SoundMoves`, `SoundGrows`, `OrderFlowToJob`, ...), and a step
that does two goes through a view between them.

* `Order` says that what the debugger got, what is translated and `Flow` continue one
  another by number, so that whatever is set aside comes back before what is newer.
  This is where the code's insertions at the head and the order in which a
  transaction's list is put before the deferred one matter.
* `Sorts`, `Pends` and `Once`: each packet has the identifier that its place calls
  for (as the debugger chose it, or as the proxy did and `pend` records), identifiers
  are given to one command each, and a command or its answer is in one place.
* `Quiet` and `Single`: the proxy has at most one command of its own under way, only
  in a transaction, with an identifier (`tx`) that no pending command has. So
  `jdwp_transact_with_app` takes the right answer, and the main loop never meets an
  answer that it does not know. Commands of the application that the proxy does not
  support leave `Flow` and are answered without an identifier being given.

That `make_jdwp_id` finds an identifier that is free, although its counter wraps
around, is a counting argument: the pending ones are not more than the commands
(`FreshId`). `ProxyRepliesMatch` assumes `Narrow`, that the identifiers a debugger
chooses are below 2^16, because `send_generic_reply` keeps only 16 bits of one
(`cmd_jdwp.c:1719`); the instance that TLC checks satisfies it, and
`ProxyInOrder` does not need it.

### The components around it

* **Child.** `NoStranger` needs that a child that was waited for is marked dead
  before any signal is let in (`MarkedInTime`): the one window, between `waitpid`
  and `child->dead`, is inside blocked signals. `Recorded` needs `KeptWhole`: what
  was taken, what the recorder holds and what is in the pipe are together what the
  child wrote, whoever of the handler and the program moved it. Any set of process
  ids and children, any amount of output (`ChildAssumption`: recorders belong to
  children).
* **TtySave.** Any number of terminals and any arrangement of the channels
  (`TtyAssumption`). `TtyInv` says that an entry counts the channels that are raw on
  its terminal, wants what these ask for (`Shares`), and that the terminal is as the
  entry wants while shex runs and no SIGCONT is pending (`Synced`). The list has two
  shapes: properly linked in both directions if no two channels share a terminal
  (`Linked`), an entry linked to itself if all channels that have a terminal have
  the same (`Looped`). In the arrangements that `TableSound` excepts (`Mixed`) there
  is nothing to say about the list, and the rest of the invariant holds without it;
  with input and output on one terminal and error on another, the search does not
  end before the third entry could be linked. `SetUpTo` follows the first three
  insertions pointer by pointer. `Restore` is shown once to keep `Good`, and the
  step in which shex exits applies it three times.
* **Daemon.** `TypeInv` says what each place implies (`Role`). `NobodyStranded` is
  inductive with `QueueInv`: a process is at most once in at most one backlog, and
  waits there for what it asked for unless it has ended. `LaunchInv`, under
  `~overlap`, says that one process at most is starting a daemon, that the file
  names every daemon that serves, and that a launch goes on only when the daemon it
  found has been told to exit (`StopsIt`); from it `OneDaemon`. `AloneInv`, under `~disturbed`, says that one
  process is active, nobody that has ended is left in a backlog, and a client in its
  second attempt goes by the name of a daemon of its version that serves (`Finds`,
  `Retries`); from it `AloneGetsDaemon`.
* **Xfer.** `StreamInv` says that the messages on the wire continue where the
  receiver stands, for a receiver whose connection did not break inside a message:
  there are positions `P`, one per message, each the previous one plus a piece, from
  the receiver's offset to the sender's. `P` is a witness that grows and shrinks
  with the queue, so again no sum is needed. `ContentInv` says what the file
  holds at each place of the receiver, when no other transfer has the same file
  open: a prefix of the source, holes from preallocation behind it until
  `ftruncate`. `FailureCleansUp` says what a failure leaves: nothing, or in place and
  without write access to the directory the file under its own name.
  `SuccessIsWhole` follows from `ContentInv`, and with `TargetInv` `NeverPartial`, where
  `~Torn` excludes the case that `xfer_torn` shows. Any number of transfers, of
  sizes, of chunk sizes and of faults (`XferAssumption`).
* **RingBuf.** For every width of `size_t` and every capacity that `nextpow2sz`
  yields. The refinement maps the counters to the bytes between them; what has to
  be proved is that masking the counters gives the right places although they
  wrap around (the capacity divides `2^Bits`) and that a region split at the end of
  `mem` is still one run of bytes. That the result of rounding is a power of two
  is a least-element argument over exponents. `PowersAssumption` states the two
  equations that define powers of two, of which the provers know nothing; TLC
  evaluates it.

### What the proofs changed

Two models were wrong, or ambiguous, where TLC had found nothing. `TtySave` left
out that `LIST_REMOVE` also writes through the pointer to the previous entry; the
invariant of the list could not be kept without it, and with it a third arrangement
of the channels turned out to reach freed memory. In `Connect`, the cases of `Plan`
and `Switched` overlapped, which TLC resolves in their order and TLA+ does not; they
now exclude one another as the code's sequence of tests does. `PacketsInOrder` used
to compare filtered sequences; it now says the same packet by packet.
**Only model-checked.** All liveness properties and everything that rests on
`ENABLED`, which are out of the prover's reach. `AdbEnc` and `JdwpWire`, which are
defined by recursion over their input. `Launch` and `Reslist`, whose properties
compare sequences that were filtered or folded (`SelectSeq`, the environment built
by a list of operations, the resources of a list), so that every step needs a fact
about such a function for sequences of any length. Of `JdwpProxy`, `NamesSound` and
`ReferencesHeld`: they relate the cache, its flushing and the application's counts,
and counting needs a sum over the packets under way. `Timeout` has a liveness
property only.

## What is not modelled

* Within the session: `turn`; `c->err` of sources (nothing reads it); a pty
  together with `--no-ctty`, which shex does not combine; LZ4's output bytes; the
  10 ms timer of `FBADB_CHANNEL_NONBLOCK_HACK`, whose effect is a temporary error.
* Setup: the local stub, the wording of `chat.c`'s dialogue, the protocol of the
  package's service, IPv6 apart from IPv4, device selection.
* Daemon: a stub that listens in the foreground (`stub -l`), reaping of the stubs
  it forked.
* Transfer: destinations that are not regular files, modes, times, and names
  within directories.
* JDWP: how the application's debug socket is found, the bytes of the handshake,
  logging of payloads; what a VM does beyond counting, loading and unloading.
* Library: error converters, `hack_die_on_quit`, texts of errors; descriptors
  handed to children.
* The dex tools and the agent, option parsing, device information commands, logging,
  system-call wrappers and vendored code: one-shot programs or no state of their own
  worth checking.

## What is left

1. `JdwpProxy`: `NamesSound` for any number of classes, on top of the invariant of
   `JdwpProofs`; it would add what each identifier under way means, in terms of the
   cache and the fakes at the time it was written.
2. `Launch`: `StartedAsAsked` for environments and command lines of any length, with
   the list rewritten position by position instead of filtered.
3. `Reslist`: `OwnedOnce` and `NothingLeaks` for any number of resources and nesting.
