# A TLA+ model of the Longhorn instance manager

The instance manager is the daemon that runs on every Longhorn node. It starts,
replaces and stops the engine and replica processes of the v1 data engine, hands
out the ports they listen on, tells its clients what happens to them, and forwards
the calls about v2 (SPDK) instances to the SPDK service. This directory holds TLA+
modules for the concurrent core of that program, the TLC configurations that check
them, and TLAPS proofs.

`PROJECT.json` lists the runs, the source lines each definition models (`map`), the
hazards of the code with the properties that cover them, the disagreements between
code and documentation that the runs exhibit (`findings`), and the theorems.

    tlc -workers 2 -config ReplaceDelete.cfg MCProcessManager
    tlapm ProcessManager_proofs.tla

## 1. The system

| Part | Code | State it keeps | Operations | Modelled by |
|---|---|---|---|---|
| Port bitmap | `vendor/.../go-common-libs/bitmap` | free positions, a cursor | AllocateRange, ReleaseRange | `Bitmap`, `PortAllocator`, abstract `PortPool` |
| Process manager | `pkg/process/process_manager.go` | the registry by name, the bitmap, the update channel | ProcessCreate, ProcessReplace, ProcessDelete, ProcessWatch, ProcessLog, monitor, mount point checker | `ProcessManager`, `UpdateChannel`, `LogStream` |
| Process, command | `pkg/process/process.go`, `command.go`, `healthchecker.go` | state, ports, command, deletion time stamp | Start (run and probe goroutines), StopWithSignal | `ProcessManager`, `UpdateChannel` |
| Event broadcaster | `pkg/util/broadcaster` | subscribers and their buffers | Subscribe, unsub, stream | `Broadcaster` |
| Instance service: watch | `pkg/instance/instance.go` | per call: streams, `notifyChan`, an errgroup | InstanceWatch, watchProcess, watchSPDKEngine, watchSPDKReplica, handleNotify | `InstanceWatch` |
| Instance service: other calls | `pkg/instance/instance.go`, `log.go` | none | create, delete, get, list, replace, log, suspend, resume, switch-over, delete-target, log levels and flags | `EngineOps`, `Services`, `LogStream` |
| Daemon | `app/cmd/start.go` | servers, signal channel | start, signal handler, cleanup | `Daemon` |
| Proxy | `pkg/proxy` | none (backup credentials pass through the environment) | the volume, replica, snapshot, backup and backing image operations, per data engine | `EngineOps`, `Services` (the watch on backing images: no) |
| Disk service | `pkg/disk` | an SPDK client | disks and their replicas, per disk type | `EngineOps`, `Services` |
| Clients | `pkg/client` | a connection | a method for each call: argument checks, conversions | `ClientOps`, `Services` |
| Logs | `pkg/util/log.go` | a file per process | Write, StreamLog | `LogStream` |
| Health servers, API types, CLI | `pkg/health`, `pkg/api`, `app/cmd` | none | conversions, I/O | no |

How they interact. A gRPC handler of the process manager registers or replaces a
process under `Manager.lock`, takes ports from the bitmap, and starts the process.
`Process.Start` spawns two goroutines, one that runs the command and one that probes
its port; `StopWithSignal` spawns one more that signals and later kills; `ProcessDelete`
spawns one that waits for the process to stop and removes it. All of them change the
process under its own lock (with one exception, below) and send it on one unbuffered
channel. The monitor takes it, looks it up and broadcasts it; the broadcaster copies it
to every `ProcessWatch`; the instance service's `InstanceWatch` is a client of that
and of two SPDK watches. `ProcessLog` reads the log file of a process through a goroutine
of its own and streams it to `InstanceLog`, which streams it to its client. The daemon
runs one gRPC server for each service; a signal, or the end of any of them, stops them
all, and the process manager's then deletes every process. The other calls of the instance service and all of the proxy's
look up the operations of the request's data engine and call the process manager, the
volume's controller, its replicas, or the SPDK service, one or several times.

What is hard here: five kinds of goroutine work on one process, the registry is
re-evaluated after waits of up to a minute, ports are returned by three different
paths, an unbuffered channel ties all goroutines to a reader that needs their locks,
and a slow or dead client must not stop anybody. A shutdown meets calls that are in the
middle of all that. The forwarding handlers are hard in
another way: some make several calls of which any may fail, with or without having had
its effect, and what they do about it differs from one to the next. The properties below
are about these.

What makes each part correct: the bitmap neither loses a port nor gives it out twice;
the process manager keeps that promise for its processes and has one unstopped process
per name; a stop ends in a stopped process; updates pass without deadlock and end with
the truth; a watcher gets every update or is told it has missed one; a watch call
returns and closes its streams; a log arrives in order and complete; a shutdown ends,
and warns every process first; what a client is told is what was done.

## 2. Modules

### Port bitmap: `Bitmap`, `PortAllocator`, `PortPool`

`Bitmap` has the algorithm as operators on the set of free positions and the cursor,
so that both `PortAllocator` (the bitmap alone, with any callers that return what they
got) and `ProcessManager` (the bitmap as the manager uses it) can own one.
`Candidates` are the positions at which the rounds of `findAt`'s outer loop start. The
inner loop consumes the element after a gap before it notices the gap, so the next
round starts one element late (`NextRound`); this is translated as it is. The library's iterator is
`NextFree`. A bitmap mutex is held for the whole of each call, so a call is one step.

`PortPool` is what a caller relies on: a range handed out was free and is nobody
else's until given back, and what is not held is free, so no port is lost. `PortAllocator`
implements it, and so does `ProcessManager` for the ports its processes hold
(`ImplementsPortPool` of each).

### Process manager: `ProcessManager`, `MCProcessManager`

Each create or replace call makes one `Process` with a UUID of its own, so the calls
are the processes (`Procs`). `main`, `run`, `probe`, `stop` and `del` say where the
call, the run goroutine, the probe goroutine, each StopWithSignal call with its
goroutine, and each delete call with its unregister goroutine are. One action is one
critical section, or one step between two points at which another goroutine can
interfere:

| Code | Actions |
|---|---|
| argument checks, log file | `Reject` |
| registerProcess | `RegisterProcess` |
| Process.Start | `Start`, then `RunStart`, `RunExit`, `RunSetState` and `ProbeServing`, `ProbeGivesUp`, `ProbeSetRunning` |
| initProcessReplace, same binary | `InitProcessReplace` |
| the poll of ProcessReplace, stop, commit, cleanup | `ReplacePoll`, `StopDecide(<<"old", p>>)`, `ReplaceCommit`, `CleanupReplacementProcess` |
| StopWithSignal | `StopDecide`, `StopSpawn`, `StopRunning`, `StopNotRunning`, `StopSetStopped`, `StopWait` |
| ProcessDelete, unregisterProcess | `FindProcess`, `UnregisterProcess`, `UnregisterWait`, `UnregisterCommit` |

`StateStopped` and `StateError` are one value, `"stopped"`: every test of the
state in the code treats them alike.

The probe may find a process serving at any time, also one that is not: the command it
runs is given a minute by `ExecuteWithTimeout`, which on a time-out wraps an error that
is still nil and so returns none (util.go:56).

Two details carry weight. The stop goroutine reads and writes the state without the
lock when the command is not running: these are two steps. And the probe goroutine
sets the state to running whatever it was.

Time is abstracted: every wait that counts its rounds may end at any moment, having
seen what it waits for or not, and the 60 seconds after which a stop is retried with a
kill may have passed whenever a deletion time stamp is there. Sends on the update
channel change nothing in this module (a send that waits is a step that comes late).
Which executables exist, whether a process answers on its port, ends, and with which
result are free choices.

### Locks and updates: `UpdateChannel`

The same goroutines, reduced to what they lock, send, and do to the registry.
`Manager.lock` is a Go `RWMutex`: a writer that waits keeps new readers out, which is
what makes reader-under-reader deadlocks possible, so waiting writers are part of the
state. The checker visits the processes under `Manager.lock` for reading, taking each
`Process.lock`, and sends only after it has returned. Each process has one thread for
its run, probe and stop goroutines, which all lock, change, unlock and send, and one
unregister goroutine.

### `Broadcaster`

Subscriptions with bounded buffers, the stream goroutine, the goroutines that drop slow
consumers, and `ProcessWatch` as consumer. The module models the broadcaster's whole
contract: cancelling a subscription and closing the input are in the code although the
process manager does neither (its context is never done and its channel never closed).
The item being sent to all subscribers under the mutex is one step.

### `InstanceWatch`

One call: making the clients, the watchers, `handleNotify`, the deferred hand-over to
the goroutine that closes the clients, the errgroup's context, and `g.Wait`. The three
watchers run the same code and are the elements of `Watchers`.

### The daemon: `Daemon`

`Daemon` extends `ProcessManager`. It adds the servers (`serve`, `stopped`), the signal
buffer of one (`sigs`), the handler, and `cleanup`. A call of a client must reach the
process manager's server before it is stopped (`Arrive`); `Stop` does not wait for
handlers, so what has arrived goes on. cleanup deletes by name, after a list that may be
out of date by then, with deletes of its own beside those of clients: the names are the
delete calls it makes (`Names` is part of `Deletes`), and everything such a delete does is
the `FindProcess` and so on of `ProcessManager`. `ServeFails` is the end of a server
without a signal; it gets the others stopped by the deferred send. `Return` ends the
daemon and, by the parent death signal, the processes. Only the first signal is ever
read, so `sigs` records that there was one.

### Logs: `LogStream`

One call of `InstanceLog` with the `ProcessLog` behind it and the goroutine of `StreamLog`
behind that, while the process goes on writing. Lines are numbers. `HandOver` is the
unbuffered `logChan`, `SelectDone` the unbuffered `doneChan`; `wire` is the gRPC stream
between the two services, with a window, which may break. After a failed `Send`,
`ProcessLog` waits on `doneChan` until the goroutine comes to its `select`, which it never
does if it waits on `logChan` itself or has ended.

### Forwarding: `ClientOps`, `EngineOps`, `Services`, `MCServices`

`ClientOps` has, for every method of the proxy, instance and disk clients, what it
refuses before it sends anything, and what becomes of the data engine (every name that
does not end in v2 is V1, so the checks for an invalid one never fire) and of the type of
a disk (some methods refuse an unknown one, some send 0, the filesystem).

`EngineOps` has, for every operation of the proxy, of the instance service and of the
disk service and each data engine or type of disk, its plan: the sequence of calls the
handler makes, each given by what the handler does if that call fails (return the error,
keep it and go on, put it into a successful answer, ignore it). `Unimplemented` answers
with an error, `Stub` with a success, neither having called anybody. The plan of V1
`SnapshotBackupStatus` ends in a search among the replicas.

`Services` runs methods and plans: `ClientCall`, `SetEnv` and `GetBackupCredential` (one
environment variable per step), `Dispatch`, `Connect`, `CallSucceeds`, `CallFails`,
`FetchBackupStatus`, `Finish`, and `Told` for what the method returns in the end.
`ForeignRequest` is a request that these clients never send but a server must answer.
Requests run concurrently and share the environment and the instances, of which one of
each kind is enough to be listed or missed. The services that are called are external:
any call may fail, before or after having had its effect. The deferred `Close` of a
client, the conversion of answers and the logging of errors are left out; so are the
deadlines of the clients: handlers do not look at the context of the request and go on,
and a client whose deadline has passed is told an error.

The model records some things a reader of the code may not expect. Seven V2 operations
and the delete of a V2 engine without cleanup succeed without doing anything, V2
`SnapshotPurge` does not look at its error, and `LogGetLevel` of V2 answers the level of
the daemon, which `LogSetLevel` of V2 does not set (`Silent` lists them). A remount of a
volume that is not mounted succeeds. Without SPDK the block disk operations have no
client, and would panic; the model has the disk service with its client. Backup requests that
overlap can mix their credentials, since each sets and reads the process environment
(`OwnCredential` is about the others). And the search for a replica "which has the
corresponding backup" (backup.go:161) takes the first readable replica: the
`FetchBackupStatus` of the engine's `sync` package puts its error into the status and
returns none, so the search never goes on (run `backup_search`; `BackupAt` are the
replicas that have the backup). The caller gets that status, so for `SuccessMeansDone` the
error is reported, like a `TaskError`.

## 3. Properties and runs

| Run | Instance | Shows |
|---|---|---|
| `port_allocator` | 7 ports, counts 1-3 | `ImplementsPortPool`: no port lost or had twice. `RefusedOnlyWithoutLongerRun`: a request is refused only if no run one longer is free. `NoQuickReuse`: ports below the cursor are reused only if nothing fits above it (for ranges, with one port to spare) |
| `port_refusal` (violation) | 4 ports, counts 1-2 | the search refuses a request that fits: with 0, 2, 3 free, 2 ports are not found |
| `replace_delete` | a create, a replace, a delete of one name, 1 or 2 of 2 ports | `PortAccounting`: every port is free or held by one process. `RunningHoldsPorts`: who runs without its ports has a deletion timestamp. `OneOwner`: of the processes ever registered under a name at most one runs that has none. `StoppingEnds`: a stopping process always has a goroutine that will end it or record its end, however stops, probe and the end of the command race. `ImplementsPortPool`: each step takes one free range, gives one back, or leaves the pool alone |
| `shutdown` | the daemon with two servers; a create and a delete in flight beside the delete of cleanup | `AllToldToStop`: when cleanup is over, all that was registered as it began has its deletion timestamp, and what ran then without one (`live`) has ended, was killed or is being stopped, whatever the calls in flight did. `ShutdownEnds`: a signal or the failure of a server ends the daemon. `StopEndsProcess`: a signalled process ends or is taken for stopped. `DeleteRemovesStopped`: a delete that has returned is carried out for a process that stays stopped, also after an earlier delete has given up |
| `orphan` (violation) | a create and a delete | a delete before Start leaves a running process nobody knows |
| `update_channel` | a create, and another or a replace, of one name; deletes; checker | `NoDeadlock`: while somebody is in a section, waits for a lock or sends, somebody can go on. `SendsAreTaken`: every send ends. `DeletionRemembered`: the update that will announce a deletion is never lost. `DeletionAnnounced`: a name that stays removed is announced as deleted |
| `broadcaster` | 2 subscribers, buffers of 2, 4 items | `NoSendOnClosed`, `CompleteOrDropped`, `SlowWatcherEnds` |
| `instance_watch` | 3 watchers, buffer of 2, 4 items, 2 retries | `UpdatesReachClient`: who watches hears of an update. `StreamsClosed` and `ReturnsUnlessFull`: how a call ends. `NotStranded`: once the context is done the goroutines are never all blocked, but for a full `notifyChan` |
| `instance_watch_full` (violation) | 2 watchers, buffer of 1 | a watcher blocked on a full `notifyChan` keeps the call for ever |
| `log_stream` | up to 4 lines, 2 under way | `LogComplete`: lines in order, and all that were there before a clean end. `InstanceLogReturns`. `LogEndsUnlessSendFails`: a failed `Send` is the only way for `ProcessLog` and its goroutine not to end |
| `services` | any method of a client beside a backup, delete or list | `SuccessMeansDone`: no error is lost on the way to the caller. `EveryNameTried`: `SnapshotRemove` goes on. `ListComplete`: a list taken in three parts. `OwnCredential`: what other requests left in the environment is not used. `OnlyBlockDisks`: no type of disk but block ever reaches a disk |
| `backup_search` (violation) | as `services`, the backup at the second replica | the status of a backup is answered for a replica that has no such backup |

Every module has one type invariant; the ones of `ProcessManager` and `UpdateChannel`
also say that no handler uses a process it has not found and that a lock is held only
inside the section it guards, and that of `Services` that a backup request is dispatched
with all its variables set. `NoDeadlock`, `DeletionRemembered` and `NotStranded` are the
safety halves of `SendsAreTaken`, `DeletionAnnounced` and `ReturnsUnlessFull`, the part that
can be proved: `CanGoOn` of `UpdateChannel` and of `InstanceWatch` names the states in which
a goroutine can take a step without anybody outside.

Runs of terminating systems (a fixed set of calls, bounded items) stop when everything
has ended, so they do not check deadlock; a goroutine stuck before its end is what
`SendsAreTaken`, `StopEndsProcess`, `ShutdownEnds`, `SlowWatcherEnds`, `StreamsClosed`,
`ReturnsUnlessFull`, `InstanceLogReturns` and `LogEndsUnlessSendFails` look for. `PortAllocator` never stops, and deadlock is checked.

### Bounds

* `Size`, `MaxCount`: 7 ports with counts up to 3 allow two gaps with runs of every
  length between them, a cursor in every position, and a search that wraps.
* `Creates`, `Replaces`, `Deletes`: each conflict the code guards against is between two
  calls on one name. The runs have a commit against an unregister and a delete against a
  launch, with the process they are about.
  The proofs remove this bound for the safety properties (two replaces of one name at
  once, where the second to commit gives up its replacement, and the re-creation of a name
  under two late deletes are in no run but in the proof). Different names meet only in
  the bitmap, which the proofs and `port_allocator` cover.
* `PortCounts`: 1 and 2 with a pool of 2, so that two processes fit or the second is
  refused; 0 in `shutdown`, which is about the end of processes and not their ports.
* `MaxUpdates`, `MaxChecks` (`UpdateChannel`): one update per process beside those of its
  calls and one round of the checker; a deadlock needs one blocked send and one holder.
* `Capacity`, `MaxItems` (`Broadcaster`; 100 in the code) and `Capacity`, `MaxRetry`,
  `MaxEvents` (`InstanceWatch`; 1024 and 10 in the code): the buffer fills with items to
  spare, and the retry limit is reached.
* `Servers` (`Daemon`; four or five in the code): the process manager's and another, since
  the others are alike.
* `MaxLines`, `Window` (`LogStream`): the file grows during the call, the wire fills with a
  line at each of the three goroutines, and lines are left when the connection breaks.
* `Items`, `Replicas`, `Keys` (`Services`): 2 of each, the least number with an error that
  another call follows, a replica to prefer, and a half set credential. The second request
  asks only for what touches shared state; two requests without it do not meet.
* Symmetry is used only for safety runs, on calls of one kind, names and binaries.

### Fairness

Weak fairness for goroutines that can run on: the Go scheduler runs every runnable
goroutine, mutexes do not starve, and every loop that waits counts its rounds. A killed
process ends. Nothing is assumed of clients (calls need not come), of commands (a
process need not exit, answer or obey a signal) or of streams (an item need not come;
a Recv on a closed client does fail). `UpdateChannel` needs only that some goroutine that
can go on does, since only finitely much is begun; `Daemon` likewise, and only of the
goroutines that stop, delete, serve and handle the signal, since the loops of these are
counted. `LogStream` has the fairness of each of its three goroutines. `srv.Send` returns, with an error if
the client is gone.

### What the violations show

1. `findAt` (bitmap.go) skips the element after a gap, so "Look again from the bottom" may
   still miss a free range. `RefusedOnlyWithoutLongerRun` bounds the damage: one port.
2. `ProcessDelete` between `registerProcess` and `Start`: the stop goroutine finds no
   command and marks the process stopped; it is unregistered; `Start` does not look at the
   state and runs the command. No call can name that process any more. Its deletion
   timestamp is set, so `OneOwner`, `RunningHoldsPorts` and the first half of
   `AllToldToStop` leave it out: it may run beside its successor, on ports that were given
   away, and during a shutdown it is cut off by the end of the daemon without a signal.
3. `InstanceWatch`: once `handleNotify` has ended nobody drains `notifyChan`. A watcher that
   holds an item while the channel is full blocks on it, which closing the clients does
   not undo. `ReturnsUnlessFull` shows that this is the only way not to return.
4. V1 `SnapshotBackupStatus` without an address: the search stops at the first replica in
   mode RW, whether it has the backup or not, and the caller is told that there is none
   although the next replica has it.

## 4. Proofs

`Bitmap_proofs` has the lemmas on the bitmap. What a search that succeeds returns is free
and inside the range (`FindAtFits`, `SearchFits`), and what allocation and release do to
the set of free ports (`AllocateEffect`, `ReleaseEffect`, `ReleaseNothing`,
`InitialPorts`). They assume only that the range starts above port 0 and is not empty.

What a search that fails says of the bitmap depends on what the recursive function
`Candidates` computes. The induction is on sets and not on predicates, which the provers
cannot instantiate: a set of naturals that is not empty has a least element
(`LeastElement`, from the well-foundedness of `<`), and the least counterexample is refuted
from the one before it. The lemmas go from the library's iterator (`NextFreeIsFirst`) to the
end of a run (`RunEndIsGap`), the next round after it (`NextRoundIsLater`), the existence of
the function and its recursive equation (`RoundsExist`, `CandidatesAreRounds`), and that its
values increase until there is none left (`RoundsIncrease`). A run of one port more than was
asked for is then found: the last round that starts no later than the run either reads on
into it, and fits, or ends before it, and then the next round starts at its second element,
the first having been read past the gap (`LongerRunIsFound`, `FindAtMisses`); a single port
is found if there is one.

`PortAllocator_proofs` proves, for every size and count, `TypeOK`, that no port is lost or
had twice (`Conservation`), that the bitmap implements `PortPool`, and, from the lemmas
above, `RefusedOnlyWithoutLongerRun` (`RefusalBounded`) and `NoQuickReuse`
(`QuickReuseAvoided`). The inductive invariant is `TypeOK`, `Conservation`, and that
every held range is non-empty.

`ProcessManager_proofs` proves, for any number of calls, names, binaries and ports,
`TypeOK`, `PortAccounting`, `RunningHoldsPorts`, `OneOwner` and `StoppingEnds`. The invariant `IInv` is
`TypeOK /\ Bookkeeping /\ PortAccounting /\ Stopping`:

* `Bookkeeping` ties the registry to the calls: a registered process is registered under
  its own name by a call that got that far, a call that has not begun holds no ports, and
  the ports of a process are none or a range of the pool;
* `PortAccounting` alone is not inductive: a release is harmless only since the process
  that gives its ports back is, by `Bookkeeping`, a holder at that moment;
* `Stopping` says why a process that leaves the registry has ended or has its timestamp: its
  command exists only if it was started (`Commands`), a process whose state says it is
  stopping or stopped either has ended or never ran or carries a deletion time stamp
  (`StatesTrue`), a StopWithSignal call that has returned leaves such a process behind
  (`StopsTrue`), and so does everything a delete or replace removes (`RemovalsTrue`).

It also proves that the process manager implements `PortPool` (`Implementation`). Every step
keeps the ports of all processes and the bitmap, or gives one process that held nothing a
free range, or returns the range of one holder (`PortCases`); the second and the third are a
step of the pool, since by `PortAccounting` no two holders have the same range (`PoolStep`).
`PortAccounting` itself is kept by the same three cases.

`StoppingEnds` is inductive with `RunsCommand`, that the goroutine of `Start` is in `cmd.Run`
exactly while the command runs: whoever is to end a stopping process hands it on (a stop
goroutine that has signalled it, to the goroutine that runs it) or has made it stopped
(`StoppingStep`). `RunsCommand` is not part of `IInv` since the end of the daemon breaks it.

`LogStream_proofs` proves, for any number of lines and any window, `TypeOK` and
`LogComplete`. That the client has all lines is not inductive: lines are also with the
scanner, with ProcessLog and on the wire. The invariant `IInv` is
`TypeOK /\ InOrder /\ Whereabouts /\ Progress`:

* `InOrder` says that what is under way follows what the client was sent;
* `Whereabouts` counts: while the connection is up, what was sent and what is under way is
  all that was scanned, but for a line that StreamLog's goroutine or ProcessLog still has;
* `Progress` says what the place of a goroutine tells of the others: InstanceLog at its send
  has a line, ProcessLog returned without an error only after the channel was closed, and
  a scan that was not cut had reached what was there at the call.

`UpdateChannel_proofs` proves, for any number of processes, names, updates and rounds of
the checker, `TypeOK`, `NoDeadlock` and `DeletionRemembered`. `TypeOK` lets a call be in its
section without the lock and is not inductive; the invariant is
`Types /\ Waiters /\ Exclusive /\ Others`:

* `Waiters` says that exactly those goroutines keep readers out that wait for `Manager.lock`;
* `Exclusive` says that whoever is in a section of `Manager.lock` is its one holder, and that
  a reader shuts writers out;
* `Others` ties each `Process.lock` to its section and the monitor's update to its place.

`NoDeadlock` then follows by cases on who is busy: a holder of a lock can always go on,
since nobody sends or waits in a section except the checker for a `Process.lock`, whose
holder can; without holders a waiting writer gets `Manager.lock`, and without waiters the
monitor does, after which it takes the next update.

`Broadcaster_proofs` proves, for any number of subscriptions, any buffer and any number of
items, `TypeOK`, `NoSendOnClosed` and `CompleteOrDropped`. The invariant adds to them that a
subscription not yet made has left no trace (`Fresh`), that one which missed an item is
about to be dropped (`MissedDropped`), and `NoGap`: what was received and what is in the
channel are consecutive and end with the last item, element by element, since the equality
of sequences in `CompleteOrDropped` is not what a step keeps.

The second part of `ProcessManager_proofs` is about the daemon, for any number of servers,
calls and names: `DaemonTypeOK`, `AllToldToStop` and, through a shutdown, `PortAccounting` and
`ImplementsPortPool` (`DaemonImplementation`). It stands on the first, which uses nothing of
the daemon: every step of the daemon is a step of the process manager or
`Return` (`ManagerSteps`), so its `IInv` holds in the daemon too. To that the invariant adds
where the servers are before and after the daemon runs (`Phases`), that cleanup deletes each
name with a call of its own (`OwnDeletes`), and `CleanupTrue`: every process on cleanup's list
was registered and has ended, or has its timestamp, or is still to be deleted, or is the very one
the delete under way is about to stop. The last case needs that a delete which finds another
process under the name, or none, does so because the listed one left the registry, and
nothing leaves it without having ended or having its timestamp (`Stopping` of the process
manager). The second half of `AllToldToStop` needs `LiveTrue`: of a process that ran unstopped
when cleanup listed it, every stop comes later, so it finds the command, and its state says
stopped only once the command has ended; no stop goroutine then leaves it without a kill.

`InstanceWatch_proofs` proves, for any set of watchers, any buffer, retry limit and number
of items, `TypeOK` and `NotStranded`. The invariant adds to the types that the goroutines are
started together or not at all (`Started`), that `handleNotify` ends only by releasing the
closer (`Ends`), and that a call that has returned has no goroutine left that could send on
the closed channel (`NoSendAfterReturn`). If then nobody can go on, the handler has ended and
the clients are closed, so that a watcher which is left waits in no Recv, only for room in
`notifyChan`: the state that run `instance_watch_full` exhibits is the only one.

`Services_proofs` proves, for any number of calls, replicas, variables and items and whatever
operations the calls may ask for, all invariants of the run `services`. Its first part
is about the operators: the names of the operations (`ProxyNames` and so on), that the plan
of each request fits it (`PlanFit`: only a silent operation answers without a call or drops
an error, and no plan is longer than the bound), the plans the properties single out
(`ProxyPlan`, `InstancePlan`, `DiskPlan`), and what the methods of the clients send
(`Requests`). The invariant says of each call

* `Requested`: the server has a proper request, for a block device only if the caller
  named one;
* `Progress`: each call of the plan that lies behind the handler was performed, or its error
  is kept, or it is one that may be dropped; and what the answer then means (`Ended`);
* `ListKnown`: what stayed is there, and was found if its kind has been asked for;
* `CredentialKnown`: the variables set are the call's own until it has read them;

and `Alone` of all: two calls in the environment at once are both known to overlap. A step of
one call leaves what is known of the others alone (`Elsewhere`, `OthersKept`); the one
exception, the environment, is where `Alone` is needed.

Each `IInv`, and each strengthening, was first checked with TLC. The step lemmas have one case per action, with one
step per conjunct the action can disturb.

Assumptions: those named in the modules and evaluated by the runs (a non-empty range above
port 0, at least one item, `None` no address of a replica, and the like); nothing else.

Only model-checked: the liveness properties `SendsAreTaken`, `DeletionAnnounced`,
`SlowWatcherEnds`, `UpdatesReachClient`, `StreamsClosed`, `ReturnsUnlessFull`,
`InstanceLogReturns`, `LogEndsUnlessSendFails`, `ShutdownEnds`, `StopEndsProcess` and
`DeleteRemovesStopped` (fairness and ENABLED are out of the prover's reach), and what the
four violations show. Every other property of a passing run is a theorem.

## 5. Not modelled

* `SPDKBackingImageWatch` (pkg/proxy/backing_image.go) has the structure of `InstanceWatch`
  with one watcher and the same notify channel; a module of its own would repeat it.
* ProcessGet and ProcessList of the process manager only read; VersionGet of all services.
* What `start` sets up before it serves: the logger, the unfreezing of file systems, TLS, the
  addresses, the SPDK target, which is another program and is stopped after the daemon.
* The health servers answer whether the server object exists; the command line is I/O
  around the process manager client; API types and metadata are data.
* Conversions between request, answer and API types, which copy field by field.
* Data races on the contents of a response (`Conditions` is shared, not copied).

## 6. State of the work

Modelled: the bitmap and its refinement, the process manager, locks and updates, the
broadcaster, the instance watch, the clients and the forwarding handlers, the daemon, the
logs. Proved: all safety properties the passing runs check, the action property on the cursor, and
both refinements of the port pool.

What could follow: the state history of a process (running after stopped); repeated
same-binary replaces against the size of the pool; the counting of items in `InstanceWatch`
as a safety property beside `UpdatesReachClient`.
