# Verification of the openpilot setup internet debugger

TLA+ models of `src/cmd/debugger`, the program that scans a network for comma
devices, diagnoses why their setup says "Waiting for internet", and can repair
a device's dongle id, apply a workaround for its modem state or install custom
software on it. TLC checks the models on small instances; TLAPS proves the
theorems for every value of the constants.

    tlc -config dongle_pair.cfg MCDongleRepair      # a run; see "Runs"
    tlapm DongleRepairProofs.tla                    # the proofs

## 1. Inventory

The program is one process that runs once and ends. It keeps no state of its
own between runs; what lasts is on the device.

| part | state | operations | interacts with |
|---|---|---|---|
| main flow (`main.go`, `repair.go`) | flags, the readers of standard input, report, log file | check flags, open log, menus, discover, probe, choose, ask, exit | everything, in order |
| LAN discovery (`lan.go`) | – | routes, interfaces, fallbacks | the operating system |
| scan targets (`targetsFromCIDR`, `lan.go`) | list of targets, list of skipped addresses | one loop over a block of addresses | called by `discoverTargets` |
| device scan (`scanSSHReachability`, `diagnoseReachableDevices`) | two channels, a wait group, N workers; the reports | feed, probe or diagnose, deliver, close, wait, collect, sort | SSH client; the report |
| diagnosis of a device (`diagnoseTarget`) | one `Diagnostics` | 16 remote commands, HTTP checks, classification | SSH client |
| SSH client (`ssh_client.go`) | a connection, a goroutine and a channel per command | connect; run a command with a time limit | the device's sshd |
| dongle id repair (`repair.go`) | on the device: the mount of `/persist`, `dongle_id` | preflight, two questions, a script, read back, reboot | SSH client, operator |
| modem workaround (`workaround.go`) | on the device: `/dev/shm/modem` | preflight, questions, script, look again | SSH client, operator, modem service |
| custom install (`custom_install.go`) | on the device: `/data`, the tmux session | plan, questions, a script | SSH client, operator, git, processes of the device |
| text report (`report.go`) | – | prints the reports | device scan |

**Where it is hard.** Inside the program: a pool of goroutines whose results
are read only after all of them have returned; results filed by index; devices
whose reachability is decided twice; a goroutine per command that outlives the
command's time limit; three buffered readers over one standard input, whose
errors are never looked at. Between the program and the device:
`executeCommand` gives up after a time limit, but the script it has started
goes on, is killed at some point, or has not started yet. The operator then
runs the program again, and two scripts work on the same files. Nothing in the
program excludes that. On the device: commands that fail half-way, a read-only
mount that has to come back, page caches and losses of power, a service that
writes the same file, scripts that look for a process and may find themselves.
On the computer: interfaces that change while they are looked at, unsigned
integers that wrap around at the end of the address space.

**What makes each part correct.**
- Repair: an id that is there is replaced only with approval; nothing is
  written before the confirmation; no script that ends well leaves `/persist`
  writable; what is reported as verified is on the disk; the session returns.
- Install: no two scripts work on `/data` together unless a kill has missed; no
  checkout is lost; a script that ends well has installed what was planned, and
  it lasts.
- Workaround: the modem service's file is replaced only with approval; a
  workaround reported as applied has left a JSON object.
- Scan: every target is probed once and every reachable one diagnosed once, the
  reports are those of the targets, in order; the pool never blocks itself; the
  report can be printed.
- SSH client: a command returns its own output or none; what a command leaves
  behind disturbs no later one and ends.
- Diagnosis: what hangs or dies costs its own answer only; the verdict is that
  of a request that was made.
- Discovery and targets: the address is one its interface has had, the network
  is the address's, and every interface that goes before it has been without
  one; the targets are exactly the hosts of the block, each once; the loop ends.
- Main flow: a device is written to only after everything that guards the write
  was said, in answer to the question that was asked; without a person the
  program ends.

`PROJECT.json` lists every hazard at its line with the properties about it.

## 2. Modules

| module | models | role |
|---|---|---|
| `GuardedRecord` | what every guarded action promises of the record it writes | abstract specification of the three actions |
| `DongleRepair` | `repair.go`, `executeCommand` | any number of repair sessions against one device |
| `ModemWorkaround` | `workaround.go`, `executeCommand` | any number of workaround sessions, and the modem service |
| `CustomInstall` | `custom_install.go`, `executeCommand` | any number of install sessions against one device |
| `InstallerBranch` | the two copies of the branch migration | functions |
| `RemoteCommand` | `connectSSH`, `executeCommand` | one connection, its commands, their goroutines |
| `FieldScripts` | `runRemoteField` and the scripts it runs | component of `Diagnosis` |
| `HttpChecks` | the HTTP script, its parser, `classifyDiagnostics` | component of `Diagnosis` |
| `Diagnosis` | `diagnoseTarget` | composes the two |
| `WorkerPool` | the pool of goroutines and its two channels | component of `DeviceScan` |
| `DeviceSurvey` | a scan, one device after the other | abstract specification |
| `DeviceScan` | `main` from the probe to the report, both passes of the pool | extends `WorkerPool` |
| `LanDiscovery` | `discoverActiveLAN` and the routes of three systems | component of `TargetDiscovery` |
| `ScanTargets` | `targetsFromCIDR` and its callers | component of `TargetDiscovery` |
| `TargetDiscovery` | `discoverTargets` | composes the two |
| `MainFlow` | `main`, the menus and questions, standard input, `waitForExit` | the program from its flags to its end |
| `…Proofs` | | theorems about the module they are named after; those of `InstallerBranch` are in `CustomInstallProofs` |
| `MC…` | | instances for TLC |

### DongleRepair

A session is one run of the program that has chosen the repair. `pc[s]` is
where `runDongleIDRepair` is: `id`, `connect`, `preflight`, `overwrite`
(the question), `confirm`, `exec`, `verify`, `reboot`, then how it returned.
`script[s]` is the next command of its script on the device: `remount_rw`,
`mkdir`, `open` and `write` (the two halves of `tee`), `sync`, `remount_ro`,
`check`; `trap` stands for the EXIT trap, which is armed from the first remount
to the second. `file` is `dongle_id` as programs see it, `disk` as it would
survive a loss of power; a write-back, a sync or a remount to read-only makes
them equal. Ids are a set, what an operator types is a set of texts, and
`NormalForm` is `normalizeDongleID`.

Every command of the script may fail (an action with two disjuncts). A remount
to read-only may be refused for any reason, and is while another script's `tee`
has the file open; one that the trap cannot make either ends the script as
`stuck`, which the client cannot tell from any other error.
`ExecuteFails` needs no other reason than that the client is waiting: it is the
time limit, the lost connection, and the branch of the `select` that is taken
when the result is ready as well. Afterwards the script may go on, die at any
command, or run its trap (`OrphanDies`); a request that was sent may start
after its client has returned (`StartScript` does not look at the link).

The blank file is a value of its own because `tee` truncates before it writes,
and because `parseDongleIDPreflight` takes it for a missing file.

### ModemWorkaround

The same shape on another record: `connect`, `preflight`, `replace`, `confirm`,
`exec`, `verify`. The file is in `/dev/shm`: `Restart` empties it. It belongs
to the modem service, which may write its state between any two steps
(`ServiceWrites`); it is taken to write a new file and rename it, so that a
`tee` that has the old one open writes to nothing any more (`detached`). The
script looks at its result (`CheckObject`: a JSON object, its own or the
service's); the client's second look asks only whether there is a file.

### CustomInstall, InstallerBranch

The same shape: `url`, `connect`, `plan`, `replace`, `confirm`, `exec`. The
script is one command per action, and `set -e` ends it at the first that fails.
`data` is the part of `/data` that matters: the checkout, the clone in
`/data/tmppilot`, the backups, the launcher and the URL. A clone is absent,
partial, whole, or damaged: what several processes have written or deleted in.

`Rivals` is the step the part hangs on. Before it touches `/data` the script
kills every process with one of three paths on its command line, to stop the
setup and the wrapper. The needles are spelled in two halves so that the killer
does not find itself, but line 409 of `custom_install.go` holds
`/usr/comma/comma.sh` in one piece, and a login shell has the whole script on
its command line. So the script of another session is killed as well, as far as
the kill succeeds: nothing of this step fails the script, and it may miss any
rival (`StopWrapper`). `spared` remembers the scripts that were at work and
missed. The `rm` or `git` a killed shell was waiting for goes on (`orphans`) and
deletes from the directory or writes into it, file by file (`Meddle`,
`RemoveSome`). Two scripts at this step may kill each other. Whether a wrapper
is running is left out.

`InstallerBranch` has the branch migration twice, as the code has: the nested
switches in Go, which only a test calls, and the chain of conditions in the
Python text that runs on the device.

### RemoteCommand

One connection as `diagnoseTarget` uses it: dial, handshake under a deadline,
the step that takes the deadline back (`HandOver`; it may have fired since the
handshake), then N commands, one after the other. Each has a goroutine
that waits for the output and sends it into a channel of its own with room for
one, while the caller waits for the channel or the time limit, whichever it
takes. A command that was given up leaves the goroutine, and perhaps the
process, behind (`closed`, `cut`); the network may lose the connection once.

### FieldScripts, HttpChecks, Diagnosis

`FieldScripts` walks through the fields of the report. A field is a limit and
the commands of its script, each with a limit of its own, whether that is
caught, whether it runs in the environment of the setup process, and the pause
after it. At the time limit of the field everything is dropped (`GivesUp`); when
the connection is lost, at any moment, what has come in by then is shown
(`BrokenReturns`), and nothing of the fields that follow. Time is counted in half
seconds; the table `Fields` is the limits of the code. `spent` is a history of
what the commands that ended by themselves have taken.

`HttpChecks` is the script that tries the URL by itself and with the environment
of the setup process, one interpreter after the other, and what the program
makes of its lines: `ParseHTTPChecks`, the check that is made up when there is
none, and the check that decides (`Deciding`: the first one for `HEAD` of the
setup environment, or the first plain one when there is none). A check keeps the
number of the line it was parsed from, so that the first one is the one with the
least number. `Matching` is what `find_setup_process` may take for the setup
process, the login shell included.

`Diagnosis` does the fields first and the checks afterwards, on the same
connection, whatever became of the fields.

### WorkerPool, DeviceScan, DeviceSurvey

`next` is the position of the feeder's loop, `held[w]` what a worker has:
a device, `Idle` or `Left`. A send on the unbuffered channel and its receive are
one action, `Feed`. `results` is the buffered channel with its `capacity`.
`DeviceScan` runs the pool twice: for the probe over all targets, for the
diagnosis over the reachable devices. `CollectProbe` takes the reports as they
came and sorts them; `CollectDiagnosis` files them by index into a copy and
sorts. `SortDeviceReports` is any sorted arrangement, because `sort.Slice` is
not stable. `Received` gives the zero value past the end of a closed channel.
`DeviceSurvey` is what all this amounts to: visit every target once, then every
reachable one once more. The refinement mapping counts a device as visited as
soon as its report is in the channel.

### LanDiscovery, ScanTargets, TargetDiscovery

`LanDiscovery` reads the route the way each system prints it (`os`) and then
looks at the interfaces up to three times: by the source address, by the name,
and for any private address. Each look is a call that lists interfaces
(`FromSource`, `FromName`, `Fallback`) and then one call per interface for its
addresses (`AskNext`). They may change between any two calls and up to the return
(`InterfaceChanges`), and every call may fail (`CallFails`). `had` is a history of
the settings with which an interface may have been read, which is what a LAN put
together from several moments can be measured by.
A row of a route table is a record of the columns that parse; a table of Windows is
read a row per step, with the best row so far, as `parseWindowsRoute` does. `Net`
gives an address its block.

`ScanTargets` is the loop over a block, one address per step, in integers of
`Width` bits that wrap around. `Reason` is what the skip map holds after all of
its entries have been made, later ones replacing earlier ones.

`TargetDiscovery` begins the loop with any block (`--cidr`) or with the network,
the address and the gateway that were found.

### MainFlow

`pc` is the step `main` is at or the question it waits for. Standard input is
what has arrived in the buffer of the current reader (`buf`), one read at a
time (`Fill`): a line from a terminal, what was written so far from a pipe, all
of it from a file. `promptStartupMenu`, `main` and `waitForExit` each make a
reader of their own (`NewReader`), which drops what the one before has read
ahead. At the end of the input `ReadString` returns an empty text and an error
that nobody looks at: a blank line with no number. A line is one of `Lines`;
each question says which of them it takes. `os.Exit` goes to `gone` without the
deferred `waitForExit`. Discovery, probe and the device are choices here: they
are the other modules.

## 3. Runs

| run | instance | shows | distinct states |
|---|---|---|---|
| `dongle_pair` | 2 sessions, 2 ids, 4 texts, 2 command lines, 1 outage | two repairs, or a repair and its retry, at once: a mount that does not come back is no repair, seen ids are replaced only with approval, a verified id lasts, and the whole is a `GuardedRecord` | 538,984 |
| `dongle_single` | 1 session, all 20 command lines, 2 outages | alone, a session replaces only with approval, and it returns | 21,188 |
| `dongle_unasked` | as `dongle_pair` | **violation** | |
| `scan` | 3 workers, 4 targets | the reports, their order, the channel's room, the survey, and that the run comes to its end | 35,544 |
| `targets` | 4-bit addresses, 2 interfaces, 1 change of them or call that fails, all three systems, or any block | the network is the right one of those its interface has had, whatever changes between two calls; every block from /0 to the single address gives its hosts and no others | 1,362,939 |
| `install_pair` | 2 sessions, 2 URLs, 1 branch and 1 session each, 1 outage | one script at a time unless a kill misses, nothing lost, what ends well is installed and lasts | 584,275 |
| `modem_pair` | 2 sessions, 1 restart | what a session was shown is replaced only with approval, applied means a JSON object, a `GuardedRecord` that its owner writes too | 11,360 |
| `remote` | 4 commands, 1 loss of the connection | answers are a command's own, the handshake's deadline breaks nothing once it is taken back, the caller returns or waits for `NewSession`, no goroutine stays | 38,036 |
| `diagnosis` | all fields with their limits, then the HTTP script with 2 causes and 2 interpreters | hangs and deaths cost no other answer while the connection lasts; the verdict is witnessed | 357,602 |
| `http_shell` | as `diagnosis` | **violation** | |
| `flow` | 23 command lines, 4 kinds of input, 8 lines, 6 typed or 3 piped, 0 to 2 devices, Windows | a write was asked for and said, answers meet their questions, an unattended run ends | 201,692 |
| `flow_window` | a terminal, both systems | **violation** | |

**Why the bounds are enough.** Two sessions are enough for every interference
that the properties speak of: each says what one session may rely on while
another does anything. Two ids, so that a session can find another one's id
and, with two texts for one id, its own; a malformed text, so that the error
path is taken. An outage can come at every point; the second one in
`dongle_single` comes after the first has been recovered from. The two sessions
of `install_pair` install different branches (`DifferentURLs`), so that nothing
passes because one checkout is taken for the other, and once no outage can follow
nothing is written back between two commands (`NoIdleWriteBack`); the proofs make
neither restriction. Three workers
and four targets leave a worker without a job and one with two, in each pass,
and let results overtake one another. Four bits give blocks with no, one, two
and many hosts and the block that is the whole address space, where the size
wraps to 0. Two interfaces and one change, which is also the bound on calls that
fail, let the network that the route names vanish, move or be replaced between two
calls. Four commands let three that
were given up be behind the one that runs. The limits in `diagnosis` are those
of the code, with every duration of every command up to them. Three piped lines
get through the action menu, a question and the phrase; six typed ones from the
startup menu to the reboot of a repair on one of two devices. Where there is a
proof, the bound no longer matters.
Sessions are interchangeable, hence the symmetry in the runs with two of them,
which check safety only.

**Deadlock** is not checked: every session, scan, connection and run ends, and
the device is left as it is. Whatever waits for itself would show in a liveness
property.

**Fairness.** All of it is weak, and stated in the modules.
- `dongle_single`: a session that can take a step does (`WF_vars(Client(s))`).
  The operator answers, and every wait for the device is bounded by
  `connectSSH`'s and `executeCommand`'s time limits. Nothing is assumed of the
  script.
- `scan`: goroutines that can run do, and a job ends, by the same limits.
- `remote`: what the client does, and the deadline fires. A goroutine is
  assumed to wake, and `NewSession` to return, only once the connection is down:
  nothing is assumed of the device, neither that a process ends nor that it
  answers the handshake or opens a session.
- `flow`: the program goes on, and an input that is not a person comes or ends.
  Nothing is assumed of a terminal.

`NewSession` (`ssh_client.go:44`) has no time limit. `CallerReturns` therefore
says that the caller returns *or* waits there for ever on a connection that stays
up. `dongle_single` and `scan` look at the sessions from further off and assume
that sshd opens them or the connection fails: without that `SessionReturns` and
`ScanEnds` do not hold of the code.

**The violations.**
- `dongle_unasked`. `README.md:57-58` says of `--overwrite-dongle-id` "Allow
  replacing an existing /persist/comma/dongle_id during repair", and the program
  asks when the flag is not given. `ReplaceOnlyApproved` says so and holds for
  one session (`dongle_single`). With two it does not: both read `MISSING`, both
  ask for the confirmation only, the first writes its id, and the second's script
  truncates it without looking. `SeenIdReplacedOnlyApproved` is what remains
  true with two and is proved for any number, and so is `ReplaceOnlyApproved` as long
  as no other session has been confirmed (`ReplacesApprovedAlone`).
- `http_shell`. `diagnostics.go:756-758` tells the operator that the check
  "passed from the setup process environment". The search takes the first
  process with `/usr/comma/setup` on its command line, and the login shell that
  runs the search has that text on its own. With no setup process at all the
  check is reported as passed from its environment.
- `flow_window`. `exit_windows.go:12-13` says that `waitForExit` prevents "the
  console window from closing immediately when the executable is
  double-clicked". `main` defers it and leaves by `os.Exit` on every error,
  which runs no deferred call.

**What else the models show.** These are no findings: no line of the repository
promises otherwise.
- `VerifiedIsDurable` needs the other sessions to write other ids: with the same
  id twice, the read-back of one may see what the other has written and not yet
  synced.
- `OneInstaller` and `EndsInstalled` hold because of `Rivals` and fall without
  it, so the safety of a retried install rests on a path spelled in one piece in
  a warning at the end of the script, and on a kill whose failure is ignored
  (`custom_install.go:355`): with a rival that was missed (`spared`), two scripts
  share `/data`. Even a kill that hits leaves an `rm` or `git` at work, and an
  install can end well with a damaged checkout, since all that is asked of it is a
  directory `.git`.
- `/persist` may stay writable: the trap ignores the failure of its remount
  (`repair.go:258`). Only a repair whose own remount was refused is reported as
  failed; nobody is told about the mount.
- The handshake's deadline may fire between the end of the handshake and the line
  that takes it back: the connection that is handed over is then broken, and every
  field of the report is empty.
- The LAN found may mix networks: the gateway is the route's although the
  interface has gone to another network since. There the host with that address is
  not probed (`SparesOwnAndRouter`).
- A connection that breaks shows what a script had printed by then, without a sign
  that it was cut short; only the time limit drops it.
- The modem script ends with "contains an empty JSON object" (`workaround.go:165`)
  after it has seen any JSON object; it may be the service's.
- The HTTP checks have 6 seconds for requests of 2 seconds each, four with one
  interpreter. A device on which every `HEAD` has passed slowly gets `FAIL` for
  a check that is made up; a network that drops packets uses up the limit before
  the setup environment can report `TIMEOUT`, so that the hint for it is hardly
  ever given. As a check is always made up, the status `UNKNOWN` is never given.
- The stability test has 22 seconds for 12 samples of up to 2 seconds and 11
  pauses: when every request times out, none of the samples is reported.
- Of each interface only the first IPv4 address is looked at: a private address
  in second place is not found.
- After the startup menu has read a file, nothing of it is left for the
  questions that follow (`FileAfterMenuNeverActs`). The four questions without a
  default ask for ever at the end of the input (`UnattendedRunEnds`).
- With `--json` the heading goes to standard output before the report.

Every property of a passing run has a mutant: a definition of the module changed
the way a plausible bug would, for which TLC finds the property violated.
The mutants stand beside the definitions they change (`…Mutant`).

## 4. Proofs

| module | theorem | property |
|---|---|---|
| `DongleRepairProofs` | `TypeCorrect` | `TypeOK` |
| | `ReadOnlyAtRest` | `PersistReadOnlyAtRest` |
| | `SurvivesOutage` | `VerifiedSurvivesOutage` |
| | `SeenIdGuarded` | `SeenIdReplacedOnlyApproved` |
| | `LoneReplacesApproved` | `ReplaceOnlyApproved`, of a single session |
| | `ReplacesApprovedAlone` | the same of any number, one of which alone has been confirmed |
| | `ReportedIdDurable` | `VerifiedIsDurable` |
| | `RepairImplementsGuardedRecord` | `RepairIsGuarded` |
| `ModemWorkaroundProofs` | `TypeCorrect` | `TypeOK` |
| | `ShownGuarded` | `ShownReplacedOnlyApproved` |
| | `AppliedHoldsObject` | `AppliedIsObject` |
| | `WorkaroundImplementsGuardedRecord` | `WorkaroundIsGuarded` |
| `CustomInstallProofs` | `TypeCorrect` | `TypeOK` |
| | `OneInstallerAtATime` | `OneInstaller` |
| | `InstalledLasts` | `InstalledSurvivesOutage` |
| | `CheckoutsKept` | `CheckoutsNeverLost` |
| | `ScriptEndsInstalled` | `EndsInstalled` |
| | `AsideApproved` | `AsideOnlyApproved` |
| | `InstallImplementsGuardedRecord` | `InstallIsGuarded` |
| | `MigrationsAgree` | the two copies agree on every branch and device type |
| | `MigratesOnce` | a migrated branch is migrated to itself |
| `RemoteCommandProofs` | `TypeCorrect` | `TypeOK` |
| | `AnswersOwn` | `AnswersAreOwn` |
| | `DeadlineHarmless` | `OnlyTheNetworkBreaks` |
| | `NoGoroutineWaits` | a goroutine that has its output finds room for it |
| | `HangsOnlyThere` | of the waits on a connection that is up only `NewSession` has no limit |
| | `CallerRunsDown` | the caller of N commands is done in 2N + 3 steps of its own |
| `DiagnosisProofs` | `TypeCorrect` | `TypeOK` |
| | `HangIsLocal` | `HangCostsItself` |
| | `DeathIsShown` | `DeathKeepsSamples` |
| | `WitnessedVerdict` | `VerdictIsWitnessed` |
| | `SetupDecides` | `SetupEnvDecides` |
| `DeviceScanProofs` | `TypeCorrect` | `TypeOK` |
| | `NeverBlock` | `ResultsNeverBlock` |
| | `TargetsMatched` | `ReportsMatchTargets` |
| | `NoCrash` | `NeverCrashes` |
| | `ScanImplementsSurvey` | `ScanIsSurvey` |
| | `NeverStuck` | until the scan is over somebody can go on |
| | `ScanRunsDown` | a scan of n targets by k workers is over within 6n + 2k + 6 steps |
| `TargetDiscoveryProofs` | `TypeCorrect` | `TypeOK` |
| | `WindowsRoute` | `LeastMetric` |
| | `LanIsRight` | `RightLAN` |
| | `Spares` | `SparesOwnAndRouter` |
| | `Exact` | `TargetsExact` |
| | `Accounted` | `AllAccounted` |
| | `TargetsFeedScan` | the targets are what `DeviceScan` assumes of them |
| `MainFlowProofs` | `TypeCorrect` | `TypeOK` |
| | `WriteAfterWords` | `WriteWasSaid` |
| | `FileNeverActs` | `FileAfterMenuNeverActs` |
| | `LinesFollow` | `AnswersFollowOn` |

All three guarded actions are thus proved to be `GuardedRecord`s, for any number
of sessions, contents and outages; and every safety property of a passing run is
a theorem.

**DongleRepairProofs.** The inductive invariant adds to `TypeOK` what a session's
place in its run says of the rest: it has an id once it has connected, it was
confirmed if its script was ever sent, it has asked if it was shown an id and
the flag was not given, and, when it is the only one that was confirmed, what its
script has done so far is still what is in the file and, past the sync, on the
disk. That last part is what a script's end tells the client, and it is why a
read-back that agrees means more than that the text is in the page cache.
`RepairImplementsGuardedRecord` uses the same invariant for the mapping of the
grants: what a running script writes was granted. `Untouched` is for
`ReplaceOnlyApproved`: until the script of a session opens the file, and as long as
no other session has been confirmed, the file is what the preflight saw, so that
an id in it is one the session was shown. The preflight's answer is then as good at
the write as when it was given, which is what two confirmed sessions lose.

**ModemWorkaroundProofs.** `Stage` ties consent to the place of a session. `Object`
is the reason why the last look is enough: as long as the connection of a session
whose script has ended well lasts, the device has not restarted, and nobody but
the service has written since.

**CustomInstallProofs.** `OneInstaller` is inductive only together with `Stage`
(who has a script) because of the step that kills the rivals: of two scripts past
it, one was killed by the other or is in `spared`. `Work` says what each command of
the script may take for granted of `/data` as long as nobody was spared: after the
first move there is no checkout, after the second the planned one and no clone,
and what is in `/data/tmppilot` before is the planned clone, or spoilt if an orphan
goes on. `Sources` is about what anyone may have made there, with rivals that were
missed as well, which is what the grants of `GuardedRecord` need. `Unshown` carries
"there was no checkout" from the plan to the move, `Lasting` and `Untouched` speak
of the single session, and `OnDisk`, that every checkout on the disk is in the page
cache as well, makes `CheckoutsNeverLost` hold across the write-backs.

**RemoteCommandProofs.** A channel holds outputs of its own command only (`Own`);
it is empty until its goroutine has sent (`Unsent`), which is why room for one is
enough; the commands ahead have no goroutine (`Ahead`); no deadline is left once the
connection is handed over (`NoDeadline`), which is all that `DeadlineHarmless` needs.
`HangsOnlyThere` and `CallerRunsDown` are what `CallerReturns` and `GoroutinesEnd`
rest on besides fairness: on a connection that is up the handshake has its deadline,
so that `NewSession` is the one wait for the device without a limit; `TimeOut` is
open to every wait for an output; and what is left behind by a caller that has
returned is on a connection that is down.

**DiagnosisProofs.** For the fields: a script that has ended has an entry for every
part unless it died, which one that catches its timeouts cannot, or found no setup
process (`Come`). `Timed` bounds the time a script with one hang has used by what the
others took, its pauses and the longest of its limits; that this leaves room within
the limit of the field is shown for each of the fifteen (`FieldsAreAffordable`). For the checks, the invariant is about what was printed
(`Printed`) and what was made of it (`Parsed`): every line is that of a check, one
for `HEAD` that names an outcome is backed by a request in `tried`, and the first
line of the setup environment for `HEAD` is the first outcome in `reported`, before
any line with a cause of the script's own. The verdict is a `CHOOSE` of the least
line number, which exists because a number of lines is finite. The proof of
`SetupDecides` shows that the repetitions of a second interpreter come later in the
table, and so never take the place of the first one's.

**DeviceScanProofs**, for every set of workers and every list of targets in
ascending order. The invariant counts: every device handed over is held by one
worker or has one result in the channel, never both and never twice (`Once`,
`Covered`, `Counted`), so that there is always room for what is held; a result
carries the address of its index (`Addressed`, `Told`); the copy that results are
filed in is still that of the probe (`Fresh`). `TargetsMatched` needs that two
arrangements sorted by address of reports with the addresses of the targets are
equal position by position: addresses are distinct, so a sorted
arrangement is the only one.

`NeverStuck` and `ScanRunsDown` are what `ScanEnds` rests on besides the fairness of
the goroutines. `SomebodyCan` is the disjunction of the guards of the actions. While
the jobs channel is open, a worker is idle or has a device and room for its report;
when it is closed, a worker can return or all have, and then there is a sorted
arrangement to go on with: the reports are as many as the targets, so the function
from arrival to target has an inverse. `StepsLeft` counts three steps for a device
ahead of the feeder, two for one that a worker has, one for the close and for each
worker that is to return; every step takes at least one of them.

**TargetDiscoveryProofs**, for every width of an address, every table and every
set of interfaces. `RouteInv` says that the best row so far is the first of the
least metric among those read; `LanInv`, that the gateway is the route's. `LookInv`
follows a lookup through its calls: the interfaces that a loop has been through have
been without what it looks for, in terms of the history `had`, which only grows, and
a loop is reached only when the one before has been through all of them. `RightLAN`
is inductive with it. `BlockInv` carries the address and the gateway
to the loop over the block. `LoopInv` and `Lists` are about that loop: the block
starts at a multiple of its size, a power of two, so that neither its end nor an
increment inside it wraps around; what has been passed is in the lists, each
address once, the targets in order. That powers of two grow, divide one another
and are positive is proved by the least exponent for which it fails, since the
induction theorems cannot be instantiated.

**MainFlowProofs.** `Guarded` says what has been said by the time `main` gets
somewhere; the action and the device survive every later question because each is
asked by one reader under one name. `Numbered` keeps the lines in the buffer
consecutive with the last one used; `FileRead` says that after the startup menu a
file is at its end and the later readers have only blank lines.

The assumptions are the named ones of the modules (`ConstantsAssumption`,
`WorkersAssumption`, `TargetsAssumption`, `WorkaroundAssumption`,
`InstallAssumption`, `RemoteAssumption`, `HttpAssumption`, `FlowAssumption`,
`LanAssumption`, `WidthAssumption`, `BlockAssumption`): that
the special values are none of the ordinary ones, that there is a worker and
finitely many of them (`parseFlags` sees to it), and what the flags, tables,
settings and bounds are. That targets are distinct and ascending, which
`DeviceScan` assumes, is `TargetsFeedScan`.

**Only model-checked** is liveness: `SessionReturns`, `ScanEnds`, `CallerReturns`,
`GoroutinesEnd` and `UnattendedRunEnds`. Fairness speaks of `ENABLED`, which is out of
the prover's reach. Of `ScanEnds`, `CallerReturns` and `GoroutinesEnd` the
part without fairness is proved.

## 5. What is not modelled

- The texts: what the read-only commands print, how the report is laid out. They
  are I/O. `setupTeeLog` only doubles what is printed.
- `run` and `scanAndDiagnose` are not called by anything; the key and the version
  are constants.
- A second program on the device that writes `dongle_id` or `/data/openpilot`
  on its own.
- In `CustomInstall`, two backups with the same second in their name (the second
  lands inside the first; neither is lost), a file system that reorders its
  journal, a shell command other than `rm` and `git` that outlives its shell, and
  whether a wrapper is running.
- In `MainFlow`, files longer than the buffer of a reader (4096 bytes), and a
  context that is cancelled: `main` uses `context.Background()`.

## 6. Plan

The order is that of the damage an error would do; every point is done unless it
says otherwise.

1. `DongleRepair` with `GuardedRecord`, its runs, its proofs.
2. `WorkerPool`, `DeviceScan` with `DeviceSurvey`, their run, their proofs.
3. `CustomInstall` with `GuardedRecord`, its run, its proofs; the two copies of the
   branch migration.
4. `ModemWorkaround`, with the modem service, its run, its proofs.
5. `RemoteCommand`, its run, its proofs.
6. `FieldScripts` and `HttpChecks`, composed in `Diagnosis`, their runs, their proofs.
7. `LanDiscovery` and `ScanTargets`, composed in `TargetDiscovery`, their run, their
   proofs.
8. `MainFlow`, its runs, its proofs. Open: a composition of it with `DeviceScan`
   and the three actions in one module; today they meet at the same lines of
   `main`, each with the others as a choice.
9. The halves of the liveness properties that need no fairness: done for `DeviceScan`
   and `RemoteCommand`. Open: that `MainFlow` without a person is never stuck and
   asks only so often. (A session of `DongleRepair` only goes forward, and every one
   of its waits can be given up: there is nothing to prove.)
