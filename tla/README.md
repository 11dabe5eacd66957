# TLA+ models of the AUDia LLM Gateway

This directory holds models of the gateway's own control logic: what happens
between the edit of a configuration file, the generator, the containers, the
launcher, the installer and the monitoring service. They are written from the
source. TLC checks them on small instances, and TLAPS proves every safety property of
them for every instance. Only the liveness properties have no proof.

To repeat a check: `tlc -config calm.cfg MCConfigWatcher.tla`, and for the
proofs `tlapm ConfigWatcherProofs.tla` and so on for each `*Proofs.tla`.
`PROJECT.json` lists the runs, the mutants, the theorems and, for each
definition, the source lines it stands for.

| module | subject | runs | proofs |
|---|---|---|---|
| `ConfigWatcher`, `ConfigSync` | hot reload: watcher, generators, start-up of the containers | `calm`, `disk`, `wild`, `lost_edit` | `ConfigWatcherProofs`, `ConvergenceProofs` |
| `ProcessManager` | the native launcher | `launch_posix`, `launch_windows`, `launch_wild` | `ProcessManagerProofs` |
| `Provision` | start-up of the llama.cpp container | `provision` | `ProvisionProofs` |
| `Installer` | release tree, components, install state | `install`, `retry` | `InstallerProofs` |
| `Dashboard` | monitoring: manifests, actions, logs | `dashboard` | `DashboardProofs` |
| `Layers`, `Catalog`, `Proxy`, `Generator` | what the generator computes | `catalog` | `GeneratorProofs` |

`Induction` has what the proofs about lists and recursive functions rest on.
Each `MC<module>` gives the constants of its module small values for TLC.

## The system

A deployment is a set of containers (`docker-compose.yml`) or of native
processes (`src/launcher/process_manager.py`), which run from generated files.

| part | state it keeps | operations | talks to |
|---|---|---|---|
| sources: `config/project`, `config/local`, env files | YAML layers, `KEY=value` lines | edited by the operator | read by the generator, env files also by the gateway entrypoint |
| generator: `config_loader.py`, `generate-configs` | `config/generated/*` | load and merge, build, truncate and write seven outputs in order | run by the watcher, the gateway entrypoint and the launcher |
| watcher: `watcher.py` | `last_run`, `started_at`, the snapshot of a run | drop or accept an event, regenerate, compare, restart or reload | watchdog, generator, Docker socket |
| gateway container: `gateway-entrypoint.sh` | phase of start-up | read key, generate, wait for config and database, run LiteLLM | generator, generated files |
| llama.cpp container: `provision-runtime.sh` | effective catalog, provisioned binaries with a signature | load catalog, provision variants, wait for the llama-swap config, run llama-swap | generated files, release servers |
| vLLM container: `vllm-entrypoint.sh` | - | wait for the config, parse it, run vLLM | generated files |
| nginx container | the configuration loaded | reload on SIGHUP | watcher |
| Compose | dependency and health state | start in order, restart | all containers |
| process manager: `process_manager.py`, `health.py` | `.runtime/services/*.json`, the detached processes | start, stop, status, start-all, stop-all | generator, operating system |
| installer: `release_installer.py` | release tree, cache, install state | sync, install, match the cache, download models | release servers, file system |
| monitoring service: `src/monitoring` | executions and history, log ring buffer and subscribers, manifests | execute an action, statistics, stream logs, load manifests | Docker, HTTP clients |

### What is hard

* **Two generators.** The watcher restarts the gateway, and the gateway runs the
  generator again when it starts. Both truncate and rewrite the same seven files
  with no lock, while the other containers read them.
* **Dropped events.** Within two seconds of a run (or five of the start) an event
  is discarded, and nothing remembers it.
* **Snapshots.** What is restarted is decided by comparing hashes taken before
  and after the run, while the files may be changing for other reasons.
* **Partial failure.** A generator can fail after some outputs; three builders
  run with their output already truncated; Docker calls fail and are only printed.
* **Restarts.** Every container restarts on failure: `set -e` in the gateway's
  entrypoint turns a bad source into a restart loop.
* **Process identity.** The launcher knows its processes by a pid in a file. It
  launches first and records after, checks first and signals after, and forgets
  a process before the process has ended.

### What makes each part correct

* Hot reload: when everything has come to rest, the files are what the generator
  would write and every container runs the newest version of what it reads; no
  container ever takes up an obsolete file, and only llama-swap, which does not stay
  with it, a half-written one; only containers whose input changed are restarted;
  a generator or a Docker call that fails does not end the observer thread.
* Process manager: at most one process per service, none forgotten; a start that
  succeeded means the service answers; a stop means it ends; commands end.
* Provisioning: a directory whose signature matches holds the binary that the
  signature names, across failed downloads and interrupted runs.
* Compose: the start-up order is attainable, and nginx finds its file.
* Installer: an interrupted install can be repeated; the recorded state
  describes the tree.
* Monitoring: every execution ends and is counted once; a restart that is reported
  has happened; a client gets each log line once and in order.
* Configuration: layers override setting by setting; the owner's macros win; what
  LiteLLM routes to, llama-swap serves; nothing runs that the support matrix excludes;
  behind nginx every link and path ends at the service it names.

## Plan

In the order of importance; 1 to 7 are done.

1. `ConfigWatcher`, with the abstract `ConfigSync` and the proofs.
2. `ProcessManager` and its proofs.
3. `Provision` and its proofs.
4. `Installer` and its proofs.
5. `Dashboard`: executor, runner, Docker handler, log buffer and streams, manifests;
   and its proofs.
6. `Layers` and `Catalog`: the builders, checked over families of configurations, and
   their proofs.
7. `Proxy`: the locations of nginx and the links of the landing page, and their proofs.
8. Left: the gateway settings of the monitoring service, and the texts of the systemd
   units and the MCP file.

The abstract specifications are `ConfigSync` (what hot reload promises), which
`ConfigWatcher` is shown to implement, and for the algorithms the reference
definitions next to them: `Settings` and `Overlaid` for the layering, `Reached` for
the profiles, for the proxy the links as the landing page labels them.

## ConfigWatcher

One module covers the watcher, the generators and the start-up of the
containers, because the interesting behaviour is in their interleaving.

**Content as versions.** `src[k]` is the number of the last edit that changed
what `k` should contain, `files[o]` the number that output `o` on disk was built
from, or `Torn` (truncated, or half written), and `running[k]` the number its
consumer runs with, `Torn`, or `Builtin`. `k` ranges over the outputs and `"env"`,
which stands for the master key in the env files. Two versions are equal exactly
when the hashes are; an edit that does not change an output leaves its number.

| variables | in the code |
|---|---|
| `src`, `bad`, `edits` | the sources: which outputs they determine, which builders raise on them |
| `files` | `config/generated/*` |
| `gen[g]` | the `generate-configs` process of the watcher or of the gateway: the output it is at, and its stage |
| `queue`, `grace`, `cooling` | watchdog's queue; `startup_grace_seconds`; `debounce_seconds` since `last_run` |
| `wpc`, `envChanged`, `before`, `todo` | `_regenerate_and_reload`: phase, `env_changed`, first snapshot, actions still to take |
| `svc[s]`, `running` | phase of each container's entrypoint, what it has taken up |

| actions | in the code |
|---|---|
| `EditConfig(S, B)`, `EditEnv(S)` | the operator saves a file: outputs `S` change, builders `B` raise |
| `GraceExpires`, `DebounceExpires` | the clock passes `started_at + 5 s`, `last_run + 2 s` |
| `DropEvent`, `AcceptEvent` | the early returns and the acceptance of `on_any_event` |
| `GenLoad`, `GenOpen`, `GenBuild`, `GenWrite` | `load_stack_config`; `open("w")`; the builder called inside `json.dump`; the write and the step to the next output |
| `RegenerationFailed`, `DiffOutputs` | the `except` clause; second snapshot, difference and decisions |
| `ObserverLost` | any other exception of the snapshots or of starting the generator, or a Docker call without an answer: no handler, and no timeout |
| `ReloadNginx`, `RestartContainer(s)`, `ActionFails(s)` | the four actions in order; `_safe_action` |
| `GatewayBoot` ... `GatewayLoad` | `gateway-entrypoint.sh`, which tests only that the file is not empty: half a file can be read |
| `LlamaLoadCatalog`, `LlamaStartSwap`, `LlamaSwapTimeout`, `SwapHotReload` | `provision-runtime.sh`, with the same test before llama-swap starts; llama-swap's `-watch-config`, which can also read half a file |
| `VllmLoad` | `vllm-entrypoint.sh`, which restarts until `json.load` succeeds |
| `WatcherCrash`, `ServiceCrash(s)` | `restart: unless-stopped` |

Abstractions, and why they are safe:

* A snapshot is one step. It reads eight files one after another; a mixture of
  earlier and later reads shows the same differences one file at a time.
* `nginx` stands for `nginx.conf` and `index.html`, written back to back and both
  answered by the same reload.
* `Init` is a deployed stack that has come up once; first-run seeding of
  `config/local` is not modelled, nor is the wait for the database.
* nginx.conf names the address of the container that generated it
  (`server_name`), so a run of the watcher may find it changed although no
  source was: `ForeignAddress` leaves that open.
* `docker restart` keeps a container's environment. The only thing an env file
  changes in a restarted container is the gateway's master key, and only when
  Compose has not set it (`ComposeKey`).
* The polling and the inotify observer differ in delay only; an event can be
  dispatched at any time after the edit. watchdog merges an event with an equal
  one at the end of its queue.
* A crash of the gateway or the watcher ends its generator where it is.

### Environments

`EditsOverlap` lets the operator edit while the last edit is still in flight.
`DockerFails`, `ThreadFails`, `Crashable` and `BadSets` say which faults occur; with
`ThreadFails` the observer thread can end for good (`wpc = "dead"`). `Unhurried` is:
no overlapping edits, the watcher does not crash, and its observer thread is not
lost. `Calm` is: `Unhurried`, and no faults. With `ComposeKey`, which the shipped
`docker-compose.yml` makes true, the gateway keeps the key of Compose, and the
properties do not ask it to follow the files (`KeyFollowed`); `calm` runs without it,
the theorems cover both.

The code does not guarantee these: they are the conditions under which it
works; `lost_edit` and the list under Runs show what happens without them.

### Runs

| run | instance | shows |
|---|---|---|
| `calm` | seven outputs, three edits, no faults, fair | `SettledConverged`, `OnlyAffectedRestarted`, `NeverObsolete` over all interleavings of the generators' steps with the starting containers; `Synchronised`: the stack implements `ConfigSync!Spec`, every edit reaches every container |
| `disk` | five outputs, two edits, bad sources, Docker failures, one crash; the generators overlap | `SettledFilesFresh` |
| `wild` | one output, everything allowed, fair | `WatcherSurvives`: the thread comes back after every failure that the code catches; `GatewayRecovers` |

`ConfigSync` has, for each key, the version wanted and the one in use. `Take` makes what
is in use the version wanted now; `MakeDo` makes it one of `StandIns`, which are the
built-in catalog and half a llama-swap file; `Take` is fair for the keys in `Followed`,
which are those of `RestartKeys` and llama-swap's file. So llama-swap may run with half a
file for a while, and no other container ever does.

Two edits are the smallest number in which a container can take up an obsolete
version, or a failed run can be followed by a repairing one; three add a second
regeneration by the gateway on top of a third run of the watcher. The five-output
instances leave out outputs nobody reads but keep one of each kind: hot-reloaded,
read at start, reloaded by signal, with a fallback, and built after the open.

The run `lost_edit` ends in a counterexample to a statement of the repository (the
quotation is in `PROJECT.json`): any change is to lead to a full generation pass, but an
edit in the debounce window is dropped.

More disagreements follow from the model without a run of their own:

* Outputs written by a failing run are never acted on: the next comparison starts
  from them (the builders raise after `open("w")`).
* llama.cpp can read the catalog half written, and stays with the built-in one.
* llama-swap can be started on half of its file: `provision-runtime.sh:651` waits for a
  file that is not empty, while the gateway may be writing it after the same edit of the
  env file. It reads the whole file once that is there.
* "Keeping watcher alive" (`watcher.py:147`) is so for `CalledProcessError` only: an
  `OSError` of a snapshot (`watcher.py:140`, `153`) ends the thread that `main` does not
  look after, and no call has a timeout (`watcher.py:93`, `142`).
* A key that Compose sets always wins in the gateway, but not in nginx.conf, so a
  change to the env file does not take effect at the next restart.
* `README.md:324` says that a restart of the gateway does not rebuild the generated
  files; the entrypoint runs the generator each time (`GatewayBoot`).
* The restarting gateway truncates files while the watcher may take its first snapshot
  (`AcceptEvent`), so with overlapping edits a container can be restarted that no edit
  concerned.

### Fairness

`FairSpec` gives weak fairness to each clock, each generator process, the
observer thread and each entrypoint: the operating system schedules each of
them, and none waits for another beyond its guard. The restart policies justify
fairness of the entrypoints after an exit. llama-swap is obliged to read its file only
while that is whole and not what it runs (`~SwapCurrent`). Edits, crashes, Docker
failures and the loss of the observer thread are never obliged to happen.

### Proofs

`ConfigWatcherProofs` proves, from `WatcherAssumption` alone, `Spec => []TypeOK`
(`TypeCorrect`), and with `Unhurried`, `Spec => []SettledFilesFresh` (`FilesFresh`).
`SettledFilesFresh` is not inductive. `DiskInv` says why it holds on the way: a run
is in progress only when the watcher waits for it, and the gateway for its own
(`WatcherWaits`, `GatewayWaits`); a waiting event will not be dropped
(`EventAccepted`); what a generator has in hand is the present version (`InHand`);
it cannot fail on sound sources (`NoFailure`); and each output is fresh, or some
generator has yet to pass it, or an event is still queued (`FreshOrPending`).

`ConvergenceProofs` adds, under `Calm`, three theorems from one further invariant
`ConvInv`: a settled stack has converged (`Converges`), only outdated containers are
restarted (`RestartsAffectedOnly`), and every step is a step of `ConfigSync` or a
stutter (`ImplementsSync`: `NeverObsolete`). Its core is `ServedOrDue`: a container runs the newest
version, or it is starting, or the run in progress will act on it, because the
snapshot is what the container runs (`SnapshotServed`) and the new file differs.
`NginxFirst` is the reason for the order of the four actions: while nginx's reload
is outstanding, no gateway is generating, so the file it reads is whole.

What stays with TLC: the liveness properties (`Synchronised`, `WatcherSurvives`,
`GatewayRecovers`), and the instances with overlapping edits or faults that the
theorems' assumptions exclude.

## ProcessManager

The native launcher is a command-line program: each invocation runs one operation
(`start-gateway`, `stop-nginx`, ...) or three (`start-all`, `stop-all`), and leaves
detached processes behind that it knows only by the pid in a metadata file. The
model takes an invocation step by step, because everything that can go wrong is
between two of its steps.

| variables | in the code |
|---|---|
| `meta[s]` | `.runtime/services/<s>.json`: missing, truncated (`Torn`), or the pid it names |
| `proc[p]` | the process with pid `p`: its service (or another program's), whether it listens on the service's port, whether it was sent a signal that ends it |
| `cmd[c]` | the invocation that caller `c` runs: the operations left, the stage of the first, the pid it holds, how the last one ended |
| `issued`, `faults` | counters for the bounds only |

| actions | in the code |
|---|---|
| `Invoke`, `Returns`, `Aborts` | `main`: the sequence of operations, and an exception that ends it |
| `FindMetadata`, `ReadMetadata`, `Probe` | `exists()`, then `json.load`, then `is_pid_running`, the same for start and stop; a file that has gone or is truncated raises |
| `Generate` | `load_stack_config`, `write_generated_configs` |
| `Launch`, `OpenMetadata`, `WriteMetadata` | `launch_detached`: `Popen`, `open("w")`, `json.dump` |
| `Answered`, `TimesOut` | `wait_for_any`: any process on the port may answer; nginx's timeout is ignored |
| `SignalNginx`, `Kill`, `RemoveMetadata` | `stop_nginx`, `stop_service`: `nginx -s stop`, SIGTERM or `taskkill /F`, `exists()` and `unlink()` |
| `Binds`, `BindFails`, `Ends`, `Dies`, `OtherStarts`, `Killed`, `Reboot` | the environment: processes, other programs, the interrupted command, the machine |

Abstractions, and why they are safe:

* What the generator writes is the subject of `ConfigWatcher`; here it only may raise.
* `nginx.enabled` is a constant: the enabling is not edited between commands.
* `json.load` and `int(pid)` are one step: the file is read whole or not at all.
* A process that has ended but was not waited for is gone. Its parent, the
  launcher, ends soon after, and then it is.
* A process that was sent SIGTERM keeps its port until it ends; `taskkill /F` is
  immediate.
* `status` changes nothing: it is the operator `Reported`. The health command only
  reads.

### Environments

`Orderly` is: one command at a time, none interrupted, pids not reused while a file
names them, and no service that daemonizes (nginx on POSIX does: `Daemons`). The
code does not guarantee these: they are the conditions under which it works.

### Runs

| run | instance | shows |
|---|---|---|
| `launch_posix` | POSIX without nginx, two callers in turn, four pids, four commands, two service deaths, exceptions | `OneProcess`, `StatusTruthful`, `StopReaches` |
| `launch_windows` | Windows with nginx, two callers in turn, four pids, four commands, exceptions | `StartMeans` |
| `launch_wild` | POSIX with nginx, two concurrent callers, three pids, two commands, every fault once, fair | `CommandsEnd` |

Four commands are enough for start, stop, start, stop of one service with every
stage of the earlier processes still around; a fifth repeats a situation already
seen. `OneProcess` and `StopReaches` do not hold of concurrent commands, and the
repository does not promise that: there is no lock.

On POSIX the nginx process that is recorded forks and ends, so `status` reports a
running nginx as stopped; and a start right after a stop can be answered by the process
that is still ending, while the new one cannot bind. `Orderly` and `StartMeans` exclude
both (`Daemons`, services that stay up on Windows).
The other two conditions of `Orderly` are needed as well. A start that is interrupted
between `Launch` and `WriteMetadata` (`CallerDies`) leaves a process that no stop
finds. After a restart of the machine another program can have the recorded pid
(`Recycles`), and a start then does nothing.

### Fairness

Each command is weakly fair: none of its calls blocks for good, the wait has a
deadline. Nothing is assumed of the services, of other commands or of the faults;
`CommandsEnd` holds without their help.

### Proofs

`ProcessManagerProofs` proves `Spec => []TypeOK` (`LauncherTyped`), which no run
repeats, from `LauncherAssumption`, and under `Orderly`, for every number of pids, callers and
commands, `OneProcess` (`OneEach`), `StatusTruthful` (`StatusRight`) and
`StopReaches` (`StopFinds`). None is inductive. `LaunchInv` adds what makes them so:
a stage belongs to the operation due (`Staged`), one command is busy (`OneBusy`), a
truncated file has its writer (`Whole`), each process that nobody stopped is in its
service's file or about to be written there (`Known`), each file names a process of
its own service or a dead one, and a stopped one only while a stop is under way
(`Named`), and what a command holds agrees with both (`InHand`). With `Kept` (what a
start launched is still there), on Windows and as long as services stay up, follows
`StartMeans` (`StartStands`). `CommandsEnd`, a liveness property, stays with TLC.

## Provision

`provision-runtime.sh` runs at each start of the llama.cpp container. It picks the
variants that the hardware can use from the catalog, and brings the directory of each
up to date; a signature file says what a directory holds.

| variables | in the code |
|---|---|
| `catalog`, `wanted` | the generated catalog, and the effective one that this boot reads, as a version per variant |
| `hw` | `HAS_NVIDIA`, `HAS_AMD`, `HAS_VULKAN` |
| `dir[n]` | signature, `bin/` and `lib/` of a variant, on a volume |
| `flaw` | a command has failed for the variant at hand, and the script goes on |
| `torn`, `passed` | history: variants signed after such a failure; variants whose signature a boot has read and not asked for |
| `meta`, `left` | in `/tmp`: release metadata, extracted archives |
| `pc`, `cur`, `todo`, `tried` | where the script is, its variant, the rows left, the variants tried |
| `errors`, `edits`, `faults` | whether anything failed in this boot; counters for the bounds |

| actions | in the code |
|---|---|
| `LoadCatalog`, `SelectVariant`, `Fallback` | probes and effective catalog, the loop over its rows, the CPU fallback |
| `Check` | the comparison of the signature, and the removal of `bin/` and `lib/` |
| `ResolveSource`, `Download`, `Extract`, `GitBuild` | the three kinds of source with their early returns |
| `OpenBinary`, `CopyBinary`, `OpenLibraries`, `CopyLibraries`, `Sign` | `cp` in two steps each, the signature |
| `LaunchSwap` | `exec llama-swap` |
| `EditCatalog`, `Restart`, `Recreate` | a new catalog; a stop at any command; a new container with an empty `/tmp` |

A version stands for everything the signature hashes. The built-in catalog is one
variant per backend, and any boot may fall back to it. Retries inside `curl` are one step.

Three failures go unnoticed: a `cp` under `find -exec` (line 539), the `cp` of the
libraries (546), and a configure command inside `if ! ( ... )` (457), where `set -e` is
suspended. The script signs what they leave. And a signature outlives its files: a boot
that asks for version 2 empties the directory under the signature of version 1, is cut off
half way through the copy, and when the catalog goes back to 1 (or falls back to the
built-in one) the signature matches again over half of version 2. The check at line 403 can see neither, so
`Unseen(n)` is the exception of the three safety properties: `torn` says exactly when the first
has happened to `n`, `passed` when the second may have. Everything else is not exempt:
restarts between any two commands, failed downloads and builds, leftovers in `/tmp`, a new
container, catalogs that come and go.

The run `provision` has a raw download, a source build and a release; two versions, one
edit, two faults (a crash at any command is one): a fault, the boot after it, and a fault
in that one. `Listed` keeps the catalogs few: each variant can be missing or be listed, and
the release is listed at another version than the built-in one, so that it goes back and
forth. `NeverMistaken` and `LaunchedSound` relate the signature to what the
directory holds at every step; `CleanBootInstalls` says that earlier boots leave nothing in
the way. `ComesUp` is liveness under weak fairness of the script, which `restart:
unless-stopped` justifies. It has an exception as well: `unzip` is called without `-o` (508), so
that over an extraction that was cut off it asks, reads the end of its input, and fails; `set -e`
ends the script, and so it goes at every boot until the container is recreated.

`ProvisionProofs` proves `TypeOK` (`TypeCorrect`) and, under `Trusting` (a newer archive
overwrites what an older one left in the extract directory; no bound on variants, versions,
edits or faults), `NeverMistaken` (`NothingMistaken`) and `LaunchedSound`
(`LaunchIsSound`). The inductive invariant `ProvInv` says what a signature is worth: one
that no boot has passed by is what this boot asks for, and one written without a hidden
failure vouches for the files (`Vouched`). Such a variant is replaced only where its version has no
server at all (`Current`), and then nothing is copied that would contradict the signature;
`Progress` follows the copies to the point where the signature is written.

`CleanBootInstalls` is proved as well (`BootInstalls`), also under `Trusting`: with
`ProvInv`, a boot without an error so far has accounted for every variant that it tried,
but the one at hand (`Clean`), and a variant is accounted for when its directory is
sound, or its release has nothing for this machine (`Accounted`). The fallback is what
needs care: it changes the effective catalog after the loop. `ComesUp`, a liveness property,
is model-checked only.

Read but outside the model: `${2:-{}}` in `run_configured_command` closes its brace early
and appends one to its argument, which then is no JSON, so `build_env` is dropped.

## Installer

`release_installer.py`, with stage 0 of the smoke runner, which calls the same installers
one after the other. An operation is a sequence of steps over a tree that earlier
operations, failures and interruptions have left behind.

| variables | in the code |
|---|---|
| `tree`, `seed`, `venv` | the managed paths, `config/local`, `.venv`: absent, cut off, or which release |
| `conf`, `dirs`, `src`, `model` | what each llama.cpp profile asks for, its directories by label; model files |
| `st`, `gen` | `state/install-state.json`, and the directories that the generated llama-swap.yaml names |
| `op`, `ver`, `pc`, `todo`, `cur`, `got`, `swap`, `nginx` | the operation and its progress |
| `last`, `hit`, `ops`, `edits`, `faults`, `cuts` | how the last operation ended, whether a fault struck it; counters for the bounds |

| actions | in the code |
|---|---|
| `Begin` | `install_or_update_from_bundle`, `install_components`, stage 0: what they load first |
| `SyncPath`, `SyncSeed` | `sync_release_tree` |
| `PythonRuntime`, `PythonDeps` | `ensure_python_runtime`, `ensure_python_dependencies` |
| `StartProfile`, `Fetch`, `CopyRuntime`, `ProfilesDone` | `_install_one_llama_cpp_profile`: cache check, download or build, `rmtree` and `copytree`, look for the server |
| `LlamaSwap`, `Nginx` | `ensure_llama_swap`, `ensure_nginx` |
| `Model`, `ModelsDone` | `_copy_artifact_if_needed`, `_download_model_file` |
| `CheckUpdates`, `WriteState` | `check_available_updates`, `write_state` |
| `Interrupt`, `Generate`, `Edits` | the process is killed in the middle; the `generate` command; a new release, a local edit, a new model |

A fault is a failed call, a cut is an interruption in the middle of a copy or write;
their bounds are separate because the code survives faults and not all cuts. One fault is
like a cut: `python -m venv` links the interpreter before it installs pip, and when it
fails it leaves `.venv` so; `ensure_python_runtime` (line 689) takes that for an
environment, and `pip` fails in every later operation (`venv = "cut"`).
`install` allows two operations, one edit, one fault and one cut. Two
operations are what recovery needs: one that fails, one that comes after it.
Profiles are of each kind (rolling, built from source, pinned); one path disappears with
the second release; one tag has no server in its archive. Every step of an operation is
weakly fair: subprocesses end or are killed.

What it shows: `CompletedTree` and `Installed` (what is reported is there), `Runnable` (what
state and generated configuration name can be started throughout later failures),
`FailureRetried` (unless `.venv` is half made), `RecordsKept`, `OperationsEnd`. `Installed`
has two exceptions that the code makes: the directory of a pinned profile is trusted, so that
it is whole only if nothing was ever cut off; and a local model file of the same size as a
newer source, but not older than it, is not copied again (`Alike`). `retry` is a counterexample to the advice
of `postinstall.sh` to repeat a component install that had errors: after an interruption,
or a failed creation of `.venv`, that directory or the state file can be in a condition
that every later one trips over.

Seen on the way: the git cache never matches, because the signature is compared with
fields that results do not have (`CacheMatches`); `install-components` generates before it
writes the state that generating reads (`WriteState`); a failed llama-swap download
overwrites the recorded path with an empty one; `models` and `firewall` are in no
manifest and so are never selected; a model file that was cut off is trusted later.

`InstallerProofs` proves `CompletedTree` (`TreeCompleted`), `Runnable`
(`RecordsRunnable`), `Installed` (`ReportedInstalled`) and `RecordsKept` (`Preserved`) for
every release, set of profiles and files, and every number of operations, faults and
cuts. `InstInv` says why they hold on the way: which operation comes to which step
(`Staged`); what the sync has passed is of the new release (`Synced`); a directory with a
server comes from a source that has one (`Filled`), and so does what the records name
(`Named`, `Vouched`); a pinned profile that is about to be replaced is named by nothing, for
otherwise its directory would be whole and reused (`Replaceable`); what this operation
counts as installed is (`Gotten`, `Copied`). A rolling profile can be named while it is
replaced: that is the exception `Runnable` makes.

`FailureRetried` is proved (`FailuresRetried`) under the condition that at least one profile
has a server in all its releases (`Servable`): an install of which no profile comes through
fails by design, whatever was left behind. The invariant is `Unstuck`: as long as nothing
was cut off, the tree is one that every operation can load (`Rooted`), the state file is
whole, and that profile is yet to come, at hand, or installed. `OperationsEnd`, a
liveness property, is model-checked only.

## Dashboard

The monitoring service runs all its handlers on one event loop: an action holds it
until it is answered. A log stream holds it as well: `log_queue.get(timeout=30)` blocks
the loop, sending does not give it up, and after an event or a ping the stream blocks it
again. Others run only while the stream's client does not read and the server waits for
it (`Pause`, `Resume`); a client that reads keeps the loop for as long as it likes.

| variables | in the code |
|---|---|
| `project`, `localDir`, `manifests` | the manifest directories, `app.state.manifests` |
| `docker`, `container`, `restarts`, `delayed` | the handler's client; containers, how often each was restarted, restarts the daemon carries out after the call gave up |
| `executions`, `history`, `pc` | `ActionExecutor.executions`, `.history`; where the handler is, or that a stream holds the loop |
| `logged`, `buffer`, `stream`, `callbacks` | what was ever logged; the `deque`; per connection filter and queue; `DashboardLogger.callbacks` |

| actions | in the code |
|---|---|
| `Execute` | the POST handler, `execute_action` |
| `Unimplemented`, `Shell`, `FindContainer`, `RestartContainer`, `ReadStatus` | `ActionRunner`, `DockerHandler.restart_container` in its three calls |
| `ClearHistory`, `ClearLogs`, `Log` | the methods of the same names |
| `Connect`, `StreamEvent`, `Pause`, `Resume`, `Disconnect` | the generator of `/logs/stream`, with the level that is refused, and the server's waits for a client that does not read |
| `Change`, `DelayedRestart` | containers change by themselves |

`GetLogs` and `Statistics` only read: they are operators. The log text, timestamps and
levels are one value that a filter can tell apart. `dashboard` has one component with a
restart, a command and a type that is not implemented, a buffer of two entries and four
inputs: enough to overflow the buffer under an open stream, and to have a restart
overtaken by a change of the container. The handler is weakly fair because Docker
calls and commands have timeouts (after a timeout only the shell is killed). Streams are
not fair: nothing makes a client read, or stop.

It shows `Settled` (every execution ends once in the history, the statistics add up),
`HonestResult`, `NoGap` and `Pages`, and `Answered` as liveness: an action that has
started is answered. That every request is answered, or that one client's events reach it
beside another client, is not claimed: a stream can keep both waiting for ever.

Seen on the way: nothing overrides `get_action_executor`, so as built the POST of an action
answers 500; nobody in `src/` calls `DashboardLogger.log` but its tests;
no code removes a stream's callback, so its
queue grows for ever after the client has gone (`Disconnect` leaves it).

`DashboardProofs` proves `TypeOK` (`DashboardTyped`), `HonestResult` (`ResultsHonest`),
`Settled` (`AllSettled`) and `NoGap` (`NothingMissed`) for every number of components,
requests, entries and clients. `ActionInv` has what the handler relies on between its
steps: the execution at hand is the newest and the only one that runs (`Executing`,
`Ended`), the history is the earlier ones (`Recorded`), restarts are only added (`Since`), and
once the handler looks at the status its restart has been counted (`Restarting`). `LogInv`
relates each connection to the log: a connected client has a callback (`Subscribed`), its
queue names entries that were logged (`Queued`) after it connected (`Begun`), and
with what was sent it is exactly what the client is due (`Complete`).

`Pages` is proved (`PagesComplete`) from `Newest`, the buffer is the newest entries in
their order, and from what slices of a list join to: pages of any size, one after the
other, are all the entries that match. `Answered`, a liveness
property, is model-checked only.

## Layers, Catalog and Proxy

What the generator computes, for any merged catalogs. `Layers` is `deep_merge` and the
order of the layers on trees. `Catalog` is the builders: each starts from the same files and
computes its output by a loop of its own, so what could go wrong is that two outputs disagree.
`Proxy` is the nginx.conf and the landing page: what could go wrong is that a location
shadows another. `Generator` puts the three together.

| definitions | in the code |
|---|---|
| `Profile`, `Variant`, `CollectedVariants` | `_resolve_backend_runtime_profile`, `_collect_backend_runtime_variants` |
| `DeploymentProfile`, `Resolved`, `Judged`, `Verdict` | templates and profiles of deployments, `_apply_backend_support_matrix` |
| `PublishedModels`, `Routes` | `_catalog_published_models`, `build_litellm_config` |
| `FromState`, `ForDocker`, `PresetMacros`, `Macros` | the macros of `build_llama_swap_config`, in the order they are set |
| `Command`, `ContextMacro`, `NamedMacro` | what a model's command names: the framework's macros, the context, the presets for GPU and runtime, additional references |
| `Models`, `Groups`, `OwnModels` | `_generated_llama_swap_models`, `_generated_llama_swap_groups`; what llama-swap's own files have, taken as it is |
| `OptionsOf`, `Vllm` | `_resolve_vllm_startup_overrides`, `build_vllm_config` |
| `BasePath`, `Locations`, `Links` | `_normalize_base_path`, `build_nginx_config`, `build_nginx_landing_page` |
| `Hop`, `Followed` | nginx: an exact location, or the longest prefix; a client that follows redirects |

The state is the configuration `c`, the next builder `pc`, and what was computed. In the
code each builder collects the variants and resolves the deployments anew; the files do
not change within a run, so `Collect` and `Resolve` compute them once. A hyphenated name is
the sequence of its words, because the code takes names apart.

A path is the sequence of its segments, and a location a stem that it has to equal or to
begin with. What is under the base path passes nginx twice: first without the base.

### Runs

`catalog` takes more than 9000 configurations through every builder. They are one base, shaped
like the files of `config/`, and seven families that vary it: base paths, with and without
vLLM; all layerings of trees of two levels with two keys; profiles of up to four names that
extend each other; two deployments with the owner's fields and every kind of group member;
who owns which macro, what is installed and enabled; what a command names (the framework's
names, presets and contexts of the model or the deployment, additional references,
`LLAMA_BACKEND`, with models and groups of llama-swap's own files); pairs of support rules. Each family
varies the fields that one builder's branches look at, in all combinations; a third
deployment or rule meets the same comparisons again. The base paths are written with
slashes everywhere, of one word and two, and also begin like locations; the pages
are those that other locations could take away (`MCPages`).

It shows `LayersHold`, `CyclesFound`, `LocalMacrosWin`, `Routable`, `GroupsServed`,
`Supported`, `DirectoriesProvisioned`, `MacrosDefined` and `ProxyServes`. There is no
concurrency in a builder, and so no fairness.

### Proofs

`GeneratorProofs` proves all nine, for every set of configurations. The assumptions say
what Python's values are: trees end and no leaf is a mapping (`LayersAssumption`), lists are
lists and profiles finitely many (`CatalogAssumption`), the files are such trees
and the base path is a path (`GeneratorAssumption`).

* `LayersOverride` (`LayersHold`), for trees of every depth. The functions that
  recurse into a tree are shown to be what their definitions say, level by level
  (`Unfoldings`). A merge has the settings of what is over and those below that do not give
  way to it (`MergeOverlays`); no conflict means that neither gives way (`ConflictsMean`);
  and then two overlays can be joined first (`OverlaysJoin`).
* `ProfilesResolve` (`CyclesFound`): the stack of `Profile` only grows (`StackGrows`), so the
  recursion ends; what it resolves has a sound profile for every parent, and so for every
  name that can be reached (`ReachedStays`).
* `LocalsStand` (`LocalMacrosWin`), `MacrosProvisioned` (`DirectoriesProvisioned`),
  `CommandsComplete` (`MacrosDefined`): every step that sets a macro keeps what is the
  owner's, adds directories of enabled variants only, and gives each enabled variant one
  before a name of the project can stand for it (`MacrosKept`, `AllMacros`). What a
  command names is either written in the catalog, or among the macros that the presets,
  the contexts and the places of the models give.
* `GroupsLoadable` (`GroupsServed`), `MatrixObeyed` (`Supported`), `RoutesEnd`
  (`Routable`): what one builder computes is compared with what another has. `CatalogInv`
  states of each output what it is, given the configuration and the outputs before it, from
  the moment it is there: `Derived`, `PublishedFacts`, `SwapFacts`, `VllmFacts`. These have
  the outputs as parameters, so that the steps of other builders keep them.
* `ProxyEnds` (`ProxyServes`), for every base path and every set of pages. The location that
  nginx takes is the heaviest of those that cover the path (`HeaviestTaken`); of the
  others only those with the same first word can cover it (`CoversFirst`), which are few. Each
  hop is a lemma (`ExactHops`, `UnderHops`, `BaseTaken`, `SwapPageHop`), each link a chain of
  them.

Induction is over the naturals and with a set instead of a predicate (`SetInduction`).

### What the conditions exclude

`Conventional`, and the conditions in front of `Supported`, `DirectoriesProvisioned` and
`MacrosDefined`, exclude catalogs of which the properties do not hold:

* A deployment with a label and no `llama_swap_model` is published and grouped under its
  label, but served under its own name. A vLLM deployment with the default transport is
  in groups, but not among the models.
* A llama.cpp deployment with the transport `direct` is published and routed to llama-swap
  (`config_loader.py:1691`), which does not get it (`config_loader.py:1413`).
* In Docker `llama-server-rocm` and `-vulkan` are made to stand for the native build, so
  the support matrix judges another runtime than the one that runs; and if the catalog
  has no native variant, for a directory that nothing provisions. `Supported` therefore
  speaks only of macros that stand for the variant judged (`Standing`); the runtimes
  installed on a host, and those the framework names, are judged by nothing.
* The project's bare names (`llama-swap.base.yaml:25-29`) stay where no enabled variant has
  the macro: a model whose variant is disabled can be served by a name that nothing
  provisions. `DirectoriesProvisioned` speaks of the directories, and of enabled variants.
* The macros that the catalog itself names (a context's `llama_swap_macro`, additional
  references, those of the framework) are named without being defined: `MacrosDefined`
  asks for the others where these are there.
* The models and groups of llama-swap's own files pass through unfiltered, also a group
  with a member that does not exist.
* A macro such as `llama-server-rocm-b8429` (`README.md:321`) does not end in its backend,
  so a preset with blocks per backend is looked up under a macro that does not exist.
* vLLM's startup options are looked up without the support matrix.
* A base path that begins like a location of its own (`/ui`, `/health`; see `Clear`) defines
  a location twice, which nginx refuses, or takes pages away.
* `deep_merge` is not associative where the local file and its private overlay disagree
  on what is a section, and that conflict is not reported.

## Not modelled

* Compose's start-up order, health conditions and restart policies: they belong to Docker;
  the restarts are actions of `ConfigWatcher` and `Provision`.
* The texts of the systemd units and the MCP file, the headers, limits and body filters of
  nginx.conf, and the substitution of environment variables: formatting, with no state. Nor
  what nginx does by itself: it joins slashes, and redirects `/v1` to `/v1/`.
* The Prometheus client (stateless queries), the benchmark and validation scripts
  (sequential drivers that write reports), and the gateway settings of the dashboard.
* In the installer: SDK bootstrap, archive formats, firewall ports.
* No proof: the liveness properties (`Synchronised`, `WatcherSurvives`, `GatewayRecovers`,
  `CommandsEnd`, `ComesUp`, `OperationsEnd`, `Answered`), which need
  `ENABLED`, and the counterexamples of `lost_edit` and `retry`.
* LiteLLM, llama-swap, vLLM, nginx, watchdog and Docker are external: they appear as the
  code uses them.
