# A verification project for dropboy

dropboy keeps watched folders of one computer in step with an S3 bucket its
user owns: a daemon walks the folders, lists the bucket, compares both with a
SQLite store of what was last synced, and uploads, downloads, deletes or reports
a conflict. This directory models that program in TLA+, checks small instances
with TLC and proves the main results for all instances with TLAPS.

## 1. The system

Sources are under `src/backend/internal/` unless said otherwise.

| component | state it keeps | operations | talks to |
|---|---|---|---|
| sync engine, `sync/engine.go` | conflict list, queue lengths, last run | `ReconcileOnce`, `ResolveConflict`, `Stats`, `Conflicts` | disk, S3 client, store |
| state store, `store/state.go` | one row per synced path, in SQLite | `Get`, `Put`, `List`, `Delete` | |
| S3 client, `s3/client.go` | none of its own (the bucket) | `Put`, `Get`, `Head`, `List`, `Delete` | AWS |
| throttle, `sync/throttle.go` | tokens of one upload | `Read` | |
| watcher, `sync/watcher.go` | watched directories, debounce timer, armed flag | `Run` | tick channel of the loop |
| daemon, `daemon/daemon.go` | engine or none, locked, paused, one loop | `Run`, `Unlock`, `UnlockWithRecovery`, `KickSync`, the loop | all of the above |
| configuration, `config/config.go` | `config.yaml` | `Load`, `Save` | read by daemon, server and CLI, written by server and CLI |
| keystore, `crypto/` | `master.key`, `master.recovery.key` | create, load by passphrase, load by recovery code | |
| keychain, `keychain/` | passphrase of the account | `Set`, `Get`, `Delete` | the OS |
| HTTP server, `server/` | configuration copy, token, rate limiters | settings, folders, sync, pause, unlock, tree, files | daemon as its `Engine` |
| event hub, `server/events.go` | subscribers and their queues | `publish`, `subscribe`, `unsubscribe` | the UI, over SSE |
| logging, `logging/` | current file and its size | `Write`, `rotate` | |
| CLI, `cli/` | none | init, start, stop, folders, status, recover, ui | API, configuration, keystore, service |
| service manager, `service/` | unit or plist | install, start, stop | launchd, systemd |
| terminal UI, `tui/`; web UI, `src/frontend/` | view state, history | commands, navigation | API |

What is hard in it:

* **Concurrency.** No lock covers a pass. The loop runs one, and every
  `POST /api/v1/sync` runs another in a goroutine of its own
  (`daemon.go:107-116`); users edit files and other writers change the bucket
  meanwhile; the server changes configuration the engine is reading.
* **Failure.** Each op is two or three writes to places that fail separately:
  object then row, file then row, object deleted then row deleted. The first error
  ends the pass. The process may stop anywhere, a graceful stop included: `Run`
  closes the store without waiting for a pass.
* **Silence.** A file that cannot be read and an object whose `Head` fails are
  left out of the snapshot, and a thing left out is a thing deleted.
* **Time.** Debounce, two tickers, pause, rate limiters, throttle.
* **Several processes.** The service's daemon, `dropboy ui` (a daemon of its own) and
  the commands share `config.yaml`, the key files, `ui.token` and the store, and no
  file is written atomically or under a lock.

What makes each component correct:

* *sync engine*: no silent overwrite on either side; metadata says what the body
  holds; row and object agree outside the windows; conflicts are real; a torn file
  is not taken for the user's; the sides converge; the queue numbers cover the work.
* *watcher and loop*: after the last change there is one more pass, unless paused.
* *daemon*: one loop, started once; whoever reads without the lock finds an engine in
  a daemon that says it is unlocked, and an unlocking is done whole or not begun.
* *configuration*: no change is lost; the running engine never sees half of one.
* *keystore*: either secret opens the same master key, at any time after init.
* *event hub*: each subscriber sees a subsequence of what was published, in
  order; nothing is sent on a closed channel.
* *rate limiter, throttle*: bounded by burst plus rate times time.
* *session token*: what clients read is what the daemon asks for.

## 2. Modules

    ReconcilePlan            plan() for one path: a pure function
    AtomicSync               abstract: every effect is what both sides call for then
      SyncEngine             ReconcileOnce against disk, bucket and store: implements it
        MCSyncEngine         constants and environments for TLC
        SyncEngineProofs     types; the planner; the one-writer installation
          OnePassProofs      promises that hold against any environment
          CalmPassProofs     promises that hold when nothing moves under a pass, and
                             the refinement
    FolderConfig             config.yaml, the server's copy and the engine's
      MCFolderConfig         its symmetry for TLC
      FolderConfigProofs     its invariants for any folders and requests
    SyncDuty                 abstract: a change is followed by a pass
      ReconcileLoop          watcher, debounce, tickers, loop, pause: implements it
        MCReconcileLoop      a folder with one subdirectory
        ReconcileLoopProofs  its invariants and the refinement's steps
    KeyStore                 the two key files and dropboy init
      Daemon                 processes: boot, token, listen, unlock, recover, end
        MCDaemon             two processes on one port
        DaemonProofs         its invariants for any number of processes
    LossyBroadcast           abstract: what a client of the event stream is promised
      EventHub               hub, publishers and stream handlers: implements it
        MCEventHub           bounds the events
        EventHubProofs       its invariants and the refinement
    TokenBuckets             the rate limiter and the upload throttle
      MCTokenBuckets         bounds the time
      TokenBucketsProofs     its invariants

The parts of the daemon meet at few places, and each module takes the others at the
grain it needs. `SyncEngine` has a pass and does not say what starts one;
`ReconcileLoop` says that and keeps of a pass only its start, from which on it sees
the folders, and its end. `Daemon` says when there is an engine and a loop, and keeps of
both one action, `Upload`. `FolderConfig` says which folders a walk sees.

### ReconcilePlan

`PlanOp(l, r, s)` is the switch of `plan()` (engine.go:290-332) for one path:
`l` is the hash of the local file, `r` the object as headed, `s` the `LocalHash`
of the row; `None` is absence and `NoHash` the empty metadata value. One operator
per kind of op says when it is wanted. `OpDeleteLocal` is a kind that `execute`
handles and `plan` never emits, so it does not occur.

A content stands for its hash: SHA-256 is taken to be injective. `Torn` is what a
file holds after `O_TRUNC` and before the last write.

### SyncEngine

| variable | code |
|---|---|
| `local` | the files below the watched folders |
| `remote` | objects under the machine's prefix: claimed hash and plaintext of the body |
| `row` | `LocalHash` of each row of `state.db` |
| `conflicts`, `upQ`, `downQ` | the fields of `Engine`; the queues as the sets of paths whose sizes the code stores |
| `pc`, `todo`, `seenL`, `seenR`, `ops`, `at`, `buf` | the locals of `ReconcileOnce`, one of each per pass |

One action is one effect that another actor can see:

| action | code |
|---|---|
| `Begin`, `WalkFile` | `snapshotLocal`: one file stat'ed and hashed, in any order, or skipped |
| `ListObjects`, `HeadObject` | `snapshotRemote`: the listing without `/.dropboy/` keys, then one `Head` each, a failing one dropping its object |
| `Plan` | `snapshotState`, `plan`, the queue lengths |
| `ReadFile`, `PutObject`, `CommitRow` | `doUpload`: read again, put under the hash of the walk, write the row |
| `GetObject`, `TruncateFile`, `WriteFile`, `CommitRow` | `doDownload` |
| `DeleteObject`, `DeleteRow` | `OpDeleteRemote` |
| `RecordConflict`, `Finish` | the conflict op; the end of a pass |
| `Abort` | every early return with an error |
| `CallFails`, `StoreFails`, `DiskFails` | S3, SQLite or disk errors at each call |
| `Crash` | the process stops and starts: disk, bucket and rows survive |
| `UserEdit`, `RemoteEdit`, `ForeignPut`, `ResolveConflict` | what others do |

Ops run as `plan` orders them: those from its loop over local files before those
from its loop over remote-only objects, in map order, that is any order, inside
each. An S3 call that took effect and lost its answer is the effect followed by
`StoreFails`. A file replaced by someone between truncation and write may end with
either content or a mix.

The constant `Env` names the behaviours of the environment a run or a theorem
allows. `"race"` lets files and objects change while a pass runs; without it they
change only between passes.

Left out: modification times, sizes, ETags, version ids and byte counters (no
decision reads them); encryption (authenticated and keyed by the one master key, so
decrypting returns what was sealed); the throttle; pagination of `List`; relative
paths (`folders add` makes them absolute), for which the map between path and key
would not be one-to-one.

### AtomicSync

`AtomicSync` has no passes, no snapshots and no plan. Its variables are `disk`, `bucket` and
`base` (what both sides held at the last sync), the files that are `opened` to be filled, and
the paths `reported` to the user. An effect on a path, `Push`, `Open` and `Fill`, `Erase`, or
`Report`, is allowed by what the three hold of that path at that moment and by nothing else,
`Record` only when both sides hold the same, and anything begun or reported may be
forgotten. It states the table of `plan()` (engine.go:290-332), not that of PRD 5.1, from
which the code departs (section 3).

| abstract | `SyncEngine` |
|---|---|
| `disk`, `bucket`, `base`, `reported` | `local`, `remote`, `row`, `conflicts` |
| `opened` | `Truncated`, the files between open and write |
| `Push`, `Open`, `Fill`, `Erase`, `Report` | `PutObject`, `TruncateFile`, `WriteFile`, `DeleteObject`, `RecordConflict` |
| `Record` | `CommitRow`, `DeleteRow` |
| `Edit`, `Replace` | `UserEdit`; `RemoteEdit`, `ForeignPut` |
| `Forget` | every other step, the failures and `Crash` among them |

What is hard to see in the code and what the refinement says is that the plan is never stale:
between planning an op and each of its effects lie other ops, and before the plan other passes
that failed or died half way, and yet each effect is what would have been decided then and there.
It holds where nothing moves under a pass. Where files or objects do, `TruncateFile` and
`PutObject` act on a snapshot that is no longer true, and the racing run and `OnePassProofs`
say what is left.

### FolderConfig

The list of watched folders exists three times, and no two copies are kept equal:

| variable | code |
|---|---|
| `file` | `config.yaml`; `Garbled` when writes of two writers mixed |
| `srv` | `Server.Cfg`: whether the bucket is set, and the slice header of `Folders` |
| `heap` | the arrays behind the slices; `heap[1]` is the one `Load` made, which `Engine.cfg` keeps for the life of the process with the length it had at the start |
| `engine`, `up` | whether the daemon runs, and has an engine |
| `req`, `cmd` | what each handler goroutine, and the command being run, is doing |
| `pass` | the range loop of `snapshotLocal` over the engine's slice |
| `stored` | folders whose files have rows and objects |
| `removed`, `raced`, `clobbered`, `changes` | history, read by properties and the bound only |

| action | code |
|---|---|
| `Start`, `Unlock`, `Stop` | `config.Load`, `New`, `Run` with `initEngine`; `Daemon.Unlock`; the end of the process at any moment |
| `FoldersAdd` | the handler up to the release of the lock: `append` in the array that is there, or in one of twice the size |
| `FoldersRemove`, `Compact`, `Compacted` | the removal, which moves the kept elements one by one to the front of the array the engine reads |
| `SettingsPut` | `handleSettingsPut`: the bucket is replaced, by the empty string too, the folders stay |
| `Marshal`, `Truncate`, `Write` | `config.Save`, after the lock is released |
| `CliAdd`, `CliRemove`, `CliInit`, `CliSave`, `CliKilled` | the commands that load, change and save the file without asking the daemon |
| `BeginPass`, `WalkFolder`, `EndPass` | a pass, one folder at a time |

The removal is element by element because the pass reads the same array without the
lock: a kept folder that moves from the part the walk has not reached to the part
it has passed is not seen, and what has a row and is not seen is deleted. Two
changes do not reach the file: one whose request had not saved when the process
ended, and one whose slower save came after a quicker one. `clobbered` marks
these, and a third: a file left empty by a save cut short loads as `Default()`, with
neither bucket nor folders. No engine starts on that, but `init` or a settings
request then gives it a bucket, and the next start deletes every object of the lost
folders. The mark does not ask whether folders were lost: it is set whenever a
configuration without a bucket gets one.

`removed` holds what a user has asked to remove, and the properties except it. A
folder leaves it when the daemon next loads a list that has it, which one that was added again
is on and one whose removal did not reach the file too. Before that it stays, added again or not:
`append` may have put it in an array the running engine does not read, and the engine then
goes on without it, or deletes what was left of it.

Left out: folders inside one another; requests that are refused (a 404 or 400
changes nothing); the other fields of the configuration, which nothing here depends
on; the terminal UI's `/add`, which saves as the command does. `EndPass` applies any part
of what the pass planned, which covers an error in the middle, and one pass
runs at a time: a removal races each of two overlapping passes as it races one.

### ReconcileLoop and SyncDuty

`SyncDuty` has two variables: `owed`, something changed since a pass last started,
and `halted`. Its liveness is that an owed pass starts unless halted.

| variable | code |
|---|---|
| `exists`, `watched`, `listed` | directories on disk, with a watch, read by `WalkDir` and not visited |
| `watcher` | `Watcher.Run`: its walk, its select, ended |
| `events` | what the kernel keeps for `notifier.Events`, at most `EventCap` |
| `armed`, `left` | the flag and the debounce timer, in `Debounce` steps |
| `slot` | the channels of one place: `ticks`, `remoteT.C`, `fullT.C` |
| `pc`, `paused`, `cancelled` | `runReconcileLoop`, `Daemon.paused`, the context |
| `owed`, `noticed`, `missed`, `sincePause` | history |

| action | code |
|---|---|
| `ChangeFile`, `MakeDir`, `RemoveDir` | the user's programs, with the event they cause if the directory has a watch and the kernel room |
| `WatchDir`, `WalkDone`, `WatcherFails` | the start of `Run`; `Add` may fail and nobody looks |
| `HandleEvent`, `TimerRuns`, `Fire`, `WatcherStops` | the select; a new directory gets a watch, what it already holds is not looked at |
| `Ring`, `TakeTick`, `StartPass`, `EndPass`, `LoopStops` | the loop; a tick taken while paused is thrown away |
| `Pause`, `Resume`, `KickSync`, `Cancel` | the API and the signal |

A pass is taken to see all that was changed before it starts; what it misses is
the business of `SyncEngine`. Files of the folder's own directory and of its
subdirectories are one kind of change.

### KeyStore and Daemon

| variable | code |
|---|---|
| `keyFile`, `recFile` | `master.key`, `master.recovery.key`: absent, truncated, or a master key under a secret |
| `config` | `config.yaml`: absent, without a bucket, with one |
| `init`, `passphrase`, `draw` | the `init` command under way |
| `proc` | a record for each process: where `Run` is, its passphrase, engine, `locked`, loop, token, and in `mu` whether `d.mu` is free or which statement its holder is at |
| `keychain`, `tokenFile` | the keychain's entry, `ui.token` |
| `drawn`, `notedPass`, `notedCode`, `sealedWith`, `raced` | history |

| action | code |
|---|---|
| `InitDefaults`, `InitKeepsKey`, `InitChooses` | `init --non-interactive`; the interactive one with and without a `master.key` |
| `TruncateKey`, `WriteKey`, `TruncateRecovery`, `WriteRecovery` | the two calls of `sealAndWrite`, each in `os.WriteFile`'s two steps |
| `ShowRecoveryCode`, `InitSaves`, `InitDies` | the rest of it, and its end at any prompt, error or kill |
| `Start`, `Boot`, `StartLoop` | `Run` up to the server: environment, else keychain; `initEngine`, which may fail at the store or the S3 client; the loop |
| `LoadToken`, `DrawToken`, `TruncateToken`, `WriteToken`, `Listen` | `Server.Start` |
| `Shutdown`, `Exit`, `Die` | the end, in order or not; `Start` again is the service manager or the user |
| `Unlock`, `Recover` | the handlers up to the end of `initEngineWithMaster`, with `d.mu` taken and the engine in place |
| `ShowUnlocked`, `KeepPassphrase`, `LoopAfterUnlock` | the rest of both: `locked.Store(false)`, `keychain.Set`, `startReconcileLoop` with the release of `d.mu` |
| `ForgetPassphrase` | the handler, which does not take `d.mu` |
| `Upload` | a pass, of the loop or of `KickSync`, seals something with the engine's key |

`Unlock` is in statements because `Locked`, `Stats`, `KickSync` and `tickStatus` read engine and
`locked` without `d.mu`: they can meet a daemon that has an engine and says it is locked, and one
that has an engine and no loop, the latter for as long as the keychain's tool takes to answer.
No step is fair, so a tool that never comes back, with `d.mu` held and no loop, is among
the behaviours. An attempt that fails sets nothing and is no step.

Sealing is ideal: a whole file opens with the secret it was sealed with and no other,
and a truncated one not at all. What one `init` draws, a master key and a recovery
code, is one value. The keychain's tool may refuse at any call.

### EventHub and LossyBroadcast

`LossyBroadcast` numbers the events and gives each client a growing sequence of
them, with gaps, also over a reconnection.

| variable | code |
|---|---|
| `in`, `queue`, `registered` | `h.in`, the channel of each stream, `h.clients` |
| `hub`, `event`, `rest` | `run`: where it is, what it holds, whom it has still to send to; in `"sends"` it holds `h.mu` |
| `stream` | `handleEvents` of each client, with the steps of its deferred `unsubscribe` |
| `ticking`, `cancelled` | `tickStatus`, the context |
| `published`, `next`, `lost` | history |

| action | code |
|---|---|
| `Request`, `Heartbeat` | `publish` by handlers and by `tickStatus`, which drops an event that finds `h.in` full |
| `Take`, `LockClients`, `SendTo`, `UnlockClients`, `HubStops` | `run`, in the order of a Go map |
| `Open` | `handleEvents`: `Subscribe`, or `Refuse` if the writer is no `http.Flusher` |
| `Stream`, `ClientLeaves`, `Unsubscribe`, `CloseChannel` | the select, the request's context, the deferred `unsubscribe`: removal under the lock, the `close` after it |

The constant `Flushes` says what writer the middleware hands on. In the assembled
server it is FALSE: `requestLog` wraps the writer in a `statusRecorder` that has no
`Flush`. The run `no_stream` has that value and shows that nobody gets a stream.
The hub, `subscribe` and the rest of the handler are correct for a writer that flushes,
as the one of `net/http` does, and the run `events` checks them with TRUE; that is
the behaviour the stream has as soon as the recorder passes the call on. The theorems
hold for both values.

### TokenBuckets

| variable | code |
|---|---|
| `now` | the clock, in units in which a bucket earns one |
| `level`, `last` | `bucket.tokens`, `bucket.last` of each route |
| `reader` | the `throttledReader` of each pass: bucket, `last`, what it sleeps for |
| `from`, `passed`, `passedAt`, `sent`, `granted` | history: an observer that starts to count at an arbitrary time |

`LetIn` and `Refuse` are the two ends of `allow`; `ReadNow`, `FallAsleep` and
`ReadAwake` are `Read` without and with its sleep, which may end late; `NewReader` is
`doUpload`, which makes a reader with a full bucket for every file. Left out are the
rounding of floats and durations, and the daemon without an upload limit: there
`newThrottledReader` returns the reader it was given (throttle.go:19-21), which has no
bucket and is promised no bound. `mutateRL` is made and used by no route.

## 3. What the runs check

All runs of the engine use contents `a`, `b`; Torn, None and NoHash are distinct from both. Two
contents are enough: a property compares at most the version of the last sync with
one other, and a third version behaves like the second. One path is enough
where a property speaks of one path and passes do not overlap, since a pass handles
paths independently; runs with two paths exist for the order of ops and for
failures that stop between them. The runs of `FolderConfig` have three folders, since
the race needs one that is removed and one whose element moves, and a third
shows that the order of the others does not matter. `MaxChanges` bounds the requests
and commands in a behaviour, not the passes, restarts or crashes: three changes suffice
for a removal, an addition in the room it left and a further rewriting of either
kind; with two folders the properties were also found to hold with four.

| run | instance | shows |
|---|---|---|
| `serial` | 1 pass, 2 paths, everything but changes during a pass and skipped reads | `NoSilentLocalOverwrite`, `NoSilentRemoteOverwrite`, `DeletionFollowsDeletion`, `ObjectHashMatchesBody`, `QueueReportsWork`, `FinishedPassSettles`, and the refinement `ActsOnTheMoment` |
| `racing` | 1 pass, 1 path, everything | types; where a pass overwrites an unsynced file or object, it had seen the version of the last sync or nothing (`LocalOverwriteOnlyUnseen`, `RemoteOverwriteOnlyUnseen`) |
| `sole_writer` | 1 pass, an ordinary and a hidden path, racing edits, no other writer, no crash | `RowMirrorsObject`, `NoConflict`, `FilesLeftAlone` |
| `converges` | 1 pass, 1 path, everything but foreign objects and skipped reads or Heads | `Converges` |
| `folders` | 3 folders, 2 requests, 3 changes | `EngineSeesWhatItStored`, `ObjectsLostOnlyInWindow`, `SavedAsInMemory` |
| `loop` | a folder with a subdirectory that comes and goes, 2 kernel events, a debounce of 1 step | `NoticedIsOnItsWay`, `AtMostOnePassAfterPause`, `BurstsAreCut`, and the refinement `DoesItsDuty` |
| `daemon` | 2 processes on one port, 2 passphrases, 2 inits that draw, 2 tokens | `EitherSecretOpens`, `OneMasterForAll`, `RememberedOpens`, `UnlockedHasEngine`, `NeverHalfUnlocked`, `ClientsGetIn` |
| `events` | 2 clients, capacities 2 and 2, 4 events | `NoSendOnClosed`, `NothingLostUnlessFull`, `HandlersEnd`, and the refinement `KeepsPromise` |
| `buckets` | 1 pass, 1 route, a token that costs 2 units, a burst of 2 tokens, a rate of 3 and chunks of 2, 7 units of time, 3 uploads, observers from 0, 1 and 3 | `GuessesAreSlow`, `NeverShutOut`, `UploadsAreSlow` |

`Converges` is liveness: if from some moment on only the passes act, then from some
moment on every path is settled, that is absent on both sides, the same on both,
on the conflict list, or mislabelled. The fairness is weak fairness of each pass's
steps. The code justifies it: the loop has two tickers that start passes for ever, a pass has
finitely many steps, every call has a deadline, and nothing blocks between calls. A
paused daemon is outside this model. No fairness is put on users, faults or other
writers; the property itself says that they fall silent. The exception
(`Mislabelled`) is needed because of races followed by a crash: a file that races its
upload leaves an object under a wrong hash, a crash keeps the row from being written,
and from then on each pass downloads the object again and finds the same difference.
Foreign objects are excluded because one without a local file makes every pass fail
at its download, and skipped files and Heads because one that goes on being skipped is
absent to every pass.

The runs of `FolderConfig` do not check for deadlock: the model really stops, once
the daemon and its garbled file stay as they are or the bounded changes are used up.

*Bounds of the other four.* One subdirectory shows a directory made, filled and removed
before and after its watch; a second one is another copy of it. Two kernel
events show the queue with room, and full; what is lost beyond is lost the same way.
A debounce of one step separates armed from due. Two processes are what a user
runs, and the race for the token takes two; two draws let one `init` be cut short and
another follow, and a second passphrase is a wrong one. `daemon` also has the
environment give any passphrase, wrong ones included. Queues of two show an empty, a
part-filled and a full channel; four events fill both queues, or one queue twice.
Routes are independent of each other and so are readers, so one of each suffices; 7 units
of time let a bucket of 4 run dry and fill twice. All four hold for every value by the
theorems of section 4, liveness and refinement with fairness excepted.

*Fairness of the loop.* Weak fairness of the loop's steps: a pass has a deadline of ten
minutes and nothing else in the loop waits. Of the tickers: `time.Ticker` rings for
ever. Of the timer, of `Fire` and of `HandleEvent`: Go's select chooses at random among
what is ready, so none that stays ready is passed over for ever. No fairness is put
on disk, users or the API. `DoesItsDuty` holds also when the watcher failed, when events were
lost and when a tick was thrown away, and then it rests on the tickers alone.
`BurstsAreCut` does not rest on them: it says that the debounce counts from the first
event and not from the last.

*Fairness of the hub.* Weak fairness of `run` and strong fairness of a leaving
handler's `Unsubscribe`: the hub takes and gives back `h.mu` for ever, and a
`sync.Mutex` goes over to a goroutine that has waited for a millisecond. No client needs to read.

`daemon` and `buckets` are safety only. `events`, `no_stream` and `loop` do not check for
deadlock: a server whose context is done and whose clients have left stops.

Three runs end in a violation. Each checks a sentence of the documents against what
the code does; `PROJECT.json` quotes the sentence.

| run | sentence | what happens |
|---|---|---|
| `overlap` | no silent overwrite (PRD 5.4) | two passes overlap, one user, no failure: one pass plans a download from a stale head and a fresh row, the other uploads the file while it is truncated, and the torn version replaces the file |
| `folder_race` | removing a folder does not delete from S3 (PRD, CLI surface) | removing the first folder during a walk moves another past the walk, and the pass deletes that other's objects |
| `no_stream` | events are streamed on `/api/v1/events` (`events.go:110`, `server.go:5`) | the writer that reaches the handler cannot flush, and every request is answered 500 |

The racing run gives the exact limit of the no-overwrite promise when passes do not
overlap. It fails in two ways: a save between walk and download is lost; and so is a
file without a row that the walk left out, as unreadable or excluded, when an object
of its name is in the bucket. What is lost is always something the pass had not seen,
and where it had seen something, that was the version of the last sync. On the bucket's side
the two ways are a put between Head and Put, and a Head that failed.

Other departures of the code from what is written about it, met while modelling, that
have no run of their own:

* A file saved between walk and upload is stored under its old hash
  (`engine.go:387`; PRD.md:88 says the metadata is the plaintext's). The hypothesis
  `NoRace` of `MetadataIsTrue` excludes it.
* After a crash between object and row the machine conflicts with itself
  (`engine.go:403`; PRD.md:98 asks for two changed sides). The hypothesis
  `OnlyWriter` of `SoleWriterKeepsRows` and `SoleWriterMeetsNoConflict` excludes it.
* A file the walk leaves out, as unreadable or excluded, has its object deleted, although
  neither side changed (`engine.go:207`, 325; PRD.md:79 says to do nothing). The hypothesis
  that no file is skipped of `DeletionsAreTheUsers` excludes it.
* A file deleted remotely and unchanged locally is uploaded again (`engine.go:307`;
  PRD.md:82 says delete it).
* Removing a folder deletes its objects after the next start, since the walk leaves all of
  its files out (`engine.go:188`; `folders.go:55` says no remote data is deleted).
* A handler saves the server's copy of the configuration, and with it undoes what a command
  has put in the file since the daemon started (`handlers.go:424`); `SavedAsInMemory` allows it.
* A local delete removes an object that changed remotely instead of reporting a conflict
  (`engine.go:325`).
* A resolved conflict is recorded again by the next pass (`engine.go:134`, against the
  comment at 126-128).
* Entering the passphrase again with "remember", which `SETUP.md:196-199` advises after a
  recovery, stores nothing: `Unlock` is over as soon as it sees an engine
  (`daemon.go:162`), and the handler answers `remembered: true`.
* The token is kept, not rotated, over restarts (`server.go:87-88` against `auth.go:28-32`).
* `max_upload_mbps` (`README.md:93`) limits each file: every upload starts with one second's
  worth in its bucket (`engine.go:395`), so many small files are not slowed.
* `delete_grace_hours` is read by nothing, and `restore` answers "queued" and does nothing.

## 4. What is proved

For every set of paths, of contents and of hidden paths:

* `Types`: the type invariant, for any number of overlapping passes and any
  environment. It needs `Shape`: nothing is planned before `Plan`, an upload
  is planned only for a file that was seen, and between the halves of an op
  its path and its bytes are in memory.
* `CasesAreExclusive`: the four conditions of the planner exclude one another, so the cases
  of its switch may be tested in any order.
* `SoleWriterKeepsRows`, `SoleWriterMeetsNoConflict`, `SoleWriterLeavesFiles`: one pass at a
  time, nobody else writing the prefix, no crash and no store failure, but files changing
  under the pass, skipped reads, failed Heads, S3 and disk errors. Then `RowMirrorsObject`
  and `NoConflict` always hold and `FilesLeftAlone`. The argument is `SoleMemory`: a headed
  object carries the row's hash, so the remote side never looks changed and the planner
  wants only uploads and deletes; and between object and row the bucket holds what the
  row is about to say. `RowMirrorsObject` alone is not inductive, since it says nothing of
  the snapshot from which the next op comes.
* `QueueCoversWork` (`QueueReportsWork`), `LocalUnseen`, `RemoteUnseen` (the two properties of
  the racing run): one pass at a time against any environment, `Env` being arbitrary. The
  invariant is `PlanMemory`: as long as an op is planned, the queue has it and the row is
  what it was at the plan, since only the op itself writes it; so what the walk found
  of a file about to be replaced was the row's, or nothing where there is no row.
* `MetadataIsTrue`, `FilesAreNotOverwritten`, `ObjectsAreNotOverwritten`: one pass
  at a time and sides that change only between passes, with crashes, failures,
  other writers and foreign objects; the second also needs that no file is skipped and
  the third that no Head fails. Each carries what the snapshot says forward from
  the walk or the Head, through the plan, to the op: a file to upload is the one
  hashed, a file to be replaced is absent or the row's version, an object to be
  replaced is absent, the row's or foreign.
* `DeletionsAreTheUsers` (`DeletionFollowsDeletion`), with the hypotheses of the second: no op
  but a download moves a file under a pass, and no step but `Plan` adds an op.
* `ImplementsAtomicSync` (`ActsOnTheMoment`), with the hypotheses of the last two together
  (`NoRace`, `SeesEverything`). The invariant `CalmInv` adds to the three above that
  an op planned and not begun is `StillWanted`, that is the planner would plan it now,
  and that one begun is `Holding` what the side it came from holds. An op keeps the others
  wanted because it moves its own path only, and `WantedIsAllowed` says that what the planner
  wants the abstract synchronizer may do.
* `FinishedPassesSettle` (`FinishedPassSettles`), with the same hypotheses: a path without an op
  was in order at the plan or was put in order by its op, so a pass that ends without an error
  leaves each path the same on both sides, without dropboy's metadata, or changed on both.
  This is the half of `Converges` that is safety.

For every set of folders and of requests and every number of changes
(`FolderConfigProofs`):

* `Types`: the type invariant, which says among other things that no slice header
  reaches beyond its array. It needs to know who may hold what (`Holders`: a handler
  that is busy keeps the daemon up, a pass has an engine) and what a removal under way
  has done (`Compacting`: it holds the lock alone, the slice is where it found it,
  and what it passed over is the removed folder or in a slot it has filled).
* `SavesWhatIsInMemory`: `SavedAsInMemory`, from `OneWriter`: until two
  rewritings overlap, the one under way has the file to itself and is about to write
  what the server has.
* `EngineAlwaysSees`: `EngineSeesWhatItStored`. The property speaks of the
  engine's array only, and a restart replaces that array by whatever the file
  holds, so the invariant `NothingForgotten` has to follow the list around: no
  folder with something at stake is missing from the engine's array, from the
  server's slice, from a file that a start would accept, or from what a command is
  about to write.
* `LossOnlyInWindow`: `ObjectsLostOnlyInWindow`, from both of these and `Walked`:
  unless a removal raced the walk, what the walk has passed it has seen, or had
  nothing stored. An addition may write into a slot that the walk has passed; it is
  harmless because a folder that is being added is not in the server's slice, so
  by `NothingForgotten` nothing is at stake with it.

`WithoutFilters` is the one fact about lists that takes an argument: the command's loop
leaves exactly the other folders.

For every tree of directories, event queue and debounce (`ReconcileLoopProofs`):

* `Types`, `ChangesArrive` (`NoticedIsOnItsWay`) and `PausesHold`
  (`AtMostOnePassAfterPause`). The second needs `WatcherLives`: while the daemon is up,
  a watcher can only fail before its first watch, so one that has an event or an armed timer
  is there to deliver it. The last needs `PauseCounts`: while the loop is between its
  look at `paused` and the pass, no pass has started since the pause.
* `ImplementsDuty`: every step is a step of `SyncDuty` or leaves `owed` and `halted`
  alone. That what is owed is not put off for ever is left to the run.

For every number of processes, passphrases, draws and tokens (`DaemonProofs`), from one
inductive invariant, `DaemonInv`:

* `EitherSecretOpensAlways` and `OneMasterAlways`, from `KeyInv`: a whole `master.key` is
  never written again, since `init` asks for it and a torn one is there too; the recovery
  file of the same `init` is the only one that can follow it; and the code is shown
  after both.
* `RememberedOpensAlways`, from `KeepInv`: only `Unlock` writes the keychain, and what it is about
  to write there opened the file, which is never written again.
* `UnlockedHasEngineAlways` and `NeverHalfUnlockedAlways`, from a `LockInv` that follows engine,
  `locked` and the loop through the steps of `Run` and through each statement of the
  unlocking: which of them may disagree depends on where the holder of `d.mu` is.
* `ClientsGetInAlways`, from `TokenInv`: a process that met no other maker
  has the token that is on disk, or is about to write its own with nobody else
  writing.

For every set of clients and both capacities (`EventHubProofs`):

* `HubTypes`; `NeverSendsOnClosed`, from the fact that whom the hub is sending to is
  registered as long as it holds the mutex; `LosesOnlyWhenFull`; and
  `ImplementsBroadcast`, the whole refinement, since `LossyBroadcast` states no fairness. The
  invariant says that `in` holds the last numbers without a gap and the hub the one
  before them, and that a client's queue grows from its `next` to what the hub has done with,
  without a gap unless something was lost.

For every rate, burst, chunk and observer (`TokenBucketsProofs`):

* `GuessesAreAlwaysSlow` and `NobodyIsShutOut`, from `RouteInv`: what passed and what is in
  the bucket is at most the burst and what the observed time earned; and a bucket earns
  from the last request let in, refused ones included.
* `UploadsAreAlwaysSlow`, from `UploadInv`, which says the same of what was sent, what the
  reader holds and what the readers started with; a sleep ends no sooner than the missing
  bytes are earned, and what a longer one would have earned is thrown away.

The assumptions on constants are that the sentinels differ from the values and
from each other, that hidden paths are paths, that `Env` names known behaviours,
that `None` is no folder and no directory and `Garbled` no configuration, that every
directory has a parent, that passphrases are no recovery codes and that capacities,
sizes and bounds are numbers of the stated sign. A token costs at most the burst, and a
chunk is at most a second's worth, which the smallest limit (1 Mbps, 125000 bytes
against 16 KiB) guarantees. The hypotheses of each theorem about the engine
(`Passes = {w}`, what `Env` leaves out) are needed: `overlap` is what happens without the first,
the first three departures listed in section 3 what happens without `NoRace`, `OnlyWriter`
and `SeesEverything`: in the engine's configurations with the behaviours `{"edit", "race"}`,
`{"edit", "crash"}` and `{"edit", "walk"}` TLC finds each of them in less than a hundred states.

Only model-checked: liveness (`Converges`, `BurstsAreCut`, `HandlersEnd` and the fairness of
`DoesItsDuty`), which is out of the prover's reach. Every invariant and every action property
that a passing run checks is proved.

## 5. Not modelled

* *Logging.* A writer under a mutex that renames files by size; nothing depends on it.
* *Service manager.* Unit files and one `launchctl` or `systemctl` call for each command.
  That a process that ended is started again is `Start` of `Daemon`.
* *Terminal UI, web UI.* View state of one user; what they ask of the daemon is in
  the handlers' modules, and the web UI's event stream is a client of `EventHub`. The
  terminal's `/add` takes a folder as it was typed; what follows for object keys is a
  question of path strings, which no module has.
* *Handlers that only read* (`tree`, `machines`, `file`, `status`) and the checks of
  token, origin and host, which keep no state.
* *Unsynchronised reads of `d.engine`* (`daemon.go:65`, 90, 108) are each taken as atomic:
  the order of the writes is modelled, a torn or late view of one is not.
* *What PRD 5.1 asks of a path*: the engine departs from its table in four of the cases
  listed above. `AtomicSync` states what the code decides instead.
* *The conflict list's ids.* `SyncEngine` keeps the list as the set of its paths.

## 6. Running it

    tlc -config serial.cfg MCSyncEngine
    tlc -config folders.cfg MCFolderConfig
    tlc -config loop.cfg MCReconcileLoop
    tlc -config daemon.cfg MCDaemon
    tlc -config events.cfg MCEventHub
    tlc -config buckets.cfg MCTokenBuckets
    tlapm SyncEngineProofs.tla

and so for the other `.cfg` files and the other modules named `...Proofs`.
