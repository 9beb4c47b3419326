# Verification of app-installers

`app-installers` is the common part of the Tizen package installers: a library
(`src/src/common`) from which the backends for the package types build a list of
*steps* for each request, and `AppInstaller::Run()`, which runs such a list.
Around it are a D-Bus service for the directories of users (`src/src/pkgdir_tool`)
and a batch program for preloaded packages (`src/src/pkg_initdb`). What makes the
library hard is not any one step but the promise that a request happens entirely
or not at all, although it is made of many file operations and database and
security calls each of which may fail, and although the device may lose power
between any two of them. The specifications here are about that promise.

Paths below are relative to `src/src/common/`.

## 1. Inventory

| component | state | operations | what is hard |
|---|---|---|---|
| step runner `app_installer.cc`, `step/step.h` | iterator, status of processing, result | `Run()`: process loop, undo loop, clean loop | failures in every loop, the ends of the reverse loop, what the result says |
| signals `pkgmgr_signal.cc` | `state_`, `error_sent_` | `SendStarted`, `SendProgress`, `SendError`, `SendFinished` | order of the signals from different places, signals that are lost |
| recovery file `recovery_file.cc` | a file with type, unpacked directory, package id | create, open, write, detach, delete | rewritten in place; outlives or goes with the process |
| package files `step/filesystem`, `step/backup`, `utils/file_util.cc` | `<pkg>`, `<pkg>.bck`, `unpack-XXXXXX` | unzip, copy, backup, storage hand-over, rollback, recovery | loops over entries, moves that turn into copies, stale backups |
| manifest and icons | installed manifest and icons, `.bck` copies | backup, create, undo, recover | steps that refuse to replace what an earlier one left |
| manifest parsing `step_parse_manifest.cc` | `manifest_data`, `old_manifest_data` | parse package, installed or recovered manifest | which file is read when several versions lie around |
| package database `pkgmgr_registration.cc` | row of the package, certificates | register, upgrade, unregister, recover | separate transactions for row and certificates |
| security `security_registration.cc` | context of each application | register, unregister, undo, recover | application by application; which manifest undo uses |
| request configuration `step_configure.cc`, `pkgmgr_interface.cc` | request type and paths | choose the request, make the recovery file | first step: its `clean()` is the commit point |
| certificates `certificate_validation.cc`, `step_check_*.cc` | certificate on record | validate, compare with the old one | an update without a certificate on record |
| RDS modification `step/rds` | list of modifications, temporary backup | add, modify, delete, restore | order of the restoration |
| delta updates `step_delta_patch.cc` | patch directory | rebuild a package from the installed one | validation against what is installed |
| mounted packages `step/mount`, `tzip_interface.cc` | zip image, its backup, mount point | mount, wait, unmount, update | asynchronous mounts, polling, undo |
| external storage `external_storage.cc` | app2ext handle | pre/post of each request | one `Commit` or `Abort` per acquisition |
| extension packages `step_*_tep.cc` | extension file | copy, update, remove | the same backup scheme as packages |
| uninstallation | everything above | unregister, remove, clear | no backup: what an interrupted removal leaves |
| user directories `shared_dirs.cc`, `pkgdir_tool_request.cc`, `pkgdir_tool/` | directories of all users | copy, delete, by the service or directly | a time-out answered by doing the work a second time |
| package checks `step_check_*.cc`, `step_privilege_compatibility.cc` | none of their own | background categories, privileges, versions, kinds of update | they trust what earlier requests left in the database |
| parser plugins `plugins/` | loaded plugins | install, upgrade, remove, undo | not modelled, see section 6 |
| preloaded packages `pkg_initdb` | none | runs a backend for each package | not modelled, see section 6 |

Components meet in three places: all steps of a request share one
`InstallerContext`; steps of different requests meet on the device, through the
files they leave; and the steps talk to the client only through the runner
(`on_error`, progress, the final status).

What makes each correct, in one line: the *runner* undoes exactly the steps that
ran, in reverse; the *signals* form one well formed conversation; the *recovery
file* exists whenever there is something to recover; *files, database, manifest,
icons and security context* agree on one version once nothing is under way;
*user data* survives everything but an uninstallation; *modifications in place*
lead to the listed state or back; a *mounted package* is the one of the database,
and nothing else stays mounted; every *session* with the memory card is closed;
every *user* has the directories of a global package, or none, whoever did the
work; and the *checks* of a request may rely on the database.

The hazards are in `PROJECT.json`, each at its line, with the properties that
watch it.

## 2. Modules

| module | models | used by |
|---|---|---|
| `StepRunner` | the loops of `Run()` as actions on `phase`, `it`, `ret`, with the number of steps as a parameter | every specification but `PkgdirTool` |
| `PkgmgrSignal` | `PkgmgrSignal` and the wire to the client | `AppInstaller` |
| `AppInstaller` | `Run()` over steps that may do anything: succeed, fail, emit an error, fail in `undo()` or `clean()` | `MCAppInstaller`, the proofs |
| `RequestTransaction` | what a client may expect of a request: all of its steps or none, and an answer that tells which | implemented by `AppInstaller` |
| `AppInstallerProofs` | theorems about `Run()` and the transaction it implements, about what the client is told | |
| `PackageTransactionProofs`, `PackageTransactionFiles`, `PackageTransactionRest` | theorems about `PackageTransaction`: its types and its recovery file, the files of the old version, what is left at rest | |
| `MountedPackageProofs`, `InstalledPackageProofs`, `PackageChecksProofs`, `PkgdirToolProofs` | theorems about the specification in the name | |
| `FileTree` | directory trees of a package and `CopyDir`, `MoveDir`, `remove_all` on them | `PackageState` |
| `PackageState` | device, memory of the process, step lists, outcomes of a handler | the step modules |
| `CommonSteps` | `StepConfigure`, `StepUnzip`, `StepParseManifest`, `StepCreateIcons`, the backend's manifest step | `PackageTransaction` |
| `InstallSteps` | `StepCopy`, `StepCreateStorageDirectories`, `StepRegisterApplication`, `StepRegisterSecurity`, `StepRollbackInstallationSecurity` | `PackageTransaction` |
| `UpdateSteps` | `StepCheckOldCertificate`, the three backup steps, `StepCopyStorageDirectories`, `StepUpdateApplication`, `StepUpdateSecurity` | `PackageTransaction` |
| `RecoverySteps` | `StepOpenRecoveryFile` and the steps derived from `StepRecovery` | `PackageTransaction` |
| `PackageTransaction` | installation, update and recovery of an unpacked package, with crashes | `MCPackageTransaction` |
| `SharedDirs` | the directories of users and the operations on them, run by two executors | `PkgdirTool` |
| `PkgdirTool` | the D-Bus service with its timer, its client with the fallback, the steps that call it | `MCPkgdirTool` |
| `PathTree` | directories as functions from paths, and single file operations on them | `ModificationState` |
| `ModificationState` | package, unpacked directory, temporary files of a request that brings changes only | the two below |
| `RdsModify` | the list of changes, their application and restoration | `PackageModification` |
| `DeltaPatch` | the rebuilding of a package from the installed one | `PackageModification` |
| `PackageModification` | both on the step loop | `MCPackageModification` |
| `Tzip` | the messages to deviced, deviced, and the polling | `MountedPackage` |
| `MountedPackage` | installation, update and removal of a mounted package, one request after the other | `MCMountedPackage` |
| `ExternalStorage` | sessions with app2ext and mounts | `InstalledPackage` |
| `SecurityContexts` | registration application by application | `InstalledPackage` |
| `InstalledPackage` | install, update, move, clear, uninstall of an unpacked package with a TEP file and running applications | `MCInstalledPackage` |
| `SignatureValidation` | the signature files of a package and what follows from them | `BackgroundCategories` |
| `BackgroundCategories` | which background categories an application gets | `PackageChecks` |
| `PackageChecks` | the checks, the rows of several users and the certificate on record | `MCPackageChecks` |

### How state corresponds to code: the runner and `PackageTransaction`

`phase`, `it`, `ret` are the locals of `Run()`: which loop, the iterator, the
`Result`. `device` is a record of what survives a process, one field for each
file, directory, row or rule set; its contents are *versions*, because versions
are what the properties tell apart. `0` is "does not exist", `-1` is "half
written". A directory tree maps its top-level entries to the files in them. All
code entries behave alike, so one or a few model values stand for them; `data`
and `shared` are entries of their own because `StepCopyStorageDirectories` treats
them so. Every version ships a configuration file in `data` and a resource in
`shared`, and the user may store a file in `data`.

`ctx` is the part of `InstallerContext` and of the steps' members that decides
anything: it is reset when a process ends. `ctx.file` is the `RecoveryFile`
object, `device.rec` the file.

An action is one `process()`, `undo()` or `clean()` with its `precheck()`, or, if
the handler makes several changes that a crash can separate, one *part* of it;
`part` names the part that comes next. The parts of a handler are never
interleaved with anything but a crash, because a request runs in one thread.
`Done`, `Failed`, `Undone`, `Cleaned` combine the return of a handler with the
step of the runner that follows.

`Crash` kills the process before any part, or in the middle of one: `HalfDone`
lists what an operation in the middle may leave (a recovery file without
content, a torn copy of the manifest, a directory partly copied or partly
removed, some of the security rules). The next `Begin` starts a recovery if there
is a recovery file and the next request otherwise.

`faults` is a history variable that records where something failed or died. The
properties use it to say which histories they are about. `stable` is the version
committed last: it changes in `ConfigureClean`, which is where the recovery file
is deleted, so that from there on nothing can bring the old version back.

### The other specifications

*User directories.* `fs` holds, for the skeleton and each user, which directories
exist, are owned and labelled; they are a chain of `Depth` paths, because
`CopyUserDirectories()` makes them parent first. `job[e]` is the operation that
executor `e` (the service, or the installer itself) is in, with the users that are
left and the program counter in the loop over them. D-Bus calls are a queue that
survives the caller's time-out; `TimesOut` is possible at any time while a call is
unanswered, and then the client runs the operation itself. The service quits when
its timer is due, taking the queued calls with it (`lostCall`). The library can
also create and delete directories on external storage; no program in the
repository calls that, so these requests (`RequestCreateExternal`,
`RequestDeleteExternal`) come from its API.

*Modification.* A tree maps every path to `none`, `dir`, or the kind of file
there. The list of changes is chosen line by line and need not fit the package.
`Reinstall` has no recovery file, so this module has no crashes. What the code passes
over is visible in the model: each removal of a delta may fail and be ignored, a
failing `xdelta3` leaves its `tmp_file`, directories made for a file stay when the file
itself cannot be copied, and a restoration or clean-up that fails leaves the backup in `/tmp`. A directory can only be added
if it is there already; a delta for a package without `bin` ends in an exception.

*Mounted packages.* `Tzip` sends `Mount` and `Unmount` to deviced without an
answer; deviced handles them in order, at any later time, or loses them.
`MountZip()` polls `MaxPolls` times. A process may die at any step, and nothing
recovers a request of these types.

*Installed packages.* Here each step is one action, as the detail of the steps
for files is in `PackageTransaction`. `card` is app2ext's view (where the part of
the package is, which session is open, whether it is mounted), `dev.teps` the set
of TEP files wherever they are, `dev.sec` the context of each application.
`StartApp` may happen at any time an application is enabled and registered.
`ExternalStorage::Abort()` is `Commit()` for a move, and the branches for `wgt` and
`tpk` of `external_storage.cc:121` only differ in directory sizes. The
`enabled` flag of a row that an update writes is nondeterministic, since it is a
field of the manifest the backend made.

*Package checks.* `row[u]` is the package as user `u` has it, `record` the author
certificate on record: `pkgmgr_installer_delete_certinfo()` takes no user, and
`CheckPkgCertificateMismatch()` queries for any user (`G_MAXUINT`), so there is one
for the package id. Whether the database keeps a certificate that is deleted while
another user has the package is its business (`Deleted` allows both). What a
package contains is chosen by the check that reads it first, from all that the
earlier checks let pass. The package manager serves one request at a time.

### External

The backends are not in this repository. The order of the steps (`Pipeline`) is
that in which the steps of this library must be combined, as their prechecks and
the data they pass through the context require: parsing sets `pkgid` and
`manifest_data`, `StepBackupManifest` reads the `xml_path` that parsing the
installed manifest sets, and so on. The step that writes the manifest
(`CreateManifest`) is a backend's as well. That a recovery is started before the
next request of the package is the package manager's doing. The archive, the file
system, deviced, app2ext, the security manager, cert-svc, privilege-manager,
`xdelta3`, the user and the application that stores a file are external too. These
are marked `external` in the map.

## 3. Runs

| run | what it asks | bounds | distinct states | result |
|---|---|---|---|---|
| `app_installer` | Are the loops and the signals right, whatever the steps do, and do they implement `RequestTransaction`? | 3 steps: one at each end and one between | 7 160 | all properties hold |
| `package_transaction` | Is a package one version again after any two faults? | 3 versions, 2 faults, both request modes, one code entry besides the manifest, two applications | 3.07 million | all properties hold |
| `user_directories` | Do all users have the directories, or none, whoever does the work? | 2 users, one of them in another primary group; 2 nested directories; 2 requests; 1 fault, any number of time-outs | 565 544 | all properties hold |
| `modification` | Do changes in place lead to the listed state, or back? | lists of up to 5 lines over 3 paths, every small delta, 1 fault | 3.56 million | all properties hold |
| `mounted_package` | Does what is mounted and stored belong to the version in the database? | 5 requests, 2 polls, 2 faults | 3.15 million | all properties hold |
| `installed_package` | Do files, card, TEP file, contexts and applications agree? | 3 requests, 2 faults, 2 applications | 1.39 million | all properties hold |
| `package_checks` | Do the checks keep a package id with its author, and rights within the signature's level? | 2 users, 2 authors (symmetric), 3 requests, any number of database failures and crashes | 12.1 million | the property holds |
| `security_reverted` | Does a rollback restore the security context? | 2 versions, 1 fault | | violated |
| `storage_reverted` | Does a rollback restore what the old version shipped in `data` and `shared`? | 2 versions, 1 fault | | violated |
| `files_reverted` | Does a rollback restore the files whatever happened before? | 3 versions, 1 fault | | violated |
| `files_recovered` | Does a recovery restore the files wherever the process died? | 2 versions, 1 fault | | violated |
| `recovery_completes` | Is an interrupted request recovered at some time? | 2 versions, 1 fault | | violated |

Why the bounds are enough. Three steps give the undo loop a first, a last and an
inner step to fail in. Three versions are an installation, an update, and an
update after something was left behind by the first update; a fourth version adds
no state a third one cannot be in. Two faults are a failure and a crash in its
rollback, a crash and a crash in its recovery, or a fault in each of two requests.
The tree has one entry that moves before or after `manifest`, `data` and `shared`,
which is what the order of a directory iteration can change. Two applications let a loop over
icons fail with one icon moved and the other not. Two users are one
that a loop has served and one that it has not; two requests, the second of which
meets what a timed-out call of the first is still doing. Mounted packages get five
requests, because the exception `orphan` (below) takes an installation, an update
that dies, a removal, an installation and an update that fails. Three paths (a file, a
directory, a file in it) and five lines give each of the three headers and a path
named twice, or a directory with its content. Two polls are one that is too early
and the last one. Three requests for one package are enough for its installation,
something that goes wrong, and a request that meets the consequence; with the
package checks: one user installs, a second one changes the record, a third
request is checked against it. Authors are only compared, so they are symmetric.
`faults`, `budget` and the number of requests end every behaviour, so the runs
switch the deadlock check off: the device has no more requests. The same holds for
`AppInstaller`, whose process ends.

### What the properties of `package_transaction` say

`FilesAtRest`, `RegistryAtRest`, `IconsAtRest` and `SecurityAtRest` say that once
a request is finished, rolled back or recovered, everything belongs to the version
committed last. `UserDataSurvives` says that the user's file is in its place again,
`OldVersionNeverLost` that no entry of the committed version is ever in neither of
its two places. The latter holds also when an `undo()` or a whole recovery fails and
nobody tries again: the files are then not where they belong (`NotReverted`, below),
but they are in the backup. `NothingLeftBehind` and
`RecoveryArmed` connect the requests: the next update needs a device without
backups, the next recovery needs to be told.

They do not hold for every history, and the exceptions are part of the result:

* `CleanCutShort`: `StepConfigure::clean()` comes first and deletes the recovery
  file; dying or failing later in the clean-up leaves backups for good
  (run `files_reverted`).
* `BackupCutShort`: rollback and recovery take any backup directory for a
  complete one. After a failure or a crash between two moves of
  `StepCopyBackup::Backup()`, the rest of the old version is deleted (run
  `files_recovered`).
* `NotReverted`: `Run()` goes on when an `undo()` fails, and a recovery step that
  fails, or ignores a failure, is not repeated, since the recovery file is
  deleted by the clean-up of the run. `ManifestLeft` is the one such case in which
  `OldVersionNeverLost` says nothing: the recovery of an installation ignores that it cannot
  remove the manifest, and a row that stayed too makes the next request an update.
* `ManifestCopyCutShort`: the backup of the manifest is a copy, and a torn copy is
  moved over the intact manifest by a recovery.
* `RulesCutShort`: the recovery of an installation looks for the package directory
  to unregister its rules, after `StepRecoverFiles` has removed it.
* For `IconsAtRest`, any crash: `StepRecoverIcons` removes the icons it has no
  backup of, so a recovery before icons are backed up, or a second one, loses them.
* For `UserDataSurvives`, an interrupted removal of the copied directory: what is
  left of the directory in the backup is preferred to the complete copy. A copy that
  is cut short is no exception.
* For `RecoveryArmed`, an interrupted or failed write of the recovery file, which
  is rewritten in place.

The violation runs show five of these against what the comments in the headers
promise. `NothingNewerStays` goes where the others stop. It is also about
crashes, torn manifests and backups that outlive their update: such histories
lose something, but leave nothing of a version that was not committed. Only a part of a
package that is taken for the whole does, so it makes an exception of `Backup()` or the removal
of its result cut short. No property is about the certificate in the model's `cert`, but
`StepCheckOldCertificate` reads it: the recovery of an update registers none, so every
later signed update ends there.

### What the properties of the other runs say, and what they except

*user_directories.* Two executors that copy the same directories at once disturb
each other, but `EveryUserIsServed` says that in the end every user has all of
them, owned and labelled. Exceptions: a failure other than a lost call or one on
the card (`Harmless`) when copying, owning or labelling, for a retry passes over a
copy that exists (`shared_dirs.cc:428`); a request that failed (`past.failed`); and
a deletion that its caller has given up and that is still running when the next
installation copies (`past.overlap`). `NoUserKeepsDirectories` holds although calls time
out because the calls stay in order, and `LegacyFollowsPackage` although nobody looks at
the answer. `RequestsEnd` and `ServiceGoesAway` are liveness. `OthersAreServed` is
about the first exception: a copy that fails costs one user the directories, and no
other, also when the same operation runs twice.

*modification.* `RdsApplied` compares the result with a reference that is a set
expression over the list, not an order of operations. `RdsRestored` says that after
a failure every file is what it was, except for the paths of `CannotBeUndone`: a file added
where there is one, a path that is named twice. `undo()` reports success in these cases
too, and the other files of the same list are restored. `DeltaRebuilds` does the same for
a delta, as long as no removal fails unnoticed.

*mounted_package.* The exceptions are in the properties: a backup that outlives
its update, or even its package, since a removal leaves it, is put back over the
committed file by the rollback of a later one (`orphan`); the rollback of an update
does not unmount (`stuck`); messages that are lost. That a backup may outlive the
package was found by the proof: with three requests TLC cannot get there. `MountShowsPackage` has no
exception: what stays mounted is never taken for the mount of a later request.

*installed_package.* The exceptions are collected in `past`: `moveUndone` (a move
that is rolled back takes the TEP file back, the package stays), `oldTepRemoved` (an
update on the card with a TEP file of the same name removes the old one when it is
rolled back), `cardForgotten` (an uninstallation decides by the default storage whether
to open a session), `inTheWay` (a TEP file of the same name was left where one is to be
moved, and `Abort()` is skipped), `appsChanged` (an update that drops an application
leaves its context). Of the failures: `StepCopyTep::undo()` removes the file of the
store when copying failed; a `clean()` that fails leaves the session of the
request open; a rolled back removal registers the contexts without an author. An
application of the *new* version may be running after a rollback, for it may be
started once the new row is written; `AppsStopped` is about the old one. What app2ext does
after `cardForgotten`, with a package on the card that nobody told it about, is not in this repository.

*package_checks.* `TrustedPackages` has three parts. `RightsFitLevel`: what a package may
do never exceeds the level of its first distributor signature, also with what the
checks themselves add to its privileges. `OneAuthor`: all users have the package
from the author on record. `CategoriesAsDeclared`: the four parts the list of
background categories is rebuilt from are the declared categories again, or more for
an old application. Exceptions of `OneAuthor`, each of which the run needs:
`unsigned` (an author signature that is missing in a preloaded package, or
disregarded, skips the comparison and empties the record), `removed` (the
certificate is deleted with the package of another user), `notSaved` (the row is
written and the certificate is not), `recovered` (the recovery of an update
registers no certificate at all). A recovery may fail, or ignore
that it could not unregister a row, and then keeps its file; a user may have one for
each request that died. Nothing in the
repository says whose record it is in the case of `removed`.

### Fairness

`AppInstaller!FairSpec` assumes `WF(Next)`: `Run()` is one thread that waits for
nobody, so it goes on as long as it can. `RequestTransaction` asks for weak fairness
of going forward and of reverting, and none for the answer, which may be lost.
`PackageTransaction!FairSpec` assumes
weak fairness of `Proceed`, the steps of a process and the start of requests: a
running process goes on, and the package manager starts the recovery it is asked
for. There is no fairness for crashes and failures, and their number is bounded,
so the counterexample of `recovery_completes` is one in which, after a single
crash, recoveries are started forever and all end in the same error.
`PkgdirTool!FairSpec` assumes that the installer's process and the service run
(`InstallerStep`, `ServiceStep`), that the timer elapses and that the main loop acts on
it. No request has to be made, and no call has to time out.

## 4. Proofs

TLC checks small instances; the theorems hold for all values of the constants,
under the assumptions named in the modules (`ASSUME`), which say no more than that a
number of steps is positive, a budget is a natural number, mount points differ, and
so on. Each proof has the same shape: a type invariant; an inductive invariant, one
lemma for each group of actions that shows it is kept; and the property as a
consequence. Every invariant was run through TLC on the configurations of section 3
before it was proved.

### The runner

`AppInstallerProofs` proves for every number of steps, from `NumSteps \in Nat \ {0}`
alone:

* `LoopInvariant`: the inductive invariant. The properties speak of the end of a
  run; to get there one must know, in each phase, exactly which steps have been
  processed, undone and cleaned, in terms of the iterator. That is what the
  invariant says, one conjunct for each phase.
* `UndoneExactlyOnceHolds`, `UndoneInReverseHolds`, `ResultIsTruthfulHolds`: the
  properties of the same names of run `app_installer` follow from it. So does
  `CleanOnlyAfterSuccessHolds`, which no run checks: `clean()` starts only when
  every step has been processed, and then nothing is undone.
* `TypeOKHolds`: the type invariant of the whole module, the signals included. The
  iterator stays inside the list because of `LoopInvariant`; the signals need a
  conjunct of their own, proved from one lemma for each signal that
  `PkgmgrSignal` can send.

`AppInstallerProofs` also proves `RunImplementsTransaction == Spec => Transaction!Safe`,
again for every number of steps. The mapping: the transaction is committed
once the process loop has passed the last step, and aborted once the undo loop has
passed the first one (`TxStatus`); its effects are the steps that were processed, or failed, and are not
undone (`TxEffects`); the answer is the last signal, if it is an `END` (`TxAnswer`).
`LoopInvariant` gives the effects as a function of the iterator in each phase. Two
things must be added to it: a failed request has processed exactly the steps before
the failing one (`ReachedInv`), so that undoing them empties the effects; and no
`END` is sent before `Finish` (`AnswerInv`), so that an answer comes after the
outcome. Then every action is either `Apply`, `Fail`, `Revert` or `Answer`, or leaves
all three alone. That the outcome is reached is checked by TLC: run `app_installer`
has the whole `ImplementsTransaction`, fairness included.

The last part of `AppInstallerProofs` proves what the client is told. `TalkInvariant` relates what is
on the wire to the flags of `PkgmgrSignal` and to what `Run()` is about to send
(`note`): `ShapeInv` for `START` and `END`, `ErrorInv` for the one error, `SentInv`
for a conversation without losses. `ClientLearnsOutcomeHolds` follows for any list. `lost` holds
the kinds of the signals that could not be sent: an `END` is promised also when a `START` got
lost and was sent again, and a client that hears nothing at all has lost every `START`
(`pkgmgr_signal.cc:58`).
`ClientProtocolHolds` needs one conjunct more (`GrowInv`: all percentages so far are
at most that of the last step told) and a condition, `NumSteps <= 100`: a percentage is an integer
division (`app_installer.cc`), so from 101 steps on two neighbouring steps have the same one and the
progress no longer grows. The lists of the backends have some thirty steps.

### Installation, update and recovery

`PackageTransactionProofs` is about the largest specification, for any applications
and entries of a package, any number of versions, failures and crashes.

* `TransactionTypeInvariant` and `TransactionTypeOKHolds`: besides the types, that
  the loops inside a handler have something left to do (`LoopsOK`: the code takes
  the next icon or entry of an iterator that is not at its end), that code and
  storage do not mix (`TreeOK`), and that a request that has not committed yet has
  a version to install (`RoomOK`). One lemma for each helper of `FileTree` says
  that it keeps the shape of a tree, and `Outcomes` that whatever way a handler
  ends keeps the rest.
* `RecoveryArmedHolds` says that a crash is recovered wherever it happens. Its
  invariant `ArmedInv` is about `Unbroken` histories, those for which the property
  makes no exception, and has six parts:
  `RecordOK`, the property itself and that an update's file is never there without
  an old version; `MemoryOK`, at which steps the `RecoveryFile` object and the file
  agree (it is rewritten from memory, so a stale object would overwrite it);
  `InstallOK`, `UpdateOK` and `CleanOK`, how far the request must have come when an
  entry, an icon, a manifest, a backup is on the device, so that a rollback past
  that step has nothing left when the file goes; `RecoveryOK`, what a recovery has
  put back at each step, so that its own commit may delete the file.
  Each `Armed...` lemma covers the handlers of a group of steps, `ArmedCrash` what
  dying in the middle of one leaves.
  The induction failed at first for states TLC never meets: a process between two
  requests with a `RecoveryFile` in memory, a registration under way in the recovery
  of an installation. That these do not occur is now part of the invariant.

`PackageTransactionFiles` extends it and proves `OldVersionNeverLostHolds`. The property
also speaks of histories that are not `Unbroken`: a write of the recovery file, an
`undo()` or a whole recovery may fail, any number of times. So `KeptInv` is a second
inductive invariant, about all histories (`Kept`) in which neither the clean-up nor the loop of
`Backup()` is cut short and no manifest of a taken-back installation stays. Its core is `OldOK`: the committed version is whole in the
backup as soon as there is one and whole in the package directory until then; inside the
loop each entry is in one of the two (`Halfway`: what is not in the backup is still
to be moved and still there, and nothing still to be moved is in the backup already, on which
the code's refusal to replace depends); after the commit the new version is whole in the package
directory. The rest is what that needs:

* `FileOK`: which recovery file there is, at least a torn one, while there is
  something to recover; hence `KindOK`, an installation, its rollback and its recovery never meet a
  committed version. Otherwise the `undo()` of `StepCopy` or `StepRecoverFiles`
  would remove the only copy of it.
* `RowOK` and `ManifestsOK`: a committed package is in the database, or a recovery is
  about to register it, so that the next request is an update.
* `NothingOK`: without a committed version nothing is set aside, for the one update that
  can start then (the row of a failed installation is left) fails when it looks
  for the installed manifest.
* `ContentOK` and `BackupOK`: what is in the unpacked and in the package directory
  when the new content is moved in place, and from which step on there must be a backup.

The lemmas follow the ways a handler can end: `KeptFails`, `KeptGoesOn`, `KeptDone`,
`KeptUndone`, `KeptCleaned` for handlers that change nothing of this (`Near`), and a
lemma of their own for the handlers that do. `KeptCrash` covers the process dying in the middle of a
copy, a removal or a write.

`PackageTransactionRest` proves what the device looks like once everything is over,
in seven steps. Each is an inductive invariant that says of one part of the device at
which positions of the step loop it may differ from the committed version, followed
by the property of run `package_transaction` that it gives at rest. `Underway(u, p, r)`
is the form of such a position: an update (or installation) in the steps from `u` on
before its commit, its rollback down to `u`, or the recovery of one up to its step
`r`; `Pending` adds the clean-up of the committed update.

* `LeftInvariant` and `NothingLeftBehindHolds`, for histories in which no clean-up is
  cut short and no rollback or recovery fails itself (`Mended`): a backup of the files
  (`LeftBackup`), of the manifest (`LeftManifest`) or of an icon (`LeftIcons`) and the
  unpacked archive (`LeftArchive`) each have an interval of positions. That the step at
  the end of the interval really takes it away depends on the memory of the process: the
  `undo()` of `StepBackupManifest` does nothing unless it remembers having made a backup, and
  `StepUnzip::undo` and `RemoveTemporaryDirectory` need the path of the archive
  (`NamesArchive`: who has unpacked knows where, the recovery file included). For the
  icons the loops matter (`IconLoops`): what is not gathered is not set aside.
* `NewFilesInvariant` and `FilesAtRestHolds`: a version that is not committed is in the package
  directory only between `StepCopy` and its `undo()` or `StepRecoverFiles`. The rest is
  `KeptInv` with nothing left behind: no backup, so the files of the committed version are in the
  package directory, all of them and no others.
* `RequestInvariant`: what a request has in hand. A package that was never committed
  is never updated (`FirstKind`) and has a row only inside its installation
  (`FirstRow`), only the recovery of an update registers anything (`Reregisters`), and
  from `StepParseManifest` on the manifest in memory is the new version's, in the
  recovery of an update the old one's (`ManifestRead`).
* `RegistryInvariant` and `RegistryAtRestHolds`: the old manifest is in its backup or in
  its place (`ManifestStands`), the old row in the database but between
  `StepUpdateApplication` and the handlers that put it back (`RowStands`): two
  intervals that differ, since the row and the manifest are written by different steps.
  `RowReverted` says that those handlers know the old version,
  `ManifestInstalled` and `RowRegistered` that at the commit both are the new one's.
* `RulesInvariant` and `SecurityAtRestHolds`: the same for the security context. Here the
  steps that write and that revert do not match: `StepRollbackInstallationSecurity`
  stands six steps before the registration, and a registration that fails half way
  leaves rules that only the `undo()` of that earlier step removes (`RulesStand`).
* `DataInvariant` and `UserDataSurvivesHolds`: where the file of the user is. While
  there is a backup it is in it, or still in the package directory and not yet in the
  backup (`DataStands`); it has reached the backup before the package directory is
  replaced or removed, and the package directory before its copy in the backup is removed
  (`DataMoved`, `DataRecovered`). That removal, cut short, is what the property excepts:
  `undo()` does not move what the backup still has.
* `IconsInvariant` and `IconsAtRestHolds`, for histories in which no process dies, as the
  property: a first version has the icons that are in `made` (`FirstIcon`), an update
  has each old icon in its place or set aside and gathered (`NextIcon`), and the loop of
  `StepCreateIcons` has made those that are no longer to do (`Placed`). It is one
  statement for each application, so the loops need no induction over the icons. No
  recovery runs in these histories (`RunsThrough`).

The steps of all these proofs are the same. For each handler there is one lemma for
where it stands (`CommonStands` to `RecoveryStands`), what it writes (`CommonTouches` to
`RecoveryTouches`) and how it moves the loop (`HandlersMove`). An interval is kept by
every handler that does not write the part (`PendingStays`, `UnderwayStays` and the
like, once for all parts), so an invariant has only the writers to deal with, the
ends of its interval, and `Crashes`, which lists all that a dying process may leave.

### Mounted packages

`MountedPackageProofs` proves the five properties of run `mounted_package`, for any
number of requests, polls, failures and crashes.

* `MountShowsPackageHolds` needs `MountInv`: every message that is still with
  deviced and mounts at the final place mounts the package file, and that file is the
  new version's from its copy on. So it does not matter how late deviced is.
* `ZipMatchesRegistryHolds` needs `FilesInv`: for each kind of request and each
  place in its list, where the old and the new version's files are.
* `ZipNeverLostHolds` is about all histories, so `KeptInv` does not say where files
  are but only that the committed version is in the backup from the moment there is
  one until the request commits. This is where the proof attempt failed at first:
  a removal does not delete the backup that a crashed update has left
  (`step_remove_zip_image.cc`), and it survives into the life of the next package of that name.
* `NothingStaysMountedHolds` needs `ClearInv`: a mount point is free, or a later
  `Unmount` is in the queue behind the last `Mount`, or the request is at a place
  from where it will still send one.

### Installed packages

`InstalledPackageProofs` proves the five properties of run `installed_package`, for
any number of requests and failures, with applications started at any time.

* `InstalledTypeOKHolds`: the step list of a request is looked up with the iterator,
  so the iterator has to be inside it; the rest are types.
* `AppsStoppedHolds`: `AppsInv` says that a package is disabled from the step that
  does that (`Off`) and that none of its applications runs from the next one
  (`Stopped`). That a *failed* disabling does not matter is the point: the request
  is then rolled back.
* `CardReleasedHolds`: `RowInv` (when the package is in the database), `SessionInv`
  (between which steps the session of the request is open), `PlaceInv` (a package on
  the card is in the database, unless it is coming or going) and `CardInv`.
* `PackageWholeHolds`: `FilesInv` has the version of the files, of the backup and of
  the row for every place in every list; `EnabledInv` where a package may be
  disabled; `SecInv` which applications have contexts. The last needs that an
  update's manifest has the same applications or the history says it has not.
* `TepKeptHolds`: `TepInv` has, for every place, where the old TEP file is (on the
  phone, in the backup that the package directory has become, or on the card) and
  where the new one is. In an update that is rolled back both may be there.

Strengthening these invariants showed a mistake in the model: enabling a package
that an installation had not registered yet created a row. `SetEnabled` now updates
nothing where there is no row.

### Package checks and user directories

`PackageChecksProofs` proves `TrustedPackagesHolds` for any number of users, authors
and requests, and with crashes. `RightsInv` says that no row, and no request that
died, has more than its level allows; `LevelInv` that a package without a valid
signature does not get past the check of signatures; `AuthorInv` what the checks
have compared: after the first one the author is the one on record, if there is any,
and after the second one an update registers the author it found.

`PkgdirToolProofs` proves `PkgdirTypeOKHolds` (whatever is lost or dies, an operation
has the rest of the list of users to serve, and the installer runs one exactly when
it says so) and `LegacyFollowsPackageHolds`. Calls may be out of date when they are
served, since the installer does not wait for ever. `LegacyInv` therefore has three
cases (`GlobalHas`, `UserHas`, `NobodyHas`), and each says that the *last* call that
counts, be it unsent, queued or being served, leaves the directories as they should
be. `Calm`, the condition, is that of the property. The theorem asks for
`UserList # <<>>`, since `DeleteLegacyDirectories()` does nothing where there are no
users (`shared_dirs.cc:492`).

`NoUserKeepsDirectoriesHolds` needs no such condition. `ListInv` says that the list of the
installer is the rest of its request, and what the request has done to the database;
`RemovedInv` what happens to a directory that stays (`Stays`) once the package is gone
for everybody. It has three parts, and none is inductive without the others: while a
copy in the service is in the middle of a user (`MidCopy`) a deletion is still to come or in
the queue behind it, whatever the installer deletes itself meanwhile; a directory that
stays is still to be visited by some deletion; and while the service can quit and lose
its queue (`ServiceMayQuit`: idle since the timer fired, since each answer renews it) the
installer deletes it itself. Only failures that the property names are excluded.

`EveryUserIsServedHolds` builds on it: an installation for everybody starts from what
the removal before has left, `RemovedState`. `ServedInv` is about users who had no
package of their own (`Plain`) and has two phases. While a deletion from before is
still to be served (`Unsettled`) nothing is claimed of the directories, but a copy is
due, or queued behind all deletions (`LastCopyQueued`). `DeletionState` says that such
a deletion leaves nothing, and that no copy of the installer has gone beyond its
start by the time it ends; this is where the exception `past.overlap` is needed. From
then on, `InOrder` and `Served` hold of each user: the directories made are `1..k`,
no copy is further than `k+1`, and the user has them all, or some copy is `Ahead`, or
none has begun and one will come. Of two copies at the same directory the second
passes over the user (`shared_dirs.cc:428`), and the first is ahead; when one makes
the directory that the other was about to make, it is ahead itself (`CopyMakes`,
`CopyServes`). That no copy is further than `k+1` is what makes `CreateDir()`, which
is content with a directory that has appeared, harmless. A copy that finds nothing of
what it should own would end for all users; that it cannot is part of the invariant
as well, for the users with private packages too.

### Only model-checked

* Liveness (`RunEnds`, `RequestsEnd`, `ServiceGoesAway`), which is out of the prover's
  reach.
* `PackageModification`: what its properties say depends on operators that compute over
  sequences and trees of data.
* `NothingNewerStays` and `OthersAreServed`.

## 5. Plan

Done: the runner with its signals, the transaction it implements; installation,
update and recovery of a package with failures and crashes; user directories;
modification and delta; mounted packages; moves, TEP files and uninstallation;
signatures and checks; the proofs of section 4.

Next: a crash in `InstalledPackage`, which has failures only.

## 6. Not modelled

* The parser plugins: shared libraries of others, called once for each tag or
  metadata of a manifest. What they return is ignored, so there is neither state
  nor an error path.
* `pkg_initdb`: runs a backend for each preloaded package; no state.
* The conversion of manifest elements in `step_parse_manifest.cc`: data without
  control, which no property tells apart. The check of features
  (`feature_validator`) is not called.
* What app2ext, deviced, `xdelta3`, cert-svc and the databases do inside, archive
  extraction and XML parsing: libraries and services outside the repository, of
  which the model keeps the outcomes the code distinguishes.
* Requests to enable or disable a package alone: one call of the database.
