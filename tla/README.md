# Verification of the pgo client

`kubectl-pgo` (short: `pgo`) is a kubectl plugin for the Crunchy PostgreSQL
operator. Its commands read a PostgresCluster from the Kubernetes API server,
change a few of its settings with server-side apply, create or delete it, and
collect a support archive. This directory holds TLA+ models of that program,
TLC configurations that check them on small instances, and theorems that TLAPS
proves for every value of the constants.

Paths below are relative to the repository (`src/`). Line numbers of each
definition are in `PROJECT.json`, "map".

## 1. Inventory

| Part | Source | State | Operations |
|---|---|---|---|
| Intent | `internal/unstructured.go` | the patch under construction, an untyped tree | extract what the CLI owns, set, remove, prune |
| Patching commands | `internal/cmd/backup.go`, `restore.go`, `start.go`, `stop.go` | one intent per process; the cluster and its `managedFields` in the API server | get, dry run, ask, apply |
| Create, delete | `internal/cmd/create.go`, `delete.go` | the cluster | ask, create; ask, delete |
| Ownership options | `internal/config.go` | field manager, force | options of creates and patches |
| Question | `internal/util/interactions.go` and the loops of its callers | attempts made, scanner | ask again, accept, decline, give up |
| Support export | `internal/cmd/export.go` | tar, gzip and file writers, log buffer, local directory | some thirty gatherers, `cli.log`, size report, closes |
| Show | `internal/cmd/show.go`, `version.go` | the pod that was looked up, the secrets that were read | look the primary up, exec, print; read secrets, ask, print; read the version |
| Exec | `internal/cmd/exec.go`, `internal/util/executor.go` | none | one command in a container |
| API server | not in the repository | the object, its owners | create, delete, update, server-side apply |
| Wiring, names, usage | `pgo.go`, `support.go`, `version.go`, `naming.go`, `enum.go`, `format.go`, `apis/` | none | parse, format, build clients |

How the parts interact. A command is a process of its own and is sequential;
concurrency comes from several users (or a user and a GitOps controller)
working on one cluster name. All CLI processes write under one field manager
and therefore share one `managedFields` entry. Between any two requests of a
command, and while its user thinks about a question, the object may be
changed, deleted or created again; no request carries a `resourceVersion` or
a `uid`. The export talks to the API server, to pods (exec) and to a kubectl
subprocess, and hands bytes through three writers. The commands that show
something look a pod up by its labels and then ask it by its name, and read
secrets before they ask whether to print them, while Patroni moves labels and
the operator rotates passwords.

What is hard, and what makes each part correct:

* **Stale reads.** A patch is built from an object read earlier. It must not
  touch what it is not about, take anything from another manager without
  force, or bring back a cluster that was deleted.
* **Apply drops what is not repeated.** Every command must send again what all
  earlier commands set, and nothing that no command set. A map left empty by a
  removal is an owned field too and must be pruned from the bottom up.
* **Consent.** stop, delete, restore and one kind of create write nothing
  before a "yes", and write once.
* **Input.** At a terminal the first recognised word decides; giving up or end
  of input is not consent; the loop ends. Of a pipe, lines are lost between two
  attempts and may be cut in two.
* **Partial failure of the export.** One gatherer's error ends a container, a
  pod or that gatherer, each with its own rule, but never the export; an
  archive that is announced has everything that was written to it, and its log
  tells every error.
* **Reading a moving world.** What is printed was said by a primary of the
  cluster, is one reading and not a mixture of two, is whole, and is everything
  the command is for if the command succeeds; passwords follow a typed yes.
* **Shared local directory.** Log files of all pods pass through one directory
  that is removed when nothing failed and kept for the user otherwise.

`PROJECT.json`, "hazards", lists these at their lines, with the properties that
would notice them going wrong.

## 2. Modules

| Module | Models | State and actions |
|---|---|---|
| `Unstructured` | the tree of settings and the functions on it, in closed form | pure operators |
| `Intents` | the functions `modifyIntent` of the patching commands | pure operators |
| `Documents` | the same functions as they are written: recursive, over maps, lists and nil | `live`, `owned`, `doc`, `flat`; `Extract`, `Modify` |
| `ServerSideApply` | the API server, as far as the CLI relies on it (external) | pure operators on an object |
| `PgoCommands` | backup, restore, restore disable, start, stop, create, delete | `cluster`; per process `pc`, `request`, `intent`, `preview`; one action per request or question, and the writes of others |
| `Consent` | abstract specification: a yes where one is needed, one write, then nothing | `object`, `stage` |
| `Confirm` | the loop of questions | `typed`, `taken`, `rest`, `attempt`, `answer`; `Type`, `Close`, `Ask` |
| `Show` | show, show backup, show ha, show user, version | labels, secrets and the operator's version; the command's `target`, `list`, `printed`; `Find`, `Exec`, `ListUsers`, `Ask`, `GetVersion`, and the changes around it |
| `Reach` | what the gatherers ask for, and how far each answer reaches | pure operators |
| `Walk` | abstract specification of the three gatherers that copy log files: where they are and where an answer may take them | `gatherer`, `left`, `files`, `at`; `ListPods`, `Ask`, `Rest` |
| `Export` | RunE of the export, every gatherer, the writers | the current gatherer and what it still asks for, the members written and stored, the log, the result |
| `ExportStream` | the copying of log files, in detail | pods, files, local directory, archive |
| `MCPgoCommands`, `MCDocuments`, `MCShow`, `MCExportStream` | values for TLC | |
| `PgoCommandsProofs`, `SettingsProofs`, `DocumentsLemmas`, `DocumentsProofs`, `ConfirmProofs`, `ShowProofs`, `ExportProofs`, `ExportStreamProofs` | theorems | |

`PgoCommands` EXTENDS `ServerSideApply` and `Intents`, which EXTEND
`Unstructured`; `PgoCommands` instantiates `Consent` under a refinement mapping.
`Documents` instantiates `Intents` to compare with it. `Show` instantiates
`Confirm`: the question of `show user` is the whole loop, attempt by attempt,
while secrets change. `Export` treats a log file as one thing that is asked for;
`ExportStream` opens it up. Both implement `Walk`, each under a refinement
mapping (`Export!LogsWalk`, `ExportStream!StepsReach`), and `Walk` takes how far an
answer reaches from `Reach`, as `Export` does: so the errors of the one go
exactly as far as the other says.

### Correspondence with the code

*Objects.* A PostgresCluster is a function from fields to values or `Absent`,
with the owned paths of each `managedFields` entry. Fields are the settings the
commands write, and two that stand for the rest: `instances` (what every
cluster must have) and `repos` (the part of `backups.pgbackrest` no command
but create writes). A tree also records which sections are present and empty,
because that is what `unstructured.RemoveNestedField` leaves behind.
`ExtractDepthFirst` is the closed form of the recursive function: the owned
fields that exist, and for an owned section all of it.

*Documents* has the same functions over nested maps and lists. Each recursion and
each loop of the code is a recursive function there: of how far the loop has come,
and for `extractDepthFirst` of the call, which is known by the place of its source
in the object and the path of its set in `managedFields` (`Extracted` is the body
of one call, `call` the results of its own calls). A path element is the field of a
map, an item of a list by its key, or a value of a list; a `fieldpath.Set` is the
set of its paths. A child that is found is assigned even when nothing came of it,
which is how a nil gets into the tree.
Its property `IntentsAgree` says that the patch is the one `Intents` describes
and contains no nil, under two conditions. `Tracked`: `managedFields` names
nothing the object has lost, which the API server sees to. `Full`: no map of the
object is empty below a section that is copied whole; `ServerSideApply` makes no
such object. Where `Tracked` fails, nils and local errors are possible, and
`OnlyWhatIsManaged` says what still holds. The errors for a path element that is
a list index are left out: the API server writes none.

*A command.* `Get` is one request and the local work after it (extract,
`modifyIntent`, the clock, the early return of start and stop); `DryRun`,
`Patch`, `Create` and `Delete` are requests; `Confirm` is the user's decision.
An answer that is lost after the server has done its work ends the command
with an error; `Kill` is an interrupt, or a request that never arrived.
`stale` is a history variable: the processes whose patch is older than the
object.

*The question.* A line is known by whether it is an answer, and one that is none by
whether it ends in one. Every attempt has a scanner of its own, whose buffer goes
with it. `Takes` is what that scanner takes from standard input: one line of a
terminal; of a pipe what its reads return, which may be several lines and end
inside one, and of a line above 64 KiB, an error of the scanner, perhaps its
beginning only. `rest` is what is left of the line that was begun, and the next
attempt reads it as a line: the "yes" of `maybe yes` is consent then. `heard` is a
history variable, the line that the last response is or is the end of. How many
bytes a read returns depends on the buffer (4096 bytes at first) and on who
writes the pipe, so the model lets a read end anywhere.

*A reading command.* `Find` is getPrimaryExec: exactly one pod has the labels, or
the command fails. `Exec` is one exec and the printing of what it said; `show`
does both twice. `primaries`, `readings` and `releases` are history variables:
what was true at some moment since the command began. Headings, formats and
what the pod wrote to standard error are left out, and of `version` the line
about the client.

*The export.* A gatherer is data: the answers that end it at its list request,
and groups of things it then asks for. A thing says, of each answer, how far
it reaches: to the thing, to the rest of its group, to the rest of the
gatherer. That is the difference between `continue`, `break` and `return` in
the code, and the reason why thirty gatherers need three actions. A loop that
runs inside another's is laid out: a PGAdmin is a group with its own list of pods
(`PodListing`), each described and asked for the logs of its containers, and a
group for its own description. An error of kubectl that is printed and written
into the member is the answer "warned". The tar
writer keeps its first error; a log whose copy ends early leaves it inside a
member, and it refuses all others (such a log is `streamed`; every other member
is read before its header is written). The gzip writer may hold back up to
`Window` members. A member is of size one. `ArchiveHasAnEnd` and
`SizeIsReported` are about those writers.

## 3. Runs

Runs that pass:

| Run | Question | Size |
|---|---|---|
| `Settings` | Which settings and which ownership may a patch touch, is what was asked for there when a command succeeds, and what does running it once more do? Two processes with every patching command; another manager updates and applies | 124 thousand states |
| `Lifecycle` | Create, delete, restore and forced patches racing: does a patch bring a cluster back, does every interleaving implement `Consent`, does every command come to its end or its question? Forced backups and stops among them | 28 thousand states, with fairness |
| `Confirm` | First word, giving up and end of input at a terminal; is consent ever invented when a read of a pipe takes several lines and ends inside one? | 222 thousand states, with fairness |
| `Export` | The whole export with every answer of everybody; does every part have its turn, do the gatherers of log files implement `Walk`, does every answer bring the command on? | 146 thousand states |
| `Show` | Who answers, is what is printed of one moment and whole, does success mean everything was shown, does the command end? Every reading command under failovers, replaced pods, rotated passwords and an upgrade | 1.1 million states, with fairness |
| `Documents` | Does the recursive extraction with key by key edits and pruning come to what `Intents` says? Objects with six settings in every combination, empty sections, lists, and every choice of managed paths | 424 thousand states |
| `ExportStream` | Outcomes and the local directory over three gatherers and three pods while logs grow; does every step implement `Walk`? | 4.8 million states |

Runs in which TLC finds what a doc or a comment says violated by what the code
does (each is a finding in `PROJECT.json`):

| Run | The text | The code |
|---|---|---|
| `BackupDropsSettings` | a backup without flags uses the current options | it removes those an earlier backup wrote |
| `ConfirmLostLine` | the first answer counts | a scanner per attempt loses lines of a pipe: a "yes" or a "no" is lost and a later answer decides |
| `ExportRemoved` | a failed file's directory is kept for the user | the directory is shared by all pods, and the next pod removes it |
| `ExportSize` | above 25 MiB an alternate message | the file is measured before it is flushed |
| `ExportTrailer` | the writers are closed | gzip before tar: the end of the tar is lost |

Other limits of the code that the models show and that no run is devoted to: the
dry run of a restore is said to tell "what settings will be used should the
restore proceed" (restore.go:182), and a write of another manager during the
question changes them, since neither request carries a `resourceVersion`;
export.md:23-24 says "fail hard" of the context and the server version, against
its own line 15 ("move on to part Y, Z, et al."), and RunE prints their errors and
goes on (export.go:415-424). `EveryPartHasItsTurn` is what line 15 says, and by its
history variable `hard` it is silent where one of these two was not to be had.
The comment of `Confirm` says that a user "must type in "yes" or "no" and then press
enter" (interactions.go:15-16); from a pipe the end of a longer line is enough
when the beginning of it was read by an earlier attempt, as it is for
`yes 'maybe yes' | pgo stop hippo`. `ConsentIsTyped` and `PasswordsAreAskedFor`
allow for that case and no other. The two parts of `show` may
come from different pods, and passwords may be out of date when they are printed;
under another file name the binary is another field manager (pgo.go:29). A
stale patch of one CLI process takes back what another one changed, so a backup
read before a `restore disable` enables restores again; `restore disable` only
gives up the CLI's ownership, a flag that another manager owns too stays true;
`start --force-conflicts` forces every field the CLI owned, not only the
shutdown flag; the backup annotation has a resolution of one second, so the second
of two backups within a second changes nothing and nobody objects (part of
`RetryChangesNothing`); a failed `ps` is not mentioned in the log. They are in the
list of hazards.

### Bounds

* Two processes: every hazard above is a race of one command with one other
  writer; the second process shares the field manager, `OtherManagers` does
  not. `MaxCommands` is three: one command that gives the CLI something to own,
  then two that overlap.
* One foreign write: enough to change the object between a read and a write; deleting and creating it again is also the commands' work.
* `MaxTime`: two seconds where timestamps matter. Two repositories and one
  list of options: a value, another value, and none.
* `Confirm`: an attempt more or less makes no difference to the loop; four lines
  are one more than there are attempts. `Line` has an answer of each kind, and a
  line that ends in one.
* `Show`: two instances and a primary of another cluster in the same namespace;
  two changes are a failover (one label each), a deletion and a creation, or two
  rotations; two attempts and two lines let an answer come first, last or
  never. `Lines` leaves out the empty line and the one that ends in "no",
  which can take a consent away and give none; `Confirm` has them. The theorems are about any number of each.
* `Documents`: `MaxGone = 1` managed path that is gone. Lists have two items, in
  either order, and two values. `Names` are the names the objects have and
  `MaxDepth = 5` is their depth; the theorems are about any names and any depth.
* `Export`: `Many = 2` gives every loop a first and a last element, and a
  neighbour for the one that fails; `Window = 1` makes the gzip writer differ
  from the file; `Limit` lies where both messages are met.
* `ExportStream`: two instances with the same log names and one repository host
  are the least in which a directory is shared between pods and between
  gatherers; two logs in a pod let one fail and one succeed; sizes 0 and 1 let a
  log change between its measurement and its copy. In `ExportRemoved` the
  repository host has no files: the finding does not need them.

`SYMMETRY` permutes the processes and is used with safety properties only.
`CHECK_DEADLOCK FALSE` stands in configurations whose system really stops: a
command ends, an export ends, or the bounds are used up.

### Fairness

`PgoCommands!FairSpec` assumes weak fairness of each process's own requests: the
operating system runs it, and client-go returns from a request with an answer
or an error. Nothing is assumed of the user, who may leave a question open, and
nothing of other clients. `Confirm!FairSpec` assumes it of `Ask`, which is enabled
when a line, or the end of input, has arrived. `Show!FairSpec` assumes it of `Find`,
`ListUsers`, `Ask` and `GetVersion`, but not of `Exec`, which has no timeout: its
liveness property ends at an exec that hangs. The export gets no liveness
property: its API requests and execs run under `context.Background()` with no
timeout (only kubectl subprocesses have one, of 30 seconds), so the code does not
justify that a gatherer ever returns.

## 4. Theorems

All are proved for any set of processes, any command lines, any foreign writes
and any bounds, from the named assumptions in the modules (the constants have
their types; `Absent` is no value; the CLI's field manager is nobody else's;
what other clients write is well formed).

* `PgoCommandsProofs` begins with the lemmas about trees. The inductive invariant `Inv` is
  `TypeOK /\ CliOwnsOnlySettings`. Type correctness alone is not enough for
  the second part, and the second part is inductive only over *both* its
  conjuncts: the next patch is extracted from what the CLI owns, and what it
  owns is what the last patch named. The lemmas follow that circle: extracting
  from a set of fields names fields only (`ExtractFieldsOnly`), every
  `modifyIntent` turns a tree with no empty section into one with none
  (`BackupIntentClean`, `RestoreIntentClean`, `DisableIntentClean`,
  `ShutdownIntentClean`), and an apply leaves the CLI owning the leaves of the
  patch (`CliApplyOK`). The case that matters is backup: two removals may empty
  `manual`, pruning it may empty `pgbackrest`, then `backups`, then `spec`.
  `WithoutForce` and `NoResurrection` are action properties that follow from
  `Inv` and the step `Patch`. For `NoResurrection`: an apply to a name that does
  not exist is a create, and a patch of settings has none of the fields the
  schema requires. `PromiseKept` is the refinement: with `PcFitsRequest` (a
  process is at a step its command has), every step maps to a step of `Consent`
  or to a stutter.
* `SettingsProofs` adds to `Inv` what relates a patch to the object: owned fields
  exist (`OwnedExist`), and a process whose patch is not stale holds
  `ModifyIntent` of what the cluster's entry extracts, as it is *now* (`Fresh`).
  The second part says nothing about stale processes, and every write makes all
  others stale. From it: an apply of such a patch sends again every field the
  CLI owned outside its command's settings with the value it has, so nothing is
  dropped and nothing else changes (`KeepsOtherSettings`); the dry run and the
  patch are the same apply to the same object (`PreviewIsTrue`). The lemmas on
  the way say that a tree in which empty sections hold no field stays one
  under every `modifyIntent`, so pruning sections removes no field.
  `DisableReleases` holds of stale patches too: its part of `Fresh` is about the
  patch alone.
* The second half of `SettingsProofs`: what a patch achieves, *stale or not*. `EffectsInv` adds that a
  process that has built a patch (`Built`) holds one that is `Tailored`: for some
  second of the past, every setting its command is about has the value the
  command line asks for then (`Wanted`). Unlike `Fresh` this says nothing of the
  object as it is now, so no write of anybody disturbs it. Each `modifyIntent`
  leaves in the tree what the command line says of every setting it is about
  (`BackupIntentSets`, `RestoreIntentSets`, `ModifyIntentSets`), whatever it was
  given. With what an apply does to the fields of its patch this is `TakesEffect`;
  that an apply of settings leaves the rest to its owners is `ManifestIsSafe` (no
  run checks `ManifestUntouched`). `RetryIsHarmless` goes once around: what the
  server makes of a patch, extracted again, is that patch
  (`ExtractsWhatItApplied`), and the same `modifyIntent` on it changes the
  annotation only (`RepeatedPatch`).
* `ConfirmProofs`: with a terminal, one line is taken per attempt, so the lines
  taken are the attempts made; from that the first word and the meaning of
  silence follow. `NoConsentUnheard` needs no such thing and holds of a pipe too,
  but there the invariant says of `rest` where it comes from (`Left`): the end of a
  line that an earlier attempt on a pipe began to read. That an end of an end is
  an end (`Ends`) keeps it so when attempt after attempt takes a part of one line,
  and of all lines only one kind ends in "yes".
* `ShowProofs`: the invariant says of every entry of `printed` how it came about,
  of `target` that it was a primary, of `list` that it is one reading, and of
  `parts` and `printed` that together they are what the command is for. For the
  passwords it needs what `ConfirmProofs` proves of the loop: `Show` instantiates
  `Confirm`, each of its steps is a step or a stutter of `Confirm`, and the
  invariant of `Confirm` carries over by its lemmas.
* `ExportProofs`: `IInv` relates the tar writer's memory to the history of failed
  writes. This part does not look into the plan of gatherers: a failed write is
  remembered, a writer that remembers accepts nothing, and success lies behind
  an accepted write of `cli.log`. So looking at the last error only, as RunE
  does, is enough. `PartsAreIndependent` adds that once RunE has reached its log
  no gatherer is left (`Gathered`), and that before it nothing fails.
  `TypeCorrect` does look into the plan: every group of every gatherer
  has something in it, for any number of pods and files, and a loop leaves a
  group when nothing is left of it (`Typed`). From `Typed`, `NoRequestTwice`: after
  every answer the plan, the gatherer or the group has less in it. It is what the
  code gives instead of liveness: when requests are answered, finitely many of
  them bring RunE to its log. `LogsAreWalked` is the refinement to `Walk`. The plan
  has thirty gatherers, two alike in places, and the mapping finds in it whose
  turn it is; the lemmas say where the three that copy log files stand
  (`PlanPlaces`, `TurnIsNext`), that a gatherer that returns passes the turn on if
  it is one of the three and leaves it otherwise (`TurnsOf`), what their groups
  look like (`GroupShape`), and that what the mapping sees of a group depends on
  the place in it alone (`HeadAt`). The invariant this needs is `Walking`: what is
  left of the first group is its end, and the groups behind it are whole. Without
  it a step from one pod to the next could meet half a group, and the mapping
  would show a listing that `Walk` does not allow.
* `ExportStreamProofs`: the walk visits gatherers, pods and files in order, so
  every outcome is of a place that lies behind (`Behind`) and a file never gets a
  second one, since no two gatherers list the same file of a pod; while a pod is
  visited its `doCleanup` says whether one of its files was reported (`Flag`), and
  as long as nothing was reported the local directory is empty between pods
  (`Empty`). `StepsReachAsSaid` is the refinement to `Walk`: a step of a file, such
  as its measurement, maps to an answer of the file or to a stutter, and the end
  of a loop is the same place in both.

* `DocumentsProofs`, on `DocumentsLemmas`: the recursion of `extractDepthFirst` and
  the key by key edits come to what `Intents` says (`IntentsAgreeTheorem`), nothing
  is extracted that is not managed (`OnlyWhatIsManagedTheorem`), and lists follow
  their keys (`ListsFollowTheirKeysTheorem`), for objects of any depth, lists of any
  length and any managed paths. The inductive invariant `IInv` says what the intent
  *is* at each step, in both modules: the extraction of what was read, then that
  changed by one command. It leaves the work to the functions.

  Induction over data is done on sets. The induction theorems of the library take a
  predicate, which none of the provers can instantiate; but "a set that has 0 and
  with every number the next one has all numbers" takes a set
  (`NumberInduction`, `SequenceInduction`), and a statement about all documents of
  depth n is membership of n in a set. For each recursive function there is one
  argument: a function with its equations exists, by induction on how far it goes;
  two such functions agree, by the same induction; so the operator, which is chosen
  among them, has the equations (`AtAppend`, `SetAppend`, `RemoveEmptySectionsAppend`,
  `CallIs`, `ReachNext`). For `extractDepthFirst` the measure is how much of the
  longest managed path is left: a path as long as the longest has no children
  (`NoChildren`).

  From the equations: a place that neither is in what was set or removed nor has it
  in it is as before (`SetApart`, `RemovedApart`), and what is extracted at a place
  is the whole of it under a leaf, the call of that place on the way to one, and
  nothing elsewhere (`NestedExtracted`). A document `Stands` for a tree of module
  `Unstructured` when it has no nil, its sections are maps and it flattens to the
  tree; setting, removing and pruning keep that (`SetStands`, `FlagStands`,
  `PruneStep`), so every `modifyIntent` does (`ModifyStands`), and since nil stands
  for no tree no command fails. That the extraction stands for the extraction of
  `Intents` needs `Tracked`: a call on the way to a leaf then finds something
  (`CallFinds`), and so leaves neither nil nor an empty section (`CallNoNil`,
  `CopiedShape`). This is where the code relies on the API server: without it
  only `OnlyWhatIsManaged` holds. For lists: the pairs of a key and an item that
  has it, in order, are the items of the result (`InOrderIs`, `KeyedList`), and no
  key has two items.

  Assumed of the constants: an object has no null, no more than one item of a key,
  and is no deeper than `MaxDepth` (`IsDocument`); its sections are maps that hold
  nothing but the paths of `Unstructured`, whose fields are values (`IsCluster`); a
  managed path is one of those paths, or apart from them, or a map on the way to an
  annotation, and no leaf ends in a list's key, because the server records an
  item's own fields with it (`IsManaged`). What `instances` and `repos` hold is, as
  in `Unstructured`, one value.

Model-checked only: liveness (`CommandsEnd`, `EndOfInputEnds`,
`EndsUnlessExecHangs`), which the prover does not do under fairness. Every other
property of a passing run is a theorem.

## 5. Not modelled

* Of `internal/cmd/exec.go` and `internal/util/executor.go` the command lines and
  the stream; the models take the answer of an exec as a choice (`Show!Exec`,
  `Export`, `ExportStream`).
* The command tree, flag parsing, formats, usage texts, API clients: no state.
* What archive members contain, the wording of messages, YAML and JSON.
* Status and other subresources, merging of lists by the server, defaulting,
  admission.

## 6. Plan

Order: what changes a cluster first, then what asks before it, then the export.

1. Done: `Unstructured`, `Intents`, `ServerSideApply`, `PgoCommands`, `Consent`;
   `Confirm`; `Export`, `ExportStream`; their runs; the proofs of
   `PgoCommandsProofs`, `ConfirmProofs` and `ExportProofs`.
2. Done: `Show`, with failovers, rotated secrets and the shared question, and
   `ShowProofs`.
3. Done: `Documents`, the recursion of `extractDepthFirst` compared with the
   closed form.
4. Done: `Reach`, and `Walk` as the abstract specification of both `Export` and
   `ExportStream`.
5. Done: `SettingsProofs`, `ExportStreamProofs`, `Export!TypeOK`.
6. Done: the theorems about stale patches and repeated commands in
   `SettingsProofs`; `NoRequestTwice` and `LogsAreWalked` in `ExportProofs`.
7. Done: `DocumentsLemmas` and `DocumentsProofs`. With these every property of a
   passing run is a theorem, except liveness.
