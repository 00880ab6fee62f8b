# A TLA+ verification of ziege-abap-ls

ziege-abap-ls is a language server for ABAP.  One process listens on a TCP
address, serves any number of editors at once, and lets them browse the
repositories of SAP systems.  What is worth verifying in it is small and
concurrent: which clients keep the process alive, who may connect to an SAP
system and who waits for whom, what a request answers while configuration files
change under it, and whether an address the server hands out names the same
node when it comes back.

Paths below are relative to the repository (`src/`): `src/src/context.rs` is the
crate's `src/context.rs`.

## 1. The system

### Components, their state and operations

| Component | Source | State | Operations | Interacts with |
|---|---|---|---|---|
| Listener and connection lifecycle | `src/src/main.rs`, `src/src/lifecycle.rs` | `active_connections`, `has_accepted_connection`, `idle_deadline`, the event channel | `connected`, `on_event`, `disconnected`, `should_exit`; the `select!` loop; a worker task per transport | workers send `Initialized` and `TransportClosed` on an unbounded channel |
| System context store | `src/src/context.rs` | a map of slots per destination; in each context a map of view slots per project; one tokio `Mutex` per slot | `get`, `upsert`, `view`, `upsert_view` | called by every handler of every connection; awaits the ADT backend with a slot's lock held |
| Repository navigation | `src/src/handlers/navigation.rs` | none of its own; futures suspended at awaits | `project_systems`, `read_directory`, `repository_view` | configuration files, store, session binding, URIs |
| LSP server and session | `src/src/server.rs` | two `OnceLock`s: options, project root | `initialize`, `shutdown`, the custom requests | the listener (one `Initialized`), handlers |
| Resource URIs | `src/src/uri.rs` | none | `Display`, `FromStr` | every entry of a listing, every request |
| Configuration | `src/src/config/` | the files on disk | `load_system_configuration`, the three loaders, mount building | navigation |
| User configuration path | `src/src/config/user.rs` | environment | path selection, editing policy | chosen once, before the listener starts |
| Command line, tracing | `src/src/main.rs` | none | argument parsing | yields the daemon flag and the idle timeout |
| External | `zadt`, `zvfs`, `zaff`, tower-lsp-server, tokio | | discovery, tree building, transport, scheduling | |

### What is hard about it

* **Listener.** Accepts, worker events and the idle timeout become ready in any
  order and `select!` picks one at random.  The counter has a `saturating_sub`,
  an `Initialized` event clears the deadline whenever it is handled, and leaving
  `main` cuts off whatever is still served.  Correct means: the count is exact,
  the deadline is armed exactly while nobody is counted, nobody is cut off, and
  an abandoned process ends.
* **Store.** Slots are looked at, found wanting and filled across an await that
  may take as long as a backend likes, fail, or be dropped with its future.  A
  replaced context lives on in the tasks that hold its `Arc`.  Correct means:
  nobody connects or builds twice, callers get a client for their own
  configuration and a view of their own mounts, failures keep what was there,
  and one silent backend does not stop requests to another.
* **Process.** Handlers of one connection live inside a worker that the listener
  only counts.  Correct means: the loop never leaves while a handler is at work,
  requests end whoever hangs up or cancels, and only a silent backend can keep a
  process whose clients have left.
* **Navigation.** A request makes up to three file reads and four store calls,
  with awaits between all of them, while users edit the files, other projects
  replace the shared context, clients cancel, and the process restarts.  Correct
  means: a request walks a view of its own project and destination, what is loaded
  is current, what is cached needs no files, and a store that agrees with the files
  only loses that to older data by a load that began before they were edited.
* **Session.** `initialize` suspends between its checks and the binding; two
  locks are set one after the other.  Correct means: bound as a whole, once.
* **URIs and configuration.** Sequential, but their inputs are data of users and
  of the SAP system.  Correct means: a handed-out address is read as the node it
  was written for, a load that succeeds has used sound parts only, and the error of
  one that fails is about the first fault.

`PROJECT.json` lists each hazard at its line, with the properties that would
catch it, or the reason why none does.

## 2. The modules

| Module | Models | Composes |
|---|---|---|
| `ProcessLifetime` | the abstract promise about the process's lifetime | |
| `ConnectionLifecycle` | the listener's loop, its workers, its clients | implements `ProcessLifetime` |
| `ConnectionLifecycleProofs` | theorems about it | |
| `AtomicStore` | the store its callers see: each call takes effect as it returns | |
| `SystemContextStore` | `context.rs`, with any number of calling tasks | implements `AtomicStore` |
| `SystemContextStoreProofs` | theorems about it, and the refinement of `AtomicStore` | |
| `Navigation` | `read_directory` and `repository_view` with the files and restarts | `SystemContextStore` |
| `NavigationProofs` | theorems about it | `SystemContextStoreProofs` |
| `ServerProcess` | the whole process: listener, workers, and the requests they serve | `ConnectionLifecycle`, `Navigation` |
| `ServerProcessProofs` | theorems about it | `ConnectionLifecycleProofs`, `NavigationProofs` |
| `Session` | `initialize` and what handlers see of it | |
| `SessionProofs` | theorems about it | |
| `ResourceUri` | `Display` and `FromStr` as operators | |
| `ResourceUriProofs` | that one undoes the other, by induction | |
| `Browsing` | a client that goes where it is sent | `ResourceUri` |
| `BrowsingProofs` | theorems about it | `ResourceUriProofs` |
| `Configuration` | choosing the path, loading and checking the three files, building mounts | |
| `ConfigurationProofs` | theorems about it | |
| `MC...` | small instances of the above for TLC | |

Definitions marked `Mutant:` in a module are never part of its specification.
Each is a plausible bug in the definition that follows it; put in that
definition's place, it makes TLC refute the property it is kept for.

### Listener: `ConnectionLifecycle`

A transport goes through `phase`: absent, backlog (the kernel has granted the
client's `connect()`), serving (accepted, its worker runs), closed (the worker
has sent `TransportClosed`), gone (the loop has handled it), or refused.  `hungup`
holds the clients that went away.  `Accept`, `AcceptFails`, `HandleEvent` and
`IdleTimeoutFires` are the branches of the `select!`; each takes the whole branch
with the check of `should_exit` behind it.  `idle_deadline` counts the ticks that
are left.  `WorkerInitializes` and `WorkerEnds` are the two sends of a worker.

### Store: `SystemContextStore`

The tokio mutex around a map is held for one statement and never across another
await, so finding or inserting a slot is one step.  A slot's tokio mutex is held across `discover()`
or `build()`: `builder` and `viewBuilder` say by whom.  A call is suspended in
`at[t]` with its arguments in `arg[t]`, and what it returned is `answer[t]`, which
together with the argument stands for the `Arc`s the task holds.  Contexts have
identities, as `Arc`s do, and an identity is used again when nothing refers to it
any more.  `None` in `answer` is a miss or an error.  `Drop` is the end of a
future, with its guards and `Arc`s, wherever it was suspended.

The backend is its answers: `discover()` and `build()` succeed, fail, or (for
configurations in `Silent`) never return.  `Fingerprint` is the hash of a
configuration, any function of it.

`AtomicStore` has neither locks nor phases.  A call is pending until the step in
which it returns, and in that step it looks at the store and, if it fills a slot,
fills it.  So the builder's look at the slot, which the code does before an await of
any length, still holds at its end; waiters see a slot as it is when they go on; a
failed or dropped call has had no effect.  `Pending` is the only part of the
refinement mapping that is not a variable of the same name.  `get` and `view` may
also return a miss at once: the lookup in the map is not behind the slot's lock.

### Navigation: `Navigation`

`stage[t]` is the await the handler is in; each action runs from one await to the
next, with the store's own actions in between (`InStore`).  A path is the
portal's root or one below a mount; resolving it succeeds only in a view that has
the mount, and everything behind that is the backend's and may fail.  `EditProject`,
`EditDestination` and `Restart` are the world outside.  `missed` and `since` are
history variables: what a property needs to know about the time since a request
began.

### Process: `ServerProcess`

It takes the variables of both parts and conjoins their actions.  `Of` gives each
task the connection whose worker runs it.  A handler starts (`ReadRequest`) only on
a transport that is accepted, initialized and open; `WorkerEnds` waits for the
handlers of its connection, as `serve` does; and a step that leaves the loop
(`Outcome`) also ends every handler and empties the store, as the runtime does when
`main` returns.  The files are not edited, and Navigation's histories are left
alone: no property of this module reads them.

### Session, URIs, configuration

`Session` keeps per `initialize` request its parameters and how far it is, and
`Bind` sets both locks in one step since no await lies between them.  `ResourceUri`
classifies characters: what is never encoded (and the word `vfs`, which the
grammar reserves), dots, slashes, percent signs, control characters; a URI is a
sequence of such characters, each plain or percent-encoded; `Written` and `Split` are
the loops over segments and tokens, as recursive functions.  `Configuration` reads
the files one by one, each with the faults the code tells apart, and files may
change between the reads because each is chosen when it is read.  The environment
is fixed when the process starts; `Start` settles the user file's path or ends the
process.  Errors carry what `ConfigError` carries: a path, a kind of file, a field, the
label of an `EmptyFilter`, and nothing for an `EmptyMountLabel`.

## 3. What is checked

| Run | Question | Bounds |
|---|---|---|
| `lifecycle` | Do count, deadline and exit follow the transports; is `ProcessLifetime` implemented; does an abandoned process end? | 3 transports, timeout of 2 ticks, daemon and not |
| `lifecycle_backlog` (violated) | Does a client whose `connect()` succeeded keep the process alive? | 2 transports |
| `store` | What do callers get, what do slots keep, is anything done twice; is `AtomicStore` implemented? | 2 tasks, 1 destination with 3 revisions (1 unusable), 1 project with 3 mount lists (1 unusable), 3 contexts |
| `store_liveness` | Does a call end although another destination is silent? | 2 tasks, 2 destinations, 4 contexts |
| `navigation` | Is what two projects load from a shared destination current; does a request walk its own project's view; does a current store stay current? | 2 tasks of 2 projects, each with a mount list of its own, 2 revisions, 3 contexts |
| `navigation_files` | Are loads current and cached views independent of the files, with files missing, requests cancelled, restarts? | 2 tasks of one project, 2 mount lists |
| `process` | Is no request cut off; does every request end; does an abandoned process leave? | 2 connections with a task each, 1 destination whose backend answers or is silent, timeout of 1 tick, daemon and not |
| `session` | Is a connection bound as a whole, once, for all handlers? | 3 initializes, 2 handlers, 2 roots, 2 option values |
| `browsing` | Is a handed-out address read as the node it was written for? | labels of 1 or 2 characters of 5 classes, depth 2 |
| `browsing_control` (violated) | Can every handed-out address be opened? | labels with a control character |
| `configuration` | Are the user's files sought where documented, is a successful load made of sound parts, is an error about the first fault? | 32 environments, every fault of every file, up to 2 mounts of every kind |
| `configuration_mounts` (violated) | Do the mounts of a view satisfy the rules in `ConfigError`'s messages? | as `configuration` |

**Why the bounds are enough.**  Three transports let one be served while a second
waits and the event of a third is queued, which is every relation the loop's
conditions look at (count 0, 1, more); a timeout of two ticks has a beginning, a
middle and an end.  In the store a slot relates the task that fills it to the task
that waits, or holds the context that is being replaced: two tasks are both sides,
and the proofs cover any number.  Three contexts are the current one and one held
by each task; with two destinations a fourth is needed.  A third revision or mount
list exists so that an unusable one can come between two good ones.  Two projects
suffice for "another project"; for the same project two connections do.  In
`navigation` their mount lists are disjoint, so that a view shows whose it is.  Its one
destination leaves `WalksOwnView` nothing to say about destinations; a second one makes
the run too long, and `RequestsWalkTheirOwn` of section 4 covers any number.  In
`process` two connections are the one that ends, or whose idle timeout runs, and
the one that must not be cut off; they compete for the one slot, and whether its
holder answers is decided by the file the run starts with.  In `configuration` each
variable is unset, or a path of each kind the choice tells apart (empty, relative,
absolute, without a file name).  In `browsing`, all interactions of encoding, splitting and dot segments are between
neighbouring characters or segments, and the longest special segment (`..`) has two
characters.  Depth two has a first and a following segment.

**Reductions.**  Task, project and context identities are interchangeable where a
run declares them symmetric: no action or property of those runs names one, and
revisions are only declared symmetric when all are usable.  In `navigation` a task
goes with its project and that with its mount list, so the three are exchanged
together.  `store_liveness` and
`process`, which check liveness, use no symmetry.  `MCNavigation` views states through `Observable`, which leaves out the
contents of contexts nothing refers to: an identity is only reused through
`DiscoverSucceeds`, which overwrites all its contents, and no property reads them.

**Fairness.**  `ConnectionLifecycle` assumes weak fairness for the branches of the
`select!`, for time, and for the end of workers whose client has hung up.  The first
is the random choice tokio makes among ready branches; the last assumes that
handlers end and do not panic (two hazards without a property say so).  Clients owe
nothing.  `SystemContextStore` assumes strong fairness for a task that gets its
turn at a lock, since tokio's `Mutex` queues its waiters, and weak fairness for
answers of backends that are not silent.  Nobody has to call, cancel or drop.
`ServerProcess` keeps the listener's fairness but for the end of workers, which is
now up to their handlers: a handler gets on by files it reads, by locks it is handed
in its turn (strong fairness) and by backends that are not silent (`HeldUp` names
the three awaits of a backend).  That handlers end is then checked
(`EveryRequestEnds`) instead of assumed.

**Deadlock** is checked in every run.  `Rest` and `Done` are the named ways in which
the listener, a process without a user path and a connection may come to rest; the
others never do.

## 4. What is proved

All theorems hold for every value of the constants that satisfies the named
assumption of the module; TLC evaluates the assumption in each run.

* **Listener** (`LifecycleAssumption`: finitely many transports).  `IInv` adds
  two things to the checked invariants.  `EventsOK` says of the events
  still queued that their transports are counted and that `TransportClosed` is the
  last of its transport: without it, an `Initialized` at the head of the queue
  could clear the deadline with nobody counted.  `AcceptedIfCounted` is what
  `should_exit` needs.  From `IInv`: `TypeCorrect`, `CountStaysExact`,
  `DeadlineTracksUse`, `ServesToTheEnd`, and `ImplementsLifetime`, the refinement
  of `ProcessLifetime` (every step maps to one of its steps or to a stutter).
* **Store** (`StoreAssumption`: identities are not values of other kinds).  The core
  of `IInv` is `LocksHeld` with `NothingBuiltTwice`, "what a builder found missing is
  missing while it holds the lock", and `HeldExist`, "a context somebody holds exists
  and is not the one a discovery brings".  `UpsertFits` and `UpsertViewFits` carry
  what a call has returned through the steps of others.  From it: `TypeCorrect`,
  `SlotsHaveOneBuilder`, `MountsAreHonoured`, `ViewsKeepTheirClient`,
  `NothingIsBuiltTwice`, and the action property `SlotsChangeOnlyForCause`.
  `ConfigIsHonoured` needs one more assumption, that fingerprints do not collide
  (`InjectiveFingerprints`); without it only the fingerprint is honoured, which is
  what the code compares.
* **Session** (`SessionAssumption`).  `IInv` adds `WaitingHasRoot` to the four
  invariants; `LocksAgree`, that both `OnceLock`s are empty or full together, is the
  lemma everything uses.  From it: `TypeCorrect`, `BindingIsWhole`,
  `RefusalHasCause`, `BindingIsShared`.
* **Refinement of the store** (`StoreAssumption`).  `ImplementsAtomicStore` shows
  that every step of the store is a step of `AtomicStore` or a stutter.  Beyond the
  store's `IInv` it needs `ViewsListed`, that a project whose view slot is not in the
  map has no view (so that a miss at once is right), and `FillsUsable`, that what is
  being connected to or built is not one of the unusable configurations.
* **Navigation** (`NavigationAssumption`: roots and files are of their kinds, `None`
  and `Missing` are neither).  Navigation's steps are steps of the store or leave it
  alone, so the store's `IInv` carries over by its own step lemmas; `Core` adds to it
  `HandlersOK`, what a handler holds at each of its stages (`NavTypeCorrect`,
  `StoreStaysSafe`).  `CurrentStays` is an action property and follows from `Core`
  and the one step that can break it, the end of a load: `KeepsCurrent` is what each
  action does to a store that agrees with the files.  For the properties about a
  request's past the histories are part of the invariant, `HistoryOK`: what a
  suspended load has read is in `since` (`LoadedNow`), and a request that reads files
  had a reason (`MissedThen`).  From it `LoadsNothingOlder` (under
  `InjectiveFingerprints`, as `ConfigIsHonoured`) and `CachedViewIsEnough`.  `NavTypeCorrect`
  says of a request that walks only that it has a view; that it is one of the request's
  own project and destination is `RequestsWalkTheirOwn`.  Its invariant is `OwnOK`: what
  the slots hold belongs to the destination and project they are for (`SlotsOwn`), and
  what a handler has read, asked for or been given to its own (`HoldsOwn`).  It
  needs no assumption about fingerprints.
* **Process** (`ProcessAssumption`, and those of its parts).  The listener's steps in
  the composition are steps of `ConnectionLifecycle`, so its proved invariant
  `IInv` carries over by `INSTANCE`, and so does the refinement
  (`ProcessLivesAsPromised`).  `HandlersServed`, that a handler's transport is
  in phase serving, joins it to the handlers; since a served transport is counted and
  the loop is not left with one counted, `RequestsAreNotCutOff` follows.  The
  handlers' steps are steps of `Navigation`, and leaving the loop is the `Wipe` of
  its `Restart`, so `ProcessKeepsCore`, `ProcessKeepsStoreSafe`, `ProcessKeepsCurrent`
  and `ProcessWalksOwn` hold of the whole process.  Navigation's histories are not kept there and neither
  are the two theorems about them.
* **URIs.**  `DirectoryRoundTrip` and `DocumentRoundTrip` say that `Parse` undoes
  `Display` for every `Component`, a label of any length that is not empty and has no
  control character, and for paths of any length.  They are inductions: `Cut`, the
  state of `split('/')` after a text, is followed token by token (`CutOfAppend`),
  word by word (`CutOfWord`) and segment by segment (`WrittenIsCut`).  The library's
  induction theorems take an operator as a parameter, which the provers cannot
  instantiate; `Induction` is stated for a set and follows from the library's theorem
  that finite sets are well-founded under inclusion.  It also gives the existence of
  the recursive functions `Split` and `Written` (`SplitExists`, `WrittenExists`).
* **Browsing** (hypothesis `Spellable`: systems, labels and names are components, and
  no document is called `vfs`).  The URI handed out last is `Display` of the resource
  it was handed out for; with the round trip, `UrisNameTheirResources`,
  `DirectoriesHaveNoDots` and `ReturnedUrisOpen`.  The last is the promise that
  `browsing_control` refutes: it holds where systems and labels are not empty and hold
  no control character.
* **Configuration** (`ConfigurationAssumption`: lists of mounts and paths are
  sequences, `None` is no file).  `Inv` says per stage which files have been read and
  found sound (`Progress`), that the path is the one `resolve_user_config_path` chose
  (`Started`).  From it `LoadsAreSound`, `FirstFaultComesFirst` and `PlaceIsDocumented`,
  for every environment and every list of mounts.  `LoadsAreSound` does not say that
  a mount selects anything: a selection without filters and a labelled package
  without a name are accepted (finding 3).  `FirstFaultComesFirst` says no more of a
  mount than its error does: the kind of fault and, for a filter, a label that another
  mount may share.

**Assumptions are instances of the code.**  Every named assumption is evaluated by TLC
in the runs of its module, and the bounds of `browsing` satisfy `Spellable`.  Labels
with a control character and a system without a name do not, and the code accepts
them: that is finding 2 of section 5 and the first remark after the findings, and why `Spellable` is a hypothesis of the theorems
about addresses and not an assumption of the modules.

**Only model-checked.**  Liveness under fairness (`AbandonedProcessExits`,
`EveryCallEnds`, `AbandonedProcessLeaves`, `EveryRequestEnds`), which the prover does
not reach.  Every invariant and every action property of the passing runs is proved.

## 5. Where the code and its documents disagree

Three runs end in a counterexample; each states what a document, a comment or an error
message says.

1. `lifecycle_backlog`.  README.md:31-32 says the server will not shut down while
   any clients are connected.  A client in the accept queue is connected, and the
   loop may leave with it ready to be accepted.
2. `browsing_control`.  README.md:109 tells clients to open the returned `uri`.
   `decode_component` refuses control characters, which `Display` writes and a TOML
   label may hold.
3. `configuration_mounts`.  The messages of `config/mod.rs:86-89` say that package
   mount names must not be empty and that a selection requires at least one filter
   value.  `EmptyPackage` is never constructed, and `EmptyFilter` only for a filter
   that is listed: a labelled package without a name and a selection without filters
   are built.

Met on the way, without a run: `[systems.""]` is listed as the portal `abap:///vfs/`,
whose empty authority `decode_component` refuses, although README.md:96 says that
opening a portal follows the returned root URI.  README.md:60 calls the user
configuration currently unused, yet a load fails when it is missing, malformed or of
another version.

Met on the way, where no document says otherwise: a root refresh that replaces the
context and then fails to build the view loses the project's old view (the failed
refresh of `tests/navigation.rs:257-262` keeps its listing, but does not replace the
context); a load of one project after an edit of `destinations.toml` replaces the
context for all of them, and their next requests load their views anew;
`ContextError::BuildTimeout` (`context.rs:200-201`) is never constructed; a user file
may leave `version` out, the other two may not; an error about a mount does not say
which of several mounts with one label, or with none, it is about.

## 6. What is not modelled

* The contents of the virtual tree (`zvfs`) and the ADT client (`zadt`): external;
  their answers are nondeterministic.
* The editing policy: computed, used by no handler yet.
* tower-lsp-server's limit of requests in flight per connection, whose source is not
  in this repository (listed as a hazard).  `process` has one request per connection.
* `NamespaceDelimiter::format_name` and other presentation; facet policies; logging;
  the command line.
* Panics, and an idle timeout so large that adding it to `Instant::now()` overflows
  (both listed as hazards).
* Two revisions with one fingerprint: the model allows them, the runs do not use them.
* Percent-encoding of multi-byte characters, and malformed `%` sequences: one class.

## 7. Plan

Order of the work, most important behaviour first; all of it is done but the last.

1. `ConnectionLifecycle` with `ProcessLifetime`: model, runs, all safety proofs.
2. `SystemContextStore`: model, safety and liveness runs, all safety proofs.
3. `Navigation` on top of it, with files, cancellation and restarts.
4. `Session`: model, run, proofs.
5. `ResourceUri`, `Browsing`.
6. `Configuration`.
7. `AtomicStore`, which `SystemContextStore` implements: checked and proved.
8. `ServerProcess`, the composition of listener and navigation: checked; its action
   property proved.
9. The user configuration's path, checked against the documented precedence.
10. Proofs about `Navigation` and, through it, about `ServerProcess`.
11. Proofs about `Configuration`, whose errors and mounts are those of `ConfigError`.
12. Proofs about `ResourceUri` and `Browsing`, by induction over texts and paths.
13. `WalksOwnView`, whose view a request walks: checked and proved, also in the process.
14. Left: a refinement for the process as a whole, that a request handled among others
    is answered as `AtomicStore` would answer it alone, and `LoadsAreCurrent` within
    `ServerProcess`, which needs the histories and file edits there.
