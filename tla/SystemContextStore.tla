-------------------------- MODULE SystemContextStore --------------------------
(***************************************************************************)
(* The process-wide SystemContextStore of src/src/context.rs: one slot per *)
(* destination holding its current SystemContext, and in every context one *)
(* slot per project root holding its SystemView.  Any number of tasks call *)
(* get, upsert, view and upsert_view at once.                              *)
(*                                                                         *)
(* A ContextMap is locked only between two awaits, so finding or inserting *)
(* a slot is one step.  A slot's own tokio Mutex is held across the await  *)
(* that fills it: builder and viewBuilder name the task holding it there.  *)
(* An Arc<SystemContext> outlives its slot as long as a task holds it, so  *)
(* contexts have identities (Ctx), reused once nothing refers to them.     *)
(***************************************************************************)
EXTENDS FiniteSets

CONSTANTS Task,               \* handler futures calling the store
          DestinationId,
          ProjectRoot,
          DestinationConfig,
          MountConfigs,       \* values of &[MountConfig]
          Ctx,                \* identities of Arc<SystemContext>
          None,
          Configs,            \* the revisions each destination's config goes through
          Fingerprint,        \* the hash of each configuration
          BadTransport,       \* configurations ReqwestTransport refuses to build
          BadMounts,          \* mounts MountConfig::build refuses
          Silent              \* configurations whose backend never answers

ASSUME StoreAssumption ==
    /\ None \notin Task \cup Ctx \cup DestinationId \cup ProjectRoot
    /\ None \notin DestinationConfig \cup MountConfigs
    /\ None \notin [client : DestinationConfig, mounts : MountConfigs]
    /\ None \notin [client : DestinationConfig, fingerprint : {Fingerprint[f] : f \in DestinationConfig}]
    /\ \A c \in Ctx : c \notin [client : DestinationConfig, mounts : MountConfigs]
    /\ Configs \in [DestinationId -> SUBSET DestinationConfig]
    /\ BadTransport \subseteq DestinationConfig
    /\ BadMounts \subseteq MountConfigs
    /\ Silent \subseteq DestinationConfig

VARIABLES
    slots,        \* destinations that have a slot in the store's map
    slot,         \* the context in each slot
    builder,      \* the task holding a slot's lock across discover().await
    context,      \* the contents of each Arc<SystemContext>
    viewSlots,    \* per context: the projects that have a slot in its map
    viewSlot,     \* per context and project: the view in the slot
    viewBuilder,  \* the task holding a view slot's lock across build().await
    at,           \* the await each task's call is suspended in
    arg,          \* the arguments of that call, kept after it returned
    answer        \* what the last call of each task returned

slotVars == <<slots, slot, builder, context>>
viewVars == <<viewSlots, viewSlot, viewBuilder>>
vars == <<slotVars, viewVars, at, arg, answer>>

View == [client : DestinationConfig, mounts : MountConfigs]
Context == [client : DestinationConfig,
            fingerprint : {Fingerprint[f] : f \in DestinationConfig}]
Arg == [op : {"none", "get", "upsert", "view", "upsert_view"},
        id : DestinationId \cup {None}, config : DestinationConfig \cup {None},
        ctx : Ctx \cup {None}, project : ProjectRoot \cup {None},
        mounts : MountConfigs \cup {None}]

TypeOK ==
    /\ slots \in SUBSET DestinationId
    /\ slot \in [DestinationId -> Ctx \cup {None}]
    /\ builder \in [DestinationId -> Task \cup {None}]
    /\ context \in [Ctx -> Context \cup {None}]
    /\ viewSlots \in [Ctx -> SUBSET ProjectRoot]
    /\ viewSlot \in [Ctx -> [ProjectRoot -> View \cup {None}]]
    /\ viewBuilder \in [Ctx -> [ProjectRoot -> Task \cup {None}]]
    /\ at \in [Task -> {"idle", "get", "upsert", "discover", "view", "upsert_view", "build"}]
    /\ arg \in [Task -> Arg]
    /\ answer \in [Task -> Ctx \cup View \cup {None}]
    /\ \A d \in DestinationId :
          slot[d] # None => d \in slots /\ context[slot[d]] # None

NoArg == [op |-> "none", id |-> None, config |-> None, ctx |-> None,
          project |-> None, mounts |-> None]

Init ==
    /\ slots = {}
    /\ slot = [d \in DestinationId |-> None]
    /\ builder = [d \in DestinationId |-> None]
    /\ context = [c \in Ctx |-> None]
    /\ viewSlots = [c \in Ctx |-> {}]
    /\ viewSlot = [c \in Ctx |-> [p \in ProjectRoot |-> None]]
    /\ viewBuilder = [c \in Ctx |-> [p \in ProjectRoot |-> None]]
    /\ at = [t \in Task |-> "idle"]
    /\ arg = [t \in Task |-> NoArg]
    /\ answer = [t \in Task |-> None]
------------------------------------------------------------------------------
(* Calls *)

\* The call returns v: a context, a view, or None for a miss or an error.
Return(t, v) ==
    /\ at' = [at EXCEPT ![t] = "idle"]
    /\ answer' = [answer EXCEPT ![t] = v]
    /\ UNCHANGED arg

Suspend(t, where) == at' = [at EXCEPT ![t] = where] /\ UNCHANGED <<arg, answer>>

\* The contexts some Arc refers to; the store's own and those tasks hold.
Held(t) == {answer[t], arg[t].ctx} \cap Ctx
InUse == {slot[d] : d \in DestinationId} \cup UNION {Held(t) : t \in Task}
------------------------------------------------------------------------------
(* SystemContextStore::get *)

Get(t, d) ==
    /\ at[t] = "idle"
    /\ arg' = [arg EXCEPT ![t] = [NoArg EXCEPT !.op = "get", !.id = d]]
    /\ answer' = [answer EXCEPT ![t] = None]
    /\ at' = [at EXCEPT ![t] = IF d \in slots THEN "get" ELSE "idle"]
    /\ UNCHANGED <<slotVars, viewVars>>

\* Mutant: one lock for the whole map instead of one per entry.
StoreFree(d) == \A e \in DestinationId : builder[e] = None

SlotFree(d) == builder[d] = None

GetSlot(t) ==
    /\ at[t] = "get"
    /\ SlotFree(arg[t].id)
    /\ Return(t, slot[arg[t].id])
    /\ UNCHANGED <<slotVars, viewVars>>
------------------------------------------------------------------------------
(* SystemContextStore::upsert *)

\* Mutant: the slot is created but never put into the map.
UpsertDetached(t, d, config) ==
    /\ at[t] = "idle"
    /\ arg' = [arg EXCEPT ![t] = [NoArg EXCEPT !.op = "upsert", !.id = d, !.config = config]]
    /\ answer' = [answer EXCEPT ![t] = None]
    /\ at' = [at EXCEPT ![t] = "upsert"]
    /\ UNCHANGED <<slotVars, viewVars>>

Upsert(t, d, config) ==
    /\ at[t] = "idle"
    /\ arg' = [arg EXCEPT ![t] = [NoArg EXCEPT !.op = "upsert", !.id = d, !.config = config]]
    /\ answer' = [answer EXCEPT ![t] = None]
    /\ at' = [at EXCEPT ![t] = "upsert"]
    /\ slots' = slots \cup {d}
    /\ UNCHANGED <<slot, builder, context, viewVars>>

\* Mutant: any context will do.
AnyContext(t) == slot[arg[t].id] # None

\* The stored context was built from a configuration with the same fingerprint.
ContextFits(t) ==
    /\ slot[arg[t].id] # None
    /\ context[slot[arg[t].id]].fingerprint = Fingerprint[arg[t].config]

UpsertHits(t) ==
    /\ at[t] = "upsert"
    /\ SlotFree(arg[t].id)
    /\ ContextFits(t)
    /\ Return(t, slot[arg[t].id])
    /\ UNCHANGED <<slotVars, viewVars>>

TransportFails(t) ==
    /\ at[t] = "upsert"
    /\ SlotFree(arg[t].id)
    /\ ~ContextFits(t)
    /\ arg[t].config \in BadTransport
    /\ Return(t, None)
    /\ UNCHANGED <<slotVars, viewVars>>

\* Mutant: the slot's lock is released for the await.
StartDiscoverUnlocked(t) ==
    /\ at[t] = "upsert"
    /\ SlotFree(arg[t].id)
    /\ ~ContextFits(t)
    /\ arg[t].config \notin BadTransport
    /\ Suspend(t, "discover")
    /\ UNCHANGED <<slotVars, viewVars>>

StartDiscover(t) ==
    /\ at[t] = "upsert"
    /\ SlotFree(arg[t].id)
    /\ ~ContextFits(t)
    /\ arg[t].config \notin BadTransport
    /\ builder' = [builder EXCEPT ![arg[t].id] = t]
    /\ Suspend(t, "discover")
    /\ UNCHANGED <<slots, slot, context, viewVars>>

\* Mutant: the new context takes over the views of the one it replaces.
DiscoverSucceedsKeepingViews(t, c) ==
    LET d == arg[t].id
        old == slot[d] IN
    /\ at[t] = "discover"
    /\ c \notin InUse
    /\ context' = [context EXCEPT ![c] = [client |-> arg[t].config,
                                          fingerprint |-> Fingerprint[arg[t].config]]]
    /\ viewSlots' = [viewSlots EXCEPT ![c] = IF old = None THEN {} ELSE viewSlots[old]]
    /\ viewSlot' = [viewSlot EXCEPT ![c] = IF old = None THEN [p \in ProjectRoot |-> None]
                                           ELSE viewSlot[old]]
    /\ viewBuilder' = [viewBuilder EXCEPT ![c] = [p \in ProjectRoot |-> None]]
    /\ slot' = [slot EXCEPT ![d] = c]
    /\ builder' = [builder EXCEPT ![d] = None]
    /\ Return(t, c)
    /\ UNCHANGED slots

\* A new context, with no views, replaces the slot's; the lock is released.
DiscoverSucceeds(t, c) ==
    LET d == arg[t].id IN
    /\ at[t] = "discover"
    /\ c \notin InUse
    /\ context' = [context EXCEPT ![c] = [client |-> arg[t].config,
                                          fingerprint |-> Fingerprint[arg[t].config]]]
    /\ viewSlots' = [viewSlots EXCEPT ![c] = {}]
    /\ viewSlot' = [viewSlot EXCEPT ![c] = [p \in ProjectRoot |-> None]]
    /\ viewBuilder' = [viewBuilder EXCEPT ![c] = [p \in ProjectRoot |-> None]]
    /\ slot' = [slot EXCEPT ![d] = c]
    /\ builder' = [builder EXCEPT ![d] = None]
    /\ Return(t, c)
    /\ UNCHANGED slots

DiscoverFails(t) ==
    /\ at[t] = "discover"
    /\ builder' = [builder EXCEPT ![arg[t].id] = None]
    /\ Return(t, None)
    /\ UNCHANGED <<slots, slot, context, viewVars>>
------------------------------------------------------------------------------
(* SystemContext::view *)

LookView(t, c, p) ==
    /\ at[t] = "idle"
    /\ c \in Held(t)
    /\ arg' = [arg EXCEPT ![t] = [NoArg EXCEPT !.op = "view", !.ctx = c, !.project = p]]
    /\ answer' = [answer EXCEPT ![t] = None]
    /\ at' = [at EXCEPT ![t] = IF p \in viewSlots[c] THEN "view" ELSE "idle"]
    /\ UNCHANGED <<slotVars, viewVars>>

ViewSlotFree(t) == viewBuilder[arg[t].ctx][arg[t].project] = None

\* Mutant: a context's only view is found by whoever looks, whatever its project.
ViewOfAnyProject(t) ==
    LET views == {viewSlot[arg[t].ctx][p] : p \in ProjectRoot} \ {None} IN
    IF views = {} THEN None ELSE CHOOSE view \in views : TRUE

ViewInSlot(t) == viewSlot[arg[t].ctx][arg[t].project]

LookViewSlot(t) ==
    /\ at[t] = "view"
    /\ ViewSlotFree(t)
    /\ Return(t, ViewInSlot(t))
    /\ UNCHANGED <<slotVars, viewVars>>
------------------------------------------------------------------------------
(* SystemContext::upsert_view *)

UpsertView(t, c, p, mounts) ==
    /\ at[t] = "idle"
    /\ c \in Held(t)
    /\ arg' = [arg EXCEPT ![t] = [NoArg EXCEPT !.op = "upsert_view", !.ctx = c,
                                               !.project = p, !.mounts = mounts]]
    /\ answer' = [answer EXCEPT ![t] = None]
    /\ at' = [at EXCEPT ![t] = "upsert_view"]
    /\ viewSlots' = [viewSlots EXCEPT ![c] = @ \cup {p}]
    /\ UNCHANGED <<slotVars, viewSlot, viewBuilder>>

\* Mutant: a view of the project will do, whatever its mounts.
AnyView(t) == ViewInSlot(t) # None

ViewFits(t) == ViewInSlot(t) # None /\ ViewInSlot(t).mounts = arg[t].mounts

UpsertViewHits(t) ==
    /\ at[t] = "upsert_view"
    /\ ViewSlotFree(t)
    /\ ViewFits(t)
    /\ Return(t, ViewInSlot(t))
    /\ UNCHANGED <<slotVars, viewVars>>

MountsFail(t) ==
    /\ at[t] = "upsert_view"
    /\ ViewSlotFree(t)
    /\ ~ViewFits(t)
    /\ arg[t].mounts \in BadMounts
    /\ Return(t, None)
    /\ UNCHANGED <<slotVars, viewVars>>

\* Mutant: the view slot is not looked at again once its lock is held.
StartBuildUnchecked(t) ==
    /\ at[t] = "upsert_view"
    /\ ViewSlotFree(t)
    /\ arg[t].mounts \notin BadMounts
    /\ viewBuilder' = [viewBuilder EXCEPT ![arg[t].ctx][arg[t].project] = t]
    /\ Suspend(t, "build")
    /\ UNCHANGED <<slotVars, viewSlots, viewSlot>>

StartBuild(t) ==
    /\ at[t] = "upsert_view"
    /\ ViewSlotFree(t)
    /\ ~ViewFits(t)
    /\ arg[t].mounts \notin BadMounts
    /\ viewBuilder' = [viewBuilder EXCEPT ![arg[t].ctx][arg[t].project] = t]
    /\ Suspend(t, "build")
    /\ UNCHANGED <<slotVars, viewSlots, viewSlot>>

BuildSucceeds(t) ==
    LET c == arg[t].ctx
        p == arg[t].project
        view == [client |-> context[c].client, mounts |-> arg[t].mounts] IN
    /\ at[t] = "build"
    /\ viewSlot' = [viewSlot EXCEPT ![c][p] = view]
    /\ viewBuilder' = [viewBuilder EXCEPT ![c][p] = None]
    /\ Return(t, view)
    /\ UNCHANGED <<slotVars, viewSlots>>

\* Mutant: the old view is taken out of its slot before the new one is built.
BuildFailsClearing(t) ==
    /\ at[t] = "build"
    /\ viewSlot' = [viewSlot EXCEPT ![arg[t].ctx][arg[t].project] = None]
    /\ viewBuilder' = [viewBuilder EXCEPT ![arg[t].ctx][arg[t].project] = None]
    /\ Return(t, None)
    /\ UNCHANGED <<slotVars, viewSlots>>

BuildFails(t) ==
    /\ at[t] = "build"
    /\ viewBuilder' = [viewBuilder EXCEPT ![arg[t].ctx][arg[t].project] = None]
    /\ Return(t, None)
    /\ UNCHANGED <<slotVars, viewSlots, viewSlot>>
------------------------------------------------------------------------------
\* The handler's future goes, with the lock guard and the Arcs it holds: it has
\* finished, or the client cancelled its request where it waited.
Drop(t) ==
    /\ builder' = [d \in DestinationId |-> IF builder[d] = t THEN None ELSE builder[d]]
    /\ viewBuilder' = [c \in Ctx |-> [p \in ProjectRoot |->
                         IF viewBuilder[c][p] = t THEN None ELSE viewBuilder[c][p]]]
    /\ at' = [at EXCEPT ![t] = "idle"]
    /\ arg' = [arg EXCEPT ![t] = NoArg]
    /\ answer' = [answer EXCEPT ![t] = None]
    /\ UNCHANGED <<slots, slot, context, viewSlots, viewSlot>>
------------------------------------------------------------------------------
\* The calls tasks may make, with the configurations each destination can have.
Call(t) ==
    \/ \E d \in DestinationId :
          \/ Get(t, d)
          \/ \E config \in Configs[d] : Upsert(t, d, config)
    \/ \E c \in Ctx, p \in ProjectRoot :
          \/ LookView(t, c, p)
          \/ \E mounts \in MountConfigs : UpsertView(t, c, p, mounts)

\* Backends: a discovery or a tree build comes back, either way.
Discovered(t) == (\E c \in Ctx : DiscoverSucceeds(t, c)) \/ DiscoverFails(t)
Built(t) == BuildSucceeds(t) \/ BuildFails(t)

\* What a task does next on its own once it gets the lock it waits for.
Proceed(t) ==
    \/ GetSlot(t)
    \/ UpsertHits(t) \/ TransportFails(t) \/ StartDiscover(t)
    \/ LookViewSlot(t)
    \/ UpsertViewHits(t) \/ MountsFail(t) \/ StartBuild(t)

Next ==
    \E t \in Task :
       \/ Call(t)
       \/ Proceed(t)
       \/ Discovered(t)
       \/ Built(t)
       \/ arg[t] # NoArg /\ Drop(t)

Spec == Init /\ [][Next]_vars

\* tokio's Mutex serves waiters in order, so a waiter gets a lock that keeps
\* being released (SF).  A backend that is not Silent answers.  Nobody has to
\* call or drop anything.
Answers(t) ==
    \/ at[t] = "discover" /\ arg[t].config \notin Silent
    \/ at[t] = "build" /\ context[arg[t].ctx].client \notin Silent
Fairness ==
    \A t \in Task :
       /\ SF_vars(Proceed(t))
       /\ WF_vars(Answers(t) /\ (Discovered(t) \/ Built(t)))

FairSpec == Spec /\ Fairness
------------------------------------------------------------------------------
(* Properties *)

\* One task at a time fills a slot: a second caller for the same destination, or
\* the same project of one context, waits for the first instead of connecting or
\* building again.
OneBuilderPerSlot ==
    \A t, u \in Task :
       t # u => /\ (at[t] = "discover" /\ at[u] = "discover") => arg[t].id # arg[u].id
                /\ (at[t] = "build" /\ at[u] = "build")
                     => <<arg[t].ctx, arg[t].project>> # <<arg[u].ctx, arg[u].project>>

\* upsert answers with a client for exactly the configuration it was given, even
\* when the slot has been replaced since: revised credentials never reach a
\* caller that asked with others, nor the other way round.
UpsertHonoursConfig ==
    \A t \in Task :
       (at[t] = "idle" /\ arg[t].op = "upsert" /\ answer[t] # None)
          => context[answer[t]].client = arg[t].config

\* upsert_view answers with the mounts it was given, through the client of the
\* context it was called on.
UpsertViewHonoursMounts ==
    \A t \in Task :
       (at[t] = "idle" /\ arg[t].op = "upsert_view" /\ answer[t] # None)
          => answer[t] = [client |-> context[arg[t].ctx].client, mounts |-> arg[t].mounts]

\* Every view a context hands out browses with that context's own client: no
\* view survives a change of the credentials it was built with.
ViewsUseOwnClient ==
    \A c \in InUse \cap Ctx, p \in ProjectRoot :
       viewSlot[c][p] # None => viewSlot[c][p].client = context[c].client

\* A task connects or builds only what the slot really lacks, for as long as it
\* takes: upserts with one configuration in flight together connect once.
NothingBuiltTwice ==
    \A t \in Task : /\ at[t] = "discover" => ~ContextFits(t)
                    /\ at[t] = "build" => ~ViewFits(t)

\* A slot once filled is never emptied, and its context is replaced only by one
\* with another fingerprint, its view only by one with other mounts: a failed or
\* cancelled attempt keeps what was there.
ReplacedOnlyWhenChanged ==
    [][\A d \in DestinationId : slot[d] # None =>
          IF slot'[d] # slot[d]
          THEN /\ slot'[d] # None
               /\ context'[slot'[d]].fingerprint # context[slot[d]].fingerprint
          ELSE \A p \in ProjectRoot :
                  LET old == viewSlot[slot[d]][p]
                      new == viewSlot'[slot[d]][p] IN
                  old \notin {None, new} => new # None /\ new.mounts # old.mounts]_vars

\* Locks, suspensions and the slots still empty do not show: the store keeps the
\* promise of AtomicStore, in which every call takes effect as it returns.
Pending == [t \in Task |-> at[t] # "idle"]
Atomic == INSTANCE AtomicStore WITH pending <- Pending
AnswersAtomically == Atomic!Spec

\* A call ends unless its own backend is silent, whatever other destinations do:
\* "initialization can take place without locking the full context".
OwnBackendAnswers(t) ==
    IF arg[t].ctx # None THEN context[arg[t].ctx].client \notin Silent
    ELSE Configs[arg[t].id] \cap Silent = {}
EveryCallEnds ==
    \A t \in Task : (at[t] # "idle" /\ OwnBackendAnswers(t)) ~> at[t] = "idle"
==============================================================================
