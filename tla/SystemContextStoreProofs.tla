----------------------- MODULE SystemContextStoreProofs -----------------------
(***************************************************************************)
(* The safety properties of SystemContextStore, for any sets of tasks,     *)
(* destinations, projects and contexts.  They follow from one inductive    *)
(* invariant, IInv.  Its core is LocksHeld: a slot is looked at, found     *)
(* wanting and filled under one lock, so what a builder found missing is   *)
(* missing still when it returns; and HeldExist: a context that anybody    *)
(* still holds is not the one a discovery brings.                          *)
(***************************************************************************)
EXTENDS SystemContextStore, TLAPS

\* A suspended call has the arguments its operation takes.
ArgsFit ==
    \A t \in Task :
       /\ at[t] = "get" => arg[t].op = "get" /\ arg[t].id \in DestinationId
       /\ at[t] \in {"upsert", "discover"} =>
             /\ arg[t].op = "upsert"
             /\ arg[t].id \in DestinationId /\ arg[t].id \in slots
             /\ arg[t].config \in DestinationConfig
       /\ at[t] = "view" =>
             /\ arg[t].op = "view"
             /\ arg[t].ctx \in Ctx /\ arg[t].project \in ProjectRoot
       /\ at[t] \in {"upsert_view", "build"} =>
             /\ arg[t].op = "upsert_view"
             /\ arg[t].ctx \in Ctx /\ arg[t].project \in ProjectRoot
             /\ arg[t].mounts \in MountConfigs

\* A context some task holds exists, and was built for its fingerprint.
HeldExist == \A t \in Task : \A c \in Held(t) : context[c] # None
FingerprintsFit ==
    \A c \in Ctx : context[c] # None =>
                      context[c].fingerprint = Fingerprint[context[c].client]

\* A task that fills a slot holds its lock.
LocksHeld ==
    \A t \in Task :
       /\ at[t] = "discover" => builder[arg[t].id] = t
       /\ at[t] = "build" => viewBuilder[arg[t].ctx][arg[t].project] = t

\* ViewsUseOwnClient for every context, in use or not.
ViewsFit ==
    \A c \in Ctx, p \in ProjectRoot :
       viewSlot[c][p] # None => /\ context[c] # None
                                /\ viewSlot[c][p].client = context[c].client

\* What upsert answered is a context built from a configuration with the
\* fingerprint of the one it was given.
UpsertFits ==
    \A t \in Task :
       (at[t] = "idle" /\ arg[t].op = "upsert" /\ answer[t] # None)
          => /\ answer[t] \in Ctx /\ arg[t].config \in DestinationConfig
             /\ context[answer[t]].fingerprint = Fingerprint[arg[t].config]

UpsertViewFits ==
    \A t \in Task :
       (at[t] = "idle" /\ arg[t].op = "upsert_view" /\ answer[t] # None)
          => /\ arg[t].ctx \in Ctx
             /\ answer[t] = [client |-> context[arg[t].ctx].client, mounts |-> arg[t].mounts]

IInv ==
    /\ TypeOK
    /\ ArgsFit
    /\ HeldExist
    /\ FingerprintsFit
    /\ LocksHeld
    /\ ViewsFit
    /\ UpsertFits
    /\ UpsertViewFits
    /\ NothingBuiltTwice
------------------------------------------------------------------------------
\* None is none of the values a slot or an argument may hold.
LEMMA NoneApart ==
    /\ None \notin Ctx /\ None \notin Task /\ None \notin View /\ None \notin Context
    /\ None \notin DestinationId /\ None \notin ProjectRoot
    /\ \A c \in Ctx : c \notin View
BY StoreAssumption DEF StoreAssumption, View, Context

\* An empty store, with every task free, satisfies the inductive invariant.
LEMMA InitIInv == Init => IInv
<1> SUFFICES ASSUME Init PROVE IInv
  OBVIOUS
<1>1. TypeOK
  BY NoneApart DEF Init, TypeOK, NoArg, Arg
<1>2. ArgsFit /\ LocksHeld /\ NothingBuiltTwice
  BY DEF Init, ArgsFit, LocksHeld, NothingBuiltTwice
<1>3. HeldExist
  BY NoneApart DEF Init, HeldExist, Held, NoArg
<1>4. FingerprintsFit /\ ViewsFit
  BY DEF Init, FingerprintsFit, ViewsFit
<1>5. UpsertFits /\ UpsertViewFits
  BY DEF Init, UpsertFits, UpsertViewFits
<1> QED
  BY <1>1, <1>2, <1>3, <1>4, <1>5 DEF IInv
------------------------------------------------------------------------------
(* A call begins *)

\* Get, Upsert, LookView and UpsertView: the task takes new arguments, and at
\* most a slot is added; nothing is in the slots but what was.
LEMMA CallKeepsIInv ==
    ASSUME IInv, NEW t \in Task, at[t] = "idle",
           NEW a \in Arg, NEW w \in {"idle", "get", "upsert", "view", "upsert_view"},
           arg' = [arg EXCEPT ![t] = a],
           answer' = [answer EXCEPT ![t] = None],
           at' = [at EXCEPT ![t] = w],
           slots \subseteq slots', slots' \in SUBSET DestinationId,
           viewSlots' \in [Ctx -> SUBSET ProjectRoot],
           UNCHANGED <<slot, builder, context, viewSlot, viewBuilder>>,
           a.ctx \in Ctx => context[a.ctx] # None,
           w = "get" => a.op = "get" /\ a.id \in DestinationId,
           w = "upsert" => a.op = "upsert" /\ a.id \in DestinationId /\ a.id \in slots'
                             /\ a.config \in DestinationConfig,
           w = "view" => a.op = "view" /\ a.ctx \in Ctx /\ a.project \in ProjectRoot,
           w = "upsert_view" => a.op = "upsert_view" /\ a.ctx \in Ctx
                             /\ a.project \in ProjectRoot /\ a.mounts \in MountConfigs
    PROVE  IInv'
<1>0. TypeOK
  BY DEF IInv
<1>1. /\ at'[t] = w /\ arg'[t] = a /\ answer'[t] = None
      /\ \A u \in Task : u # t => at'[u] = at[u] /\ arg'[u] = arg[u] /\ answer'[u] = answer[u]
  BY <1>0 DEF TypeOK
<1>2. TypeOK'
  BY <1>0 DEF TypeOK
<1>3. ArgsFit'
  BY <1>1 DEF IInv, ArgsFit
<1>4. HeldExist'
  BY <1>1, NoneApart DEF IInv, HeldExist, Held
<1>5. FingerprintsFit' /\ ViewsFit'
  BY DEF IInv, FingerprintsFit, ViewsFit
<1>6. LocksHeld'
  BY <1>1 DEF IInv, LocksHeld
<1>7. UpsertFits' /\ UpsertViewFits'
  BY <1>1 DEF IInv, UpsertFits, UpsertViewFits
<1>8. NothingBuiltTwice'
  BY <1>1 DEF IInv, NothingBuiltTwice, ContextFits, ViewFits, ViewInSlot
<1> QED
  BY <1>2, <1>3, <1>4, <1>5, <1>6, <1>7, <1>8 DEF IInv
------------------------------------------------------------------------------
(* A call returns what it found *)

\* GetSlot, UpsertHits, TransportFails, LookViewSlot, UpsertViewHits, MountsFail.
LEMMA ReturnKeepsIInv ==
    ASSUME IInv, NEW t \in Task, NEW v \in Ctx \cup View \cup {None},
           Return(t, v), UNCHANGED <<slotVars, viewVars>>,
           v \in Ctx => context[v] # None,
           (arg[t].op = "upsert" /\ v # None)
              => /\ v \in Ctx /\ arg[t].config \in DestinationConfig
                 /\ context[v].fingerprint = Fingerprint[arg[t].config],
           (arg[t].op = "upsert_view" /\ v # None)
              => /\ arg[t].ctx \in Ctx
                 /\ v = [client |-> context[arg[t].ctx].client, mounts |-> arg[t].mounts]
    PROVE  IInv'
<1>0. TypeOK
  BY DEF IInv
<1>1. /\ at'[t] = "idle" /\ answer'[t] = v
      /\ \A u \in Task : u # t => at'[u] = at[u] /\ answer'[u] = answer[u]
      /\ arg' = arg
      /\ UNCHANGED <<slots, slot, builder, context, viewSlots, viewSlot, viewBuilder>>
  BY <1>0 DEF TypeOK, Return, slotVars, viewVars
<1>2. TypeOK'
  BY <1>0, <1>1 DEF TypeOK, Return
<1>3. ArgsFit'
  BY <1>1 DEF IInv, ArgsFit
<1>4. HeldExist'
  BY <1>1, NoneApart DEF IInv, HeldExist, Held
<1>5. FingerprintsFit' /\ ViewsFit'
  BY <1>1 DEF IInv, FingerprintsFit, ViewsFit
<1>6. LocksHeld'
  BY <1>1 DEF IInv, LocksHeld
<1>7. UpsertFits' /\ UpsertViewFits'
  BY <1>1 DEF IInv, UpsertFits, UpsertViewFits
<1>8. NothingBuiltTwice'
  BY <1>1 DEF IInv, NothingBuiltTwice, ContextFits, ViewFits, ViewInSlot
<1> QED
  BY <1>2, <1>3, <1>4, <1>5, <1>6, <1>7, <1>8 DEF IInv
------------------------------------------------------------------------------
(* A slot is filled under its lock *)

\* discover() is started with the slot's lock held and the fingerprint looked up.
LEMMA StartDiscoverKeepsIInv ==
    ASSUME IInv, NEW t \in Task, StartDiscover(t) PROVE IInv'
<1> DEFINE d == arg[t].id
<1>0. /\ TypeOK /\ d \in DestinationId /\ d \in slots
      /\ arg[t].op = "upsert" /\ arg[t].config \in DestinationConfig
  BY DEF IInv, ArgsFit, StartDiscover
<1>1. /\ at'[t] = "discover" /\ builder[d] = None /\ builder'[d] = t
      /\ \A u \in Task : u # t => at'[u] = at[u]
      /\ \A e \in DestinationId : e # d => builder'[e] = builder[e]
      /\ UNCHANGED <<slots, slot, context, viewSlots, viewSlot, viewBuilder, arg, answer>>
  BY <1>0 DEF TypeOK, StartDiscover, Suspend, SlotFree, viewVars
<1>2. TypeOK'
  BY <1>0, <1>1 DEF TypeOK, StartDiscover, Suspend
<1>3. ArgsFit'
  BY <1>0, <1>1 DEF IInv, ArgsFit
<1>4. HeldExist' /\ FingerprintsFit' /\ ViewsFit'
  BY <1>1 DEF IInv, HeldExist, Held, FingerprintsFit, ViewsFit
<1>5. LocksHeld'
  BY <1>0, <1>1, NoneApart DEF IInv, LocksHeld, ArgsFit
<1>6. UpsertFits' /\ UpsertViewFits'
  BY <1>1 DEF IInv, UpsertFits, UpsertViewFits
<1>7. NothingBuiltTwice'
  BY <1>1 DEF IInv, NothingBuiltTwice, ContextFits, ViewFits, ViewInSlot, StartDiscover
<1> QED
  BY <1>2, <1>3, <1>4, <1>5, <1>6, <1>7 DEF IInv

\* build() is started with the view slot's lock held and no view for the mounts.
LEMMA StartBuildKeepsIInv ==
    ASSUME IInv, NEW t \in Task, StartBuild(t) PROVE IInv'
<1> DEFINE c == arg[t].ctx
           p == arg[t].project
<1>0. TypeOK /\ c \in Ctx /\ p \in ProjectRoot /\ arg[t].op = "upsert_view"
      /\ arg[t].mounts \in MountConfigs
  BY DEF IInv, ArgsFit, StartBuild
<1>1. /\ at'[t] = "build" /\ viewBuilder[c][p] = None /\ viewBuilder'[c][p] = t
      /\ \A u \in Task : u # t => at'[u] = at[u]
      /\ \A e \in Ctx, q \in ProjectRoot :
            <<e, q>> # <<c, p>> => viewBuilder'[e][q] = viewBuilder[e][q]
      /\ UNCHANGED <<slots, slot, builder, context, viewSlots, viewSlot, arg, answer>>
  BY <1>0 DEF TypeOK, StartBuild, Suspend, ViewSlotFree, slotVars
<1>2. TypeOK'
  BY <1>0, <1>1 DEF TypeOK, StartBuild, Suspend
<1>3. ArgsFit'
  <2>1. ArgsFit /\ slots' = slots /\ arg' = arg
    BY <1>1 DEF IInv
  <2> QED
    BY <2>1, <1>0, <1>1 DEF ArgsFit
<1>4. HeldExist' /\ FingerprintsFit' /\ ViewsFit'
  BY <1>1 DEF IInv, HeldExist, Held, FingerprintsFit, ViewsFit
<1>5. LocksHeld'
  BY <1>0, <1>1, NoneApart DEF IInv, LocksHeld, ArgsFit
<1>6. UpsertFits' /\ UpsertViewFits'
  BY <1>1 DEF IInv, UpsertFits, UpsertViewFits
<1>7. NothingBuiltTwice'
  BY <1>1 DEF IInv, NothingBuiltTwice, ContextFits, ViewFits, ViewInSlot, StartBuild
<1> QED
  BY <1>2, <1>3, <1>4, <1>5, <1>6, <1>7 DEF IInv

\* The old context may still be held by others; the new one is none of those in
\* use, so whatever is said of a context in use stays true.
LEMMA DiscoverSucceedsKeepsIInv ==
    ASSUME IInv, NEW t \in Task, NEW c \in Ctx, DiscoverSucceeds(t, c) PROVE IInv'
<1> DEFINE d == arg[t].id
           f == arg[t].config
<1>0. TypeOK /\ d \in DestinationId /\ arg[t].op = "upsert" /\ f \in DestinationConfig
      /\ builder[d] = t
  BY DEF IInv, ArgsFit, LocksHeld, DiscoverSucceeds
<1>1. /\ at'[t] = "idle" /\ answer'[t] = c /\ arg' = arg /\ slots' = slots
      /\ slot'[d] = c /\ builder'[d] = None
      /\ context'[c] = [client |-> f, fingerprint |-> Fingerprint[f]]
      /\ \A p \in ProjectRoot : viewSlot'[c][p] = None
      /\ \A u \in Task : u # t => at'[u] = at[u] /\ answer'[u] = answer[u]
      /\ \A e \in DestinationId : e # d => slot'[e] = slot[e] /\ builder'[e] = builder[e]
      /\ \A b \in Ctx : b # c => /\ context'[b] = context[b]
                                 /\ viewSlot'[b] = viewSlot[b]
                                 /\ viewBuilder'[b] = viewBuilder[b]
  BY <1>0 DEF TypeOK, DiscoverSucceeds, Return
<1>2. /\ \A u \in Task : c \notin Held(u)
      /\ \A e \in DestinationId : slot[e] # c
  BY DEF DiscoverSucceeds, InUse
<1>3. context'[c] \in Context /\ context'[c] # None
  BY <1>0, <1>1, NoneApart DEF Context
<1>4. TypeOK'
  <2>1. /\ slot' \in [DestinationId -> Ctx \cup {None}]
        /\ builder' \in [DestinationId -> Task \cup {None}]
        /\ context' \in [Ctx -> Context \cup {None}]
    BY <1>0, <1>3 DEF TypeOK, DiscoverSucceeds
  <2>2. /\ viewSlots' \in [Ctx -> SUBSET ProjectRoot]
        /\ viewSlot' \in [Ctx -> [ProjectRoot -> View \cup {None}]]
        /\ viewBuilder' \in [Ctx -> [ProjectRoot -> Task \cup {None}]]
    BY <1>0 DEF TypeOK, DiscoverSucceeds
  <2>3. slots' = slots /\ at' \in [Task -> {"idle", "get", "upsert", "discover", "view",
                                            "upsert_view", "build"}]
        /\ answer' \in [Task -> Ctx \cup View \cup {None}] /\ arg' = arg
    BY <1>0 DEF TypeOK, DiscoverSucceeds, Return
  <2>4. d \in slots
    BY DEF IInv, ArgsFit, DiscoverSucceeds
  <2> QED
    BY <1>0, <1>1, <1>2, <1>3, <2>1, <2>2, <2>3, <2>4 DEF TypeOK
<1>5. ArgsFit'
  BY <1>1 DEF IInv, ArgsFit
<1>6. HeldExist'
  BY <1>1, <1>2, <1>3 DEF IInv, HeldExist, Held
<1>7. FingerprintsFit' /\ ViewsFit'
  BY <1>0, <1>1 DEF IInv, FingerprintsFit, ViewsFit
<1>8. LocksHeld'
  BY <1>0, <1>1, <1>2 DEF IInv, LocksHeld, ArgsFit, Held
<1>9. UpsertFits' /\ UpsertViewFits'
  <2> SUFFICES ASSUME NEW u \in Task
               PROVE  UpsertFits!(u)' /\ UpsertViewFits!(u)'
    BY DEF UpsertFits, UpsertViewFits
  <2>1. CASE u = t
    BY <2>1, <1>0, <1>1
  <2>2. CASE u # t
    <3>1. /\ at'[u] = at[u] /\ answer'[u] = answer[u] /\ arg'[u] = arg[u]
          /\ UpsertFits!(u) /\ UpsertViewFits!(u)
      BY <2>2, <1>1 DEF IInv, UpsertFits, UpsertViewFits
    <3>2. \A b \in Ctx : b \in Held(u) => context'[b] = context[b]
      BY <1>1, <1>2
    <3> QED
      BY <3>1, <3>2 DEF Held
  <2> QED
    BY <2>1, <2>2
<1>10. NothingBuiltTwice'
  <2> SUFFICES ASSUME NEW u \in Task
               PROVE  /\ at'[u] = "discover" => ~ContextFits(u)'
                      /\ at'[u] = "build" => ~ViewFits(u)'
    BY DEF NothingBuiltTwice
  <2>1. CASE u = t
    BY <2>1, <1>1
  <2>2. ASSUME u # t, at'[u] = "discover" PROVE ~ContextFits(u)'
    <3>1. /\ at[u] = "discover" /\ arg[u].id \in DestinationId /\ arg[u].id # d
          /\ ~ContextFits(u)
      BY <2>2, <1>0, <1>1 DEF IInv, ArgsFit, LocksHeld, NothingBuiltTwice, TypeOK
    <3>2. slot'[arg[u].id] = slot[arg[u].id] /\ slot[arg[u].id] # c
      BY <3>1, <1>1, <1>2
    <3>3. slot[arg[u].id] \in Ctx \cup {None}
      BY <3>1, <1>0 DEF TypeOK
    <3> QED
      BY <3>1, <3>2, <3>3, <1>1 DEF ContextFits
  <2>3. ASSUME u # t, at'[u] = "build" PROVE ~ViewFits(u)'
    <3>1. at[u] = "build" /\ arg[u].ctx \in Ctx /\ ~ViewFits(u)
      BY <2>3, <1>1 DEF IInv, ArgsFit, NothingBuiltTwice
    <3>2. arg[u].ctx # c
      BY <3>1, <1>2 DEF Held
    <3> QED
      BY <3>1, <3>2, <1>1 DEF ViewFits, ViewInSlot
  <2> QED
    BY <2>1, <2>2, <2>3
<1> QED
  BY <1>4, <1>5, <1>6, <1>7, <1>8, <1>9, <1>10 DEF IInv

\* A failed discovery leaves the slot as it was and frees its lock.
LEMMA DiscoverFailsKeepsIInv ==
    ASSUME IInv, NEW t \in Task, DiscoverFails(t) PROVE IInv'
<1> DEFINE d == arg[t].id
<1>0. TypeOK /\ d \in DestinationId /\ builder[d] = t
  BY DEF IInv, ArgsFit, LocksHeld, DiscoverFails
<1>1. /\ at'[t] = "idle" /\ answer'[t] = None /\ builder'[d] = None
      /\ \A u \in Task : u # t => at'[u] = at[u] /\ answer'[u] = answer[u]
      /\ \A e \in DestinationId : e # d => builder'[e] = builder[e]
      /\ UNCHANGED <<slots, slot, context, viewSlots, viewSlot, viewBuilder, arg>>
  BY <1>0 DEF TypeOK, DiscoverFails, Return, viewVars
<1>2. TypeOK'
  BY <1>0, <1>1 DEF TypeOK, DiscoverFails, Return
<1>3. ArgsFit'
  BY <1>1 DEF IInv, ArgsFit
<1>4. HeldExist' /\ FingerprintsFit' /\ ViewsFit'
  BY <1>1, NoneApart DEF IInv, HeldExist, Held, FingerprintsFit, ViewsFit
<1>5. LocksHeld'
  BY <1>0, <1>1 DEF IInv, LocksHeld, ArgsFit
<1>6. UpsertFits' /\ UpsertViewFits'
  BY <1>1 DEF IInv, UpsertFits, UpsertViewFits
<1>7. NothingBuiltTwice'
  BY <1>1 DEF IInv, NothingBuiltTwice, ContextFits, ViewFits, ViewInSlot
<1> QED
  BY <1>2, <1>3, <1>4, <1>5, <1>6, <1>7 DEF IInv

\* A view built with the context's client enters the slot its builder has locked.
LEMMA BuildSucceedsKeepsIInv ==
    ASSUME IInv, NEW t \in Task, BuildSucceeds(t) PROVE IInv'
<1> DEFINE c == arg[t].ctx
           p == arg[t].project
           view == [client |-> context[c].client, mounts |-> arg[t].mounts]
<1>0. /\ TypeOK /\ c \in Ctx /\ p \in ProjectRoot /\ arg[t].op = "upsert_view"
      /\ arg[t].mounts \in MountConfigs /\ viewBuilder[c][p] = t
  BY DEF IInv, ArgsFit, LocksHeld, BuildSucceeds
<1>1. context[c] \in Context /\ context[c] # None
  BY <1>0 DEF IInv, HeldExist, Held, TypeOK
<1>2. view \in View /\ view # None /\ view \notin Ctx
  BY <1>0, <1>1, NoneApart DEF View, Context
<1>3. /\ at'[t] = "idle" /\ answer'[t] = view
      /\ viewSlot'[c][p] = view /\ viewBuilder'[c][p] = None
      /\ \A u \in Task : u # t => at'[u] = at[u] /\ answer'[u] = answer[u]
      /\ \A e \in Ctx, q \in ProjectRoot : <<e, q>> # <<c, p>> =>
            viewSlot'[e][q] = viewSlot[e][q] /\ viewBuilder'[e][q] = viewBuilder[e][q]
      /\ UNCHANGED <<slots, slot, builder, context, viewSlots, arg>>
  BY <1>0 DEF TypeOK, BuildSucceeds, Return, slotVars
<1>4. TypeOK'
  <2>1. /\ viewSlot' \in [Ctx -> [ProjectRoot -> View \cup {None}]]
        /\ viewBuilder' \in [Ctx -> [ProjectRoot -> Task \cup {None}]]
    BY <1>0, <1>2 DEF TypeOK, BuildSucceeds
  <2>2. /\ at' \in [Task -> {"idle", "get", "upsert", "discover", "view", "upsert_view", "build"}]
        /\ answer' \in [Task -> Ctx \cup View \cup {None}]
    BY <1>0, <1>2 DEF TypeOK, BuildSucceeds, Return
  <2> QED
    BY <1>0, <1>3, <2>1, <2>2 DEF TypeOK
<1>5. ArgsFit'
  BY <1>3 DEF IInv, ArgsFit
<1>6. HeldExist' /\ FingerprintsFit'
  BY <1>2, <1>3 DEF IInv, HeldExist, Held, FingerprintsFit
<1>7. ViewsFit'
  BY <1>0, <1>1, <1>3 DEF IInv, ViewsFit
<1>8. LocksHeld'
  BY <1>0, <1>3 DEF IInv, LocksHeld, ArgsFit
<1>9. UpsertFits' /\ UpsertViewFits'
  BY <1>0, <1>3 DEF IInv, UpsertFits, UpsertViewFits
<1>10. NothingBuiltTwice'
  <2> SUFFICES ASSUME NEW u \in Task
               PROVE  /\ at'[u] = "discover" => ~ContextFits(u)'
                      /\ at'[u] = "build" => ~ViewFits(u)'
    BY DEF NothingBuiltTwice
  <2>1. at'[u] = "discover" => ~ContextFits(u)'
    BY <1>3 DEF IInv, NothingBuiltTwice, ContextFits
  <2>2. ASSUME at'[u] = "build" PROVE ~ViewFits(u)'
    <3>1. /\ u # t /\ at[u] = "build" /\ ~ViewFits(u)
          /\ arg[u].ctx \in Ctx /\ arg[u].project \in ProjectRoot
      BY <2>2, <1>3 DEF IInv, NothingBuiltTwice, ArgsFit
    <3>2. <<arg[u].ctx, arg[u].project>> # <<c, p>>
      BY <3>1, <1>0 DEF IInv, LocksHeld
    <3> QED
      BY <3>1, <3>2, <1>3 DEF ViewFits, ViewInSlot
  <2> QED
    BY <2>1, <2>2
<1> QED
  BY <1>4, <1>5, <1>6, <1>7, <1>8, <1>9, <1>10 DEF IInv

\* A failed build leaves the view slot as it was and frees its lock.
LEMMA BuildFailsKeepsIInv ==
    ASSUME IInv, NEW t \in Task, BuildFails(t) PROVE IInv'
<1> DEFINE c == arg[t].ctx
           p == arg[t].project
<1>0. TypeOK /\ c \in Ctx /\ p \in ProjectRoot /\ viewBuilder[c][p] = t
  BY DEF IInv, ArgsFit, LocksHeld, BuildFails
<1>1. /\ at'[t] = "idle" /\ answer'[t] = None /\ viewBuilder'[c][p] = None
      /\ \A u \in Task : u # t => at'[u] = at[u] /\ answer'[u] = answer[u]
      /\ \A e \in Ctx, q \in ProjectRoot :
            <<e, q>> # <<c, p>> => viewBuilder'[e][q] = viewBuilder[e][q]
      /\ UNCHANGED <<slots, slot, builder, context, viewSlots, viewSlot, arg>>
  BY <1>0 DEF TypeOK, BuildFails, Return, slotVars
<1>2. TypeOK'
  BY <1>0, <1>1 DEF TypeOK, BuildFails, Return
<1>3. ArgsFit'
  BY <1>1 DEF IInv, ArgsFit
<1>4. HeldExist' /\ FingerprintsFit' /\ ViewsFit'
  BY <1>1, NoneApart DEF IInv, HeldExist, Held, FingerprintsFit, ViewsFit
<1>5. LocksHeld'
  BY <1>0, <1>1 DEF IInv, LocksHeld, ArgsFit
<1>6. UpsertFits' /\ UpsertViewFits'
  BY <1>1 DEF IInv, UpsertFits, UpsertViewFits
<1>7. NothingBuiltTwice'
  BY <1>1 DEF IInv, NothingBuiltTwice, ContextFits, ViewFits, ViewInSlot
<1> QED
  BY <1>2, <1>3, <1>4, <1>5, <1>6, <1>7 DEF IInv
------------------------------------------------------------------------------
(* A future is dropped *)

\* A dropped future frees its lock and forgets its arguments.
LEMMA DropKeepsIInv ==
    ASSUME IInv, NEW t \in Task, Drop(t) PROVE IInv'
<1>0. TypeOK
  BY DEF IInv
<1>1. /\ at'[t] = "idle" /\ answer'[t] = None /\ arg'[t] = NoArg
      /\ \A u \in Task : u # t => /\ at'[u] = at[u] /\ answer'[u] = answer[u]
                                  /\ arg'[u] = arg[u]
      /\ \A d \in DestinationId : builder[d] # t => builder'[d] = builder[d]
      /\ \A c \in Ctx, p \in ProjectRoot :
            viewBuilder[c][p] # t => viewBuilder'[c][p] = viewBuilder[c][p]
      /\ UNCHANGED <<slots, slot, context, viewSlots, viewSlot>>
  BY <1>0 DEF TypeOK, Drop
<1>2. TypeOK'
  <2>1. NoArg \in Arg
    BY DEF NoArg, Arg
  <2>2. /\ builder' \in [DestinationId -> Task \cup {None}]
        /\ viewBuilder' \in [Ctx -> [ProjectRoot -> Task \cup {None}]]
    BY <1>0 DEF TypeOK, Drop
  <2> QED
    BY <1>0, <1>1, <2>1, <2>2 DEF TypeOK, Drop
<1>3. ArgsFit'
  BY <1>1 DEF IInv, ArgsFit
<1>4. HeldExist' /\ FingerprintsFit' /\ ViewsFit'
  BY <1>1, NoneApart DEF IInv, HeldExist, Held, FingerprintsFit, ViewsFit, NoArg
<1>5. LocksHeld'
  BY <1>0, <1>1 DEF IInv, LocksHeld, ArgsFit
<1>6. UpsertFits' /\ UpsertViewFits'
  BY <1>1 DEF IInv, UpsertFits, UpsertViewFits
<1>7. NothingBuiltTwice'
  BY <1>1 DEF IInv, NothingBuiltTwice, ContextFits, ViewFits, ViewInSlot
<1> QED
  BY <1>2, <1>3, <1>4, <1>5, <1>6, <1>7 DEF IInv
------------------------------------------------------------------------------
(* Every step keeps IInv *)

\* Each of the four calls of the store keeps the inductive invariant.
LEMMA CallStep == ASSUME IInv, NEW t \in Task, Call(t) PROVE IInv'
<1>0. TypeOK /\ NoArg \in Arg
  BY DEF IInv, NoArg, Arg
<1>1. ASSUME NEW d \in DestinationId, Get(t, d) PROVE IInv'
  <2> DEFINE a == [NoArg EXCEPT !.op = "get", !.id = d]
  <2>1. a \in Arg /\ a.op = "get" /\ a.id = d /\ a.ctx = None
    BY DEF NoArg, Arg
  <2> QED
    BY <1>0, <1>1, <2>1, NoneApart, CallKeepsIInv DEF Get, slotVars, viewVars, TypeOK
<1>2. ASSUME NEW d \in DestinationId, NEW f \in Configs[d], Upsert(t, d, f) PROVE IInv'
  <2> DEFINE a == [NoArg EXCEPT !.op = "upsert", !.id = d, !.config = f]
  <2>1. f \in DestinationConfig
    BY StoreAssumption DEF StoreAssumption
  <2>2. a \in Arg /\ a.op = "upsert" /\ a.id = d /\ a.config = f /\ a.ctx = None
    BY <2>1 DEF NoArg, Arg
  <2>3. /\ slots \subseteq slots' /\ slots' \in SUBSET DestinationId /\ d \in slots'
        /\ viewSlots' \in [Ctx -> SUBSET ProjectRoot]
        /\ UNCHANGED <<slot, builder, context, viewSlot, viewBuilder>>
    BY <1>0, <1>2 DEF Upsert, viewVars, TypeOK
  <2>4. /\ at[t] = "idle" /\ arg' = [arg EXCEPT ![t] = a]
        /\ answer' = [answer EXCEPT ![t] = None] /\ at' = [at EXCEPT ![t] = "upsert"]
    BY <1>2 DEF Upsert
  <2> HIDE DEF a
  <2> QED
    BY <2>1, <2>2, <2>3, <2>4, NoneApart, CallKeepsIInv
<1>3. ASSUME NEW c \in Ctx, NEW p \in ProjectRoot, LookView(t, c, p) PROVE IInv'
  <2> DEFINE a == [NoArg EXCEPT !.op = "view", !.ctx = c, !.project = p]
  <2>1. a \in Arg /\ a.op = "view" /\ a.ctx = c /\ a.project = p
    BY DEF NoArg, Arg
  <2>2. context[c] # None
    BY <1>3 DEF LookView, IInv, HeldExist
  <2> QED
    BY <1>0, <1>3, <2>1, <2>2, CallKeepsIInv DEF LookView, slotVars, viewVars, TypeOK
<1>4. ASSUME NEW c \in Ctx, NEW p \in ProjectRoot, NEW m \in MountConfigs,
             UpsertView(t, c, p, m)
      PROVE  IInv'
  <2> DEFINE a == [NoArg EXCEPT !.op = "upsert_view", !.ctx = c, !.project = p, !.mounts = m]
  <2>1. a \in Arg /\ a.op = "upsert_view" /\ a.ctx = c /\ a.project = p /\ a.mounts = m
    BY DEF NoArg, Arg
  <2>2. context[c] # None
    BY <1>4 DEF UpsertView, IInv, HeldExist
  <2>3. viewSlots' \in [Ctx -> SUBSET ProjectRoot]
    BY <1>0, <1>4 DEF UpsertView, TypeOK
  <2> QED
    BY <1>0, <1>4, <2>1, <2>2, <2>3, CallKeepsIInv DEF UpsertView, slotVars, TypeOK
<1> QED
  BY <1>1, <1>2, <1>3, <1>4 DEF Call

\* Whatever a task in a call does next keeps the inductive invariant.
LEMMA ProceedStep == ASSUME IInv, NEW t \in Task, Proceed(t) PROVE IInv'
<1>0. TypeOK /\ ArgsFit
  BY DEF IInv
<1>1. ASSUME GetSlot(t) PROVE IInv'
  <2>1. arg[t].op = "get" /\ arg[t].id \in DestinationId
    BY <1>0, <1>1 DEF ArgsFit, GetSlot
  <2>2. slot[arg[t].id] \in Ctx \cup {None}
        /\ (slot[arg[t].id] # None => context[slot[arg[t].id]] # None)
    BY <1>0, <2>1 DEF TypeOK
  <2> QED
    BY <1>1, <2>1, <2>2, NoneApart, ReturnKeepsIInv DEF GetSlot
<1>2. ASSUME UpsertHits(t) PROVE IInv'
  <2>1. /\ arg[t].op = "upsert" /\ arg[t].id \in DestinationId
        /\ arg[t].config \in DestinationConfig
    BY <1>0, <1>2 DEF ArgsFit, UpsertHits
  <2>2. slot[arg[t].id] \in Ctx /\ context[slot[arg[t].id]] # None
    BY <1>0, <1>2, <2>1 DEF TypeOK, UpsertHits, ContextFits
  <2> QED
    BY <1>2, <2>1, <2>2, ReturnKeepsIInv DEF UpsertHits, ContextFits
<1>3. ASSUME TransportFails(t) PROVE IInv'
  BY <1>3, NoneApart, ReturnKeepsIInv DEF TransportFails
<1>4. ASSUME LookViewSlot(t) PROVE IInv'
  <2>1. arg[t].op = "view" /\ arg[t].ctx \in Ctx /\ arg[t].project \in ProjectRoot
    BY <1>0, <1>4 DEF ArgsFit, LookViewSlot
  <2>2. ViewInSlot(t) \in View \cup {None} /\ ViewInSlot(t) \notin Ctx
    BY <1>0, <2>1, NoneApart DEF TypeOK, ViewInSlot
  <2> QED
    BY <1>4, <2>1, <2>2, ReturnKeepsIInv DEF LookViewSlot
<1>5. ASSUME UpsertViewHits(t) PROVE IInv'
  <2>1. arg[t].op = "upsert_view" /\ arg[t].ctx \in Ctx /\ arg[t].project \in ProjectRoot
    BY <1>0, <1>5 DEF ArgsFit, UpsertViewHits
  <2>2. ViewInSlot(t) \in View /\ ViewInSlot(t) \notin Ctx
    BY <1>0, <1>5, <2>1, NoneApart DEF TypeOK, ViewInSlot, UpsertViewHits, ViewFits
  <2>3. /\ ViewInSlot(t).client = context[arg[t].ctx].client
        /\ ViewInSlot(t).mounts = arg[t].mounts
    BY <1>5, <2>1 DEF IInv, ViewsFit, ViewInSlot, UpsertViewHits, ViewFits
  <2>4. ViewInSlot(t) = [client |-> context[arg[t].ctx].client, mounts |-> arg[t].mounts]
    BY <2>2, <2>3 DEF View
  <2> QED
    BY <1>5, <2>1, <2>2, <2>4, ReturnKeepsIInv DEF UpsertViewHits
<1>6. ASSUME MountsFail(t) PROVE IInv'
  BY <1>6, NoneApart, ReturnKeepsIInv DEF MountsFail
<1> QED
  BY <1>1, <1>2, <1>3, <1>4, <1>5, <1>6, StartDiscoverKeepsIInv, StartBuildKeepsIInv
     DEF Proceed

\* No step of any task breaks the inductive invariant.
LEMMA IInvStep == IInv /\ [Next]_vars => IInv'
<1> SUFFICES ASSUME IInv, [Next]_vars PROVE IInv'
  OBVIOUS
<1>1. ASSUME NEW t \in Task, Discovered(t) PROVE IInv'
  BY <1>1, DiscoverSucceedsKeepsIInv, DiscoverFailsKeepsIInv DEF Discovered
<1>2. ASSUME NEW t \in Task, Built(t) PROVE IInv'
  BY <1>2, BuildSucceedsKeepsIInv, BuildFailsKeepsIInv DEF Built
<1>3. ASSUME UNCHANGED vars PROVE IInv'
  BY <1>3 DEF vars, slotVars, viewVars, IInv, TypeOK, ArgsFit, HeldExist, Held,
              FingerprintsFit, LocksHeld, ViewsFit, UpsertFits, UpsertViewFits,
              NothingBuiltTwice, ContextFits, ViewFits, ViewInSlot
<1> QED
  BY <1>1, <1>2, <1>3, CallStep, ProceedStep, DropKeepsIInv DEF Next

\* The store keeps the inductive invariant for ever.
THEOREM AlwaysIInv == Spec => []IInv
BY InitIInv, IInvStep, PTL DEF Spec
------------------------------------------------------------------------------
(* What follows *)

\* Every variable keeps its type, for any sets of tasks, destinations, projects,
\* configurations and contexts.
THEOREM TypeCorrect == Spec => []TypeOK
<1>1. IInv => TypeOK
  BY DEF IInv
<1> QED
  BY <1>1, AlwaysIInv, PTL

\* Two tasks never fill one slot at once.
THEOREM SlotsHaveOneBuilder == Spec => []OneBuilderPerSlot
<1>1. IInv => OneBuilderPerSlot
  BY DEF IInv, LocksHeld, OneBuilderPerSlot
<1> QED
  BY <1>1, AlwaysIInv, PTL

\* upsert_view answers with the mounts it was given and its context's client.
THEOREM MountsAreHonoured == Spec => []UpsertViewHonoursMounts
<1>1. IInv => UpsertViewHonoursMounts
  BY DEF IInv, UpsertViewFits, UpsertViewHonoursMounts
<1> QED
  BY <1>1, AlwaysIInv, PTL

\* No view outlives the client it was built with.
THEOREM ViewsKeepTheirClient == Spec => []ViewsUseOwnClient
<1>1. IInv => ViewsUseOwnClient
  BY DEF IInv, ViewsFit, ViewsUseOwnClient
<1> QED
  BY <1>1, AlwaysIInv, PTL

\* What a task connects to or builds is missing in its slot until it is done.
THEOREM NothingIsBuiltTwice == Spec => []NothingBuiltTwice
<1>1. IInv => NothingBuiltTwice
  BY DEF IInv
<1> QED
  BY <1>1, AlwaysIInv, PTL

\* The hash distinguishes all configurations.
InjectiveFingerprints ==
    \A f, g \in DestinationConfig : Fingerprint[f] = Fingerprint[g] => f = g

\* upsert answers with a client for the configuration it was given, as long as
\* DefaultHasher has no collision: that is all the code compares.
THEOREM ConfigIsHonoured == Spec => [](InjectiveFingerprints => UpsertHonoursConfig)
<1>1. IInv => (InjectiveFingerprints => UpsertHonoursConfig)
  <2> SUFFICES ASSUME InjectiveFingerprints, IInv, NEW t \in Task,
                      at[t] = "idle", arg[t].op = "upsert", answer[t] # None
               PROVE  context[answer[t]].client = arg[t].config
    BY DEF UpsertHonoursConfig
  <2>1. /\ answer[t] \in Ctx /\ arg[t].config \in DestinationConfig
        /\ context[answer[t]].fingerprint = Fingerprint[arg[t].config]
    BY DEF IInv, UpsertFits
  <2>2. context[answer[t]] # None /\ context[answer[t]] \in Context
    BY <2>1 DEF IInv, HeldExist, Held, TypeOK
  <2>3. /\ context[answer[t]].fingerprint = Fingerprint[context[answer[t]].client]
        /\ context[answer[t]].client \in DestinationConfig
    BY <2>1, <2>2 DEF IInv, FingerprintsFit, Context
  <2> QED
    BY <2>1, <2>3 DEF InjectiveFingerprints
<1> QED
  BY <1>1, AlwaysIInv, PTL
------------------------------------------------------------------------------
(* What a step may do to a filled slot *)

\* The action of ReplacedOnlyWhenChanged, for one destination.
KeepsOrRevises(d) ==
    slot[d] # None =>
       IF slot'[d] # slot[d]
       THEN /\ slot'[d] # None
            /\ context'[slot'[d]].fingerprint # context[slot[d]].fingerprint
       ELSE \A p \in ProjectRoot :
               LET old == viewSlot[slot[d]][p]
                   new == viewSlot'[slot[d]][p] IN
               old \notin {None, new} => new # None /\ new.mounts # old.mounts

\* A step that changes neither map of slots replaces nothing.
LEMMA SlotsUntouched ==
    ASSUME NEW d \in DestinationId, slot' = slot, viewSlot' = viewSlot
    PROVE  KeepsOrRevises(d)
BY DEF KeepsOrRevises

\* A discovery puts a context only where there was none for that fingerprint.
LEMMA DiscoverRevises ==
    ASSUME IInv, NEW d \in DestinationId, NEW t \in Task, NEW c \in Ctx,
           DiscoverSucceeds(t, c), slot[d] # None
    PROVE  KeepsOrRevises(d)
<1>0. /\ TypeOK /\ arg[t].id \in DestinationId /\ ~ContextFits(t)
  BY DEF IInv, ArgsFit, NothingBuiltTwice, DiscoverSucceeds
<1>1. slot[d] # c /\ slot[d] \in Ctx
  BY <1>0 DEF DiscoverSucceeds, InUse, TypeOK
<1>2. CASE d = arg[t].id
  <2>1. /\ slot'[d] = c /\ c # None
        /\ context'[c].fingerprint = Fingerprint[arg[t].config]
    BY <1>0, <1>2, NoneApart DEF DiscoverSucceeds, TypeOK
  <2> QED
    BY <1>0, <1>1, <1>2, <2>1 DEF KeepsOrRevises, ContextFits
<1>3. CASE d # arg[t].id
  <2>1. slot'[d] = slot[d] /\ viewSlot'[slot[d]] = viewSlot[slot[d]]
    BY <1>0, <1>1, <1>3 DEF DiscoverSucceeds, TypeOK
  <2> QED
    BY <2>1 DEF KeepsOrRevises
<1> QED
  BY <1>2, <1>3

\* A build puts a view only where there was none for those mounts.
LEMMA BuildRevises ==
    ASSUME IInv, NEW d \in DestinationId, NEW t \in Task, BuildSucceeds(t), slot[d] # None
    PROVE  KeepsOrRevises(d)
<1> DEFINE c == arg[t].ctx
           view == [client |-> context[c].client, mounts |-> arg[t].mounts]
<1>0. /\ TypeOK /\ c \in Ctx /\ arg[t].project \in ProjectRoot
      /\ arg[t].mounts \in MountConfigs /\ ~ViewFits(t)
      /\ slot' = slot /\ slot[d] \in Ctx
  BY DEF IInv, ArgsFit, NothingBuiltTwice, BuildSucceeds, TypeOK, slotVars
<1>1. context[c] \in Context
  BY <1>0 DEF IInv, HeldExist, Held, TypeOK, BuildSucceeds
<1>2. view \in View /\ view # None
  BY <1>0, <1>1, NoneApart DEF View, Context
<1> SUFFICES ASSUME NEW p \in ProjectRoot,
                    viewSlot[slot[d]][p] \notin {None, viewSlot'[slot[d]][p]}
             PROVE  /\ viewSlot'[slot[d]][p] # None
                    /\ viewSlot'[slot[d]][p].mounts # viewSlot[slot[d]][p].mounts
  BY <1>0 DEF KeepsOrRevises
<1>3. slot[d] = c /\ p = arg[t].project /\ viewSlot'[slot[d]][p] = view
  BY <1>0 DEF BuildSucceeds, TypeOK
<1> QED
  BY <1>0, <1>2, <1>3 DEF ViewFits, ViewInSlot

\* No step of the store empties a slot, or replaces what it holds by something
\* for the same configuration or the same mounts.
THEOREM SlotsChangeOnlyForCause == Spec => ReplacedOnlyWhenChanged
<1>1. ASSUME IInv, Next, NEW d \in DestinationId PROVE KeepsOrRevises(d)
  <2>1. ASSUME NEW t \in Task, Call(t) PROVE KeepsOrRevises(d)
    BY <2>1, SlotsUntouched DEF Call, Get, Upsert, LookView, UpsertView, slotVars, viewVars
  <2>2. ASSUME NEW t \in Task, Proceed(t) PROVE KeepsOrRevises(d)
    BY <2>2, SlotsUntouched
       DEF Proceed, GetSlot, UpsertHits, TransportFails, StartDiscover, LookViewSlot,
           UpsertViewHits, MountsFail, StartBuild, slotVars, viewVars
  <2>3. ASSUME NEW t \in Task, Discovered(t) PROVE KeepsOrRevises(d)
    <3>1. CASE slot[d] = None
      BY <3>1 DEF KeepsOrRevises
    <3>2. CASE DiscoverFails(t)
      BY <3>2, SlotsUntouched DEF DiscoverFails, viewVars
    <3> QED
      BY <1>1, <2>3, <3>1, <3>2, DiscoverRevises DEF Discovered
  <2>4. ASSUME NEW t \in Task, Built(t) PROVE KeepsOrRevises(d)
    <3>1. CASE slot[d] = None
      BY <3>1 DEF KeepsOrRevises
    <3>2. CASE BuildFails(t)
      BY <3>2, SlotsUntouched DEF BuildFails, slotVars
    <3> QED
      BY <1>1, <2>4, <3>1, <3>2, BuildRevises DEF Built
  <2>5. ASSUME NEW t \in Task, Drop(t) PROVE KeepsOrRevises(d)
    BY <2>5, SlotsUntouched DEF Drop
  <2> QED
    BY <1>1, <2>1, <2>2, <2>3, <2>4, <2>5 DEF Next
<1>2. IInv /\ [Next]_vars => [\A d \in DestinationId : KeepsOrRevises(d)]_vars
  BY <1>1
<1> QED
  BY <1>2, AlwaysIInv, PTL DEF Spec, ReplacedOnlyWhenChanged, KeepsOrRevises
------------------------------------------------------------------------------
(***************************************************************************)
(* SystemContextStore implements AtomicStore.  A call of the store maps to *)
(* the beginning of an atomic one; getting a lock and starting to connect  *)
(* or build map to stutters; and a step that returns maps to the atomic    *)
(* call, because by IInv what its task found missing is missing still.     *)
(***************************************************************************)

\* A view lies in a slot of its context's map, as a task that fills it knows.
ViewsListed ==
    /\ \A c \in Ctx, p \in ProjectRoot : viewSlot[c][p] # None => p \in viewSlots[c]
    /\ \A t \in Task : at[t] \in {"upsert_view", "build"} =>
                          arg[t].project \in viewSlots[arg[t].ctx]

\* There are no views and no calls to begin with.
LEMMA InitViewsListed == Init => ViewsListed
BY DEF Init, ViewsListed

\* Steps that fill no view slot, empty none of the maps, and leave the other
\* tasks' calls alone, keep every view in its map.
LEMMA ViewsStayListed ==
    ASSUME IInv, ViewsListed, NEW t \in Task,
           viewSlot' = viewSlot,
           \A c \in Ctx : viewSlots[c] \subseteq viewSlots'[c],
           \A u \in Task : u # t => at'[u] = at[u] /\ arg'[u] = arg[u],
           at'[t] \in {"upsert_view", "build"} =>
              arg'[t].project \in viewSlots'[arg'[t].ctx]
    PROVE  ViewsListed'
<1>1. \A u \in Task : at[u] \in {"upsert_view", "build"} => arg[u].ctx \in Ctx
  BY DEF IInv, ArgsFit
<1> QED
  BY <1>1 DEF ViewsListed

\* No step takes a view out of its context's map.
LEMMA ViewsListedStep == IInv /\ ViewsListed /\ [Next]_vars => ViewsListed'
<1> SUFFICES ASSUME IInv, ViewsListed, [Next]_vars PROVE ViewsListed'
  OBVIOUS
<1>0. TypeOK /\ ArgsFit
  BY DEF IInv
<1>1. ASSUME NEW t \in Task, Call(t) PROVE ViewsListed'
  <2>1. ASSUME NEW d \in DestinationId, Get(t, d) PROVE ViewsListed'
    BY <1>0, <2>1, ViewsStayListed DEF Get, TypeOK, slotVars, viewVars
  <2>2. ASSUME NEW d \in DestinationId, NEW f \in Configs[d], Upsert(t, d, f)
        PROVE  ViewsListed'
    BY <1>0, <2>2, ViewsStayListed DEF Upsert, TypeOK, viewVars
  <2>3. ASSUME NEW c \in Ctx, NEW p \in ProjectRoot, LookView(t, c, p) PROVE ViewsListed'
    BY <1>0, <2>3, ViewsStayListed DEF LookView, TypeOK, slotVars, viewVars
  <2>4. ASSUME NEW c \in Ctx, NEW p \in ProjectRoot, NEW m \in MountConfigs,
               UpsertView(t, c, p, m)
        PROVE  ViewsListed'
    <3>1. /\ arg'[t].ctx = c /\ arg'[t].project = p /\ p \in viewSlots'[c]
          /\ \A e \in Ctx : viewSlots[e] \subseteq viewSlots'[e]
      BY <1>0, <2>4 DEF UpsertView, TypeOK, NoArg
    <3> QED
      BY <1>0, <2>4, <3>1, ViewsStayListed DEF UpsertView, TypeOK
  <2> QED
    BY <1>1, <2>1, <2>2, <2>3, <2>4 DEF Call
<1>2. ASSUME NEW t \in Task, Proceed(t) PROVE ViewsListed'
  <2>1. UNCHANGED <<viewSlots, viewSlot, arg>>
    BY <1>2 DEF Proceed, GetSlot, UpsertHits, TransportFails, StartDiscover, LookViewSlot,
                UpsertViewHits, MountsFail, StartBuild, Return, Suspend, slotVars, viewVars
  <2>2. /\ \A u \in Task : u # t => at'[u] = at[u]
        /\ at'[t] \in {"upsert_view", "build"} => at[t] = "upsert_view"
    BY <1>0, <1>2 DEF Proceed, GetSlot, UpsertHits, TransportFails, StartDiscover,
                LookViewSlot, UpsertViewHits, MountsFail, StartBuild, Return, Suspend, TypeOK
  <2> QED
    BY <2>1, <2>2, ViewsStayListed DEF ViewsListed
<1>3. ASSUME NEW t \in Task, NEW c \in Ctx, DiscoverSucceeds(t, c) PROVE ViewsListed'
  <2>1. /\ \A p \in ProjectRoot : viewSlot'[c][p] = None
        /\ \A e \in Ctx : e # c => viewSlot'[e] = viewSlot[e] /\ viewSlots'[e] = viewSlots[e]
        /\ at'[t] = "idle" /\ arg' = arg
        /\ \A u \in Task : u # t => at'[u] = at[u]
    BY <1>0, <1>3 DEF DiscoverSucceeds, Return, TypeOK
  <2>2. \A u \in Task : arg[u].ctx # c
    BY <1>3 DEF DiscoverSucceeds, InUse, Held
  <2>3. \A u \in Task : at[u] \in {"upsert_view", "build"} => arg[u].ctx \in Ctx
    BY <1>0 DEF ArgsFit
  <2> QED
    BY <2>1, <2>2, <2>3 DEF ViewsListed
<1>4. ASSUME NEW t \in Task, DiscoverFails(t) \/ BuildFails(t) PROVE ViewsListed'
  BY <1>0, <1>4, ViewsStayListed DEF DiscoverFails, BuildFails, Return, TypeOK, viewVars
<1>5. ASSUME NEW t \in Task, BuildSucceeds(t) PROVE ViewsListed'
  <2>1. /\ arg[t].ctx \in Ctx /\ arg[t].project \in ProjectRoot
        /\ arg[t].project \in viewSlots[arg[t].ctx]
    BY <1>0, <1>5 DEF ArgsFit, BuildSucceeds, ViewsListed
  <2>2. /\ viewSlots' = viewSlots /\ arg' = arg /\ at'[t] = "idle"
        /\ \A u \in Task : u # t => at'[u] = at[u]
        /\ \A c \in Ctx, p \in ProjectRoot :
              <<c, p>> # <<arg[t].ctx, arg[t].project>> => viewSlot'[c][p] = viewSlot[c][p]
    BY <1>0, <1>5, <2>1 DEF BuildSucceeds, Return, TypeOK
  <2> QED
    BY <2>1, <2>2 DEF ViewsListed
<1>6. ASSUME NEW t \in Task, Drop(t) PROVE ViewsListed'
  BY <1>0, <1>6, ViewsStayListed DEF Drop, TypeOK
<1>7. ASSUME UNCHANGED vars PROVE ViewsListed'
  BY <1>7 DEF vars, viewVars, ViewsListed
<1> QED
  BY <1>1, <1>2, <1>3, <1>4, <1>5, <1>6, <1>7 DEF Next, Discovered, Built
\* What is refused is never started: a task connects with a transport that was
\* built, and builds with mounts that were.
FillsUsable ==
    \A t \in Task : /\ at[t] = "discover" => arg[t].config \notin BadTransport
                    /\ at[t] = "build" => arg[t].mounts \notin BadMounts

\* Only StartDiscover and StartBuild lead there, and arguments stay as they are.
LEMMA FillsUsableStep == IInv /\ FillsUsable /\ [Next]_vars => FillsUsable'
<1> SUFFICES ASSUME IInv, FillsUsable, [Next]_vars PROVE FillsUsable'
  OBVIOUS
<1>0. TypeOK
  BY DEF IInv
<1>1. ASSUME NEW t \in Task, Call(t) \/ Drop(t) PROVE FillsUsable'
  <2>1. /\ at'[t] \notin {"discover", "build"}
        /\ \A u \in Task : u # t => at'[u] = at[u] /\ arg'[u] = arg[u]
    BY <1>0, <1>1 DEF Call, Get, Upsert, LookView, UpsertView, Drop, TypeOK
  <2> QED
    BY <2>1 DEF FillsUsable
<1>2. ASSUME NEW t \in Task, Proceed(t) \/ Discovered(t) \/ Built(t) PROVE FillsUsable'
  <2>1. /\ at'[t] = "discover" => arg[t].config \notin BadTransport
        /\ at'[t] = "build" => arg[t].mounts \notin BadMounts
        /\ arg' = arg /\ \A u \in Task : u # t => at'[u] = at[u]
    BY <1>0, <1>2
       DEF Proceed, GetSlot, UpsertHits, TransportFails, StartDiscover, LookViewSlot,
           UpsertViewHits, MountsFail, StartBuild, Discovered, DiscoverSucceeds,
           DiscoverFails, Built, BuildSucceeds, BuildFails, Return, Suspend, TypeOK
  <2> QED
    BY <2>1 DEF FillsUsable
<1>3. ASSUME UNCHANGED vars PROVE FillsUsable'
  BY <1>3 DEF vars, FillsUsable
<1> QED
  BY <1>1, <1>2, <1>3 DEF Next
------------------------------------------------------------------------------
(* How steps map *)

\* A task that suspends is pending in the abstract store, one that returns is not.
LEMMA PendingBegins ==
    ASSUME TypeOK, NEW t \in Task,
           NEW w \in {"get", "upsert", "view", "upsert_view"}, at' = [at EXCEPT ![t] = w]
    PROVE  Pending' = [Pending EXCEPT ![t] = TRUE]
<1>1. \A u \in Task : at'[u] = IF u = t THEN w ELSE at[u]
  BY DEF TypeOK
<1>2. w # "idle"
  OBVIOUS
<1> QED
  BY <1>1, <1>2 DEF Pending

LEMMA PendingEnds ==
    ASSUME TypeOK, NEW t \in Task, at' = [at EXCEPT ![t] = "idle"]
    PROVE  Pending' = [Pending EXCEPT ![t] = FALSE]
<1>1. \A u \in Task : at'[u] = IF u = t THEN "idle" ELSE at[u]
  BY DEF TypeOK
<1> QED
  BY <1>1 DEF Pending

\* The contexts in use are the same in both stores.
LEMMA SameUse == Atomic!NoArg = NoArg /\ Atomic!InUse = InUse
                   /\ \A t \in Task : Atomic!Held(t) = Held(t)
BY DEF Atomic!NoArg, NoArg, Atomic!InUse, InUse, Atomic!Held, Held

\* A call begins in both stores at once; one that finds no slot returns at once.
LEMMA CallMaps ==
    ASSUME IInv, ViewsListed, NEW t \in Task, Call(t) PROVE Atomic!Call(t)
<1>0. TypeOK
  BY DEF IInv
<1>1. ASSUME NEW d \in DestinationId, Get(t, d) PROVE Atomic!Call(t)
  <2>1. CASE d \in slots
    <3>1. at' = [at EXCEPT ![t] = "get"]
      BY <1>1, <2>1 DEF Get
    <3>2. Pending' = [Pending EXCEPT ![t] = TRUE]
      BY <1>0, <3>1, PendingBegins
    <3> QED
      BY <1>1, <3>2, SameUse
         DEF Get, slotVars, viewVars, Atomic!Call, Atomic!Begin, Atomic!store, Pending
  <2>2. CASE d \notin slots
    <3>1. at' = at /\ slot[d] = None
      BY <1>0, <1>1, <2>2 DEF Get, TypeOK
    <3>2. Pending' = Pending
      BY <3>1 DEF Pending
    <3> QED
      BY <1>1, <3>1, <3>2, SameUse
         DEF Get, slotVars, viewVars, Atomic!Call, Atomic!Begin, Atomic!store, Pending
  <2> QED
    BY <2>1, <2>2
<1>2. ASSUME NEW d \in DestinationId, NEW f \in Configs[d], Upsert(t, d, f)
      PROVE  Atomic!Call(t)
  <2>1. Pending' = [Pending EXCEPT ![t] = TRUE]
    BY <1>0, <1>2, PendingBegins DEF Upsert
  <2> QED
    BY <1>2, <2>1, SameUse
       DEF Upsert, viewVars, Atomic!Call, Atomic!Begin, Atomic!store, Pending
<1>3. ASSUME NEW c \in Ctx, NEW p \in ProjectRoot, LookView(t, c, p) PROVE Atomic!Call(t)
  <2>1. CASE p \in viewSlots[c]
    <3>1. at' = [at EXCEPT ![t] = "view"]
      BY <1>3, <2>1 DEF LookView
    <3>2. Pending' = [Pending EXCEPT ![t] = TRUE]
      BY <1>0, <3>1, PendingBegins
    <3> QED
      BY <1>3, <3>2, SameUse
         DEF LookView, slotVars, viewVars, Atomic!Call, Atomic!Begin, Atomic!store, Pending
  <2>2. CASE p \notin viewSlots[c]
    <3>1. at' = at /\ viewSlot[c][p] = None
      BY <1>0, <1>3, <2>2 DEF LookView, TypeOK, ViewsListed
    <3>2. Pending' = Pending
      BY <3>1 DEF Pending
    <3> QED
      BY <1>3, <3>1, <3>2, SameUse
         DEF LookView, slotVars, viewVars, Atomic!Call, Atomic!Begin, Atomic!store, Pending
  <2> QED
    BY <2>1, <2>2
<1>4. ASSUME NEW c \in Ctx, NEW p \in ProjectRoot, NEW m \in MountConfigs,
             UpsertView(t, c, p, m)
      PROVE  Atomic!Call(t)
  <2>1. Pending' = [Pending EXCEPT ![t] = TRUE]
    BY <1>0, <1>4, PendingBegins DEF UpsertView
  <2> QED
    BY <1>4, <2>1, SameUse
       DEF UpsertView, slotVars, Atomic!Call, Atomic!Begin, Atomic!store, Pending
<1> QED
  BY <1>1, <1>2, <1>3, <1>4 DEF Call

\* A return maps to a return.
LEMMA ReturnMaps ==
    ASSUME TypeOK, NEW t \in Task, NEW v, at[t] # "idle", Return(t, v)
    PROVE  Atomic!Return(t, v)
<1>1. Pending' = [Pending EXCEPT ![t] = FALSE]
  BY PendingEnds DEF Return
<1> QED
  BY <1>1 DEF Return, Atomic!Return, Pending

\* With its lock a task returns what is in the slot, fails, or starts to fill it;
\* the last changes nothing that shows.
LEMMA ProceedMaps ==
    ASSUME IInv, NEW t \in Task, Proceed(t) PROVE [Atomic!Next]_(Atomic!vars)
<1>0. TypeOK /\ ArgsFit
  BY DEF IInv
<1>1. ASSUME GetSlot(t) PROVE Atomic!GetReturns(t)
  BY <1>0, <1>1, ReturnMaps
     DEF GetSlot, ArgsFit, Atomic!GetReturns, Atomic!store, slotVars, viewVars
<1>2. ASSUME UpsertHits(t) PROVE Atomic!UpsertReturns(t)
  BY <1>0, <1>2, ReturnMaps
     DEF UpsertHits, ContextFits, ArgsFit, Atomic!UpsertReturns, Atomic!Connected,
         Atomic!store, slotVars, viewVars
<1>3. ASSUME TransportFails(t) PROVE Atomic!UpsertReturns(t)
  BY <1>0, <1>3, ReturnMaps
     DEF TransportFails, ContextFits, ArgsFit, Atomic!UpsertReturns, Atomic!Connected,
         Atomic!store, slotVars, viewVars
<1>4. ASSUME LookViewSlot(t) PROVE Atomic!ViewReturns(t)
  BY <1>0, <1>4, ReturnMaps
     DEF LookViewSlot, ViewInSlot, ArgsFit, Atomic!ViewReturns, Atomic!store,
         slotVars, viewVars
<1>5. ASSUME UpsertViewHits(t) PROVE Atomic!UpsertViewReturns(t)
  BY <1>0, <1>5, ReturnMaps
     DEF UpsertViewHits, ViewFits, ViewInSlot, ArgsFit, Atomic!UpsertViewReturns,
         Atomic!Browsable, Atomic!store, slotVars, viewVars
<1>6. ASSUME MountsFail(t) PROVE Atomic!UpsertViewReturns(t)
  BY <1>0, <1>6, ReturnMaps
     DEF MountsFail, ViewFits, ViewInSlot, ArgsFit, Atomic!UpsertViewReturns,
         Atomic!Browsable, Atomic!store, slotVars, viewVars
<1>7. ASSUME StartDiscover(t) \/ StartBuild(t) PROVE UNCHANGED Atomic!vars
  <2>1. \A u \in Task : (at'[u] # "idle") <=> (at[u] # "idle")
    BY <1>0, <1>7 DEF StartDiscover, StartBuild, Suspend, TypeOK
  <2>2. Pending' = Pending
    BY <2>1 DEF Pending
  <2> QED
    BY <1>7, <2>2
       DEF StartDiscover, StartBuild, Suspend, slotVars, viewVars, Atomic!vars, Atomic!store
<1> QED
  BY <1>1, <1>2, <1>3, <1>4, <1>5, <1>6, <1>7 DEF Proceed, Atomic!Next

\* A backend's answer maps to the return of the call that waited for it: by
\* NothingBuiltTwice the slot still lacks what was asked for.
LEMMA AnswerMaps ==
    ASSUME IInv, FillsUsable, NEW t \in Task, Discovered(t) \/ Built(t)
    PROVE  Atomic!Next
<1>0. TypeOK /\ ArgsFit /\ NothingBuiltTwice
  BY DEF IInv
<1>1. ASSUME NEW c \in Ctx, DiscoverSucceeds(t, c) PROVE Atomic!UpsertReturns(t)
  <2>1. arg[t].op = "upsert" /\ ~Atomic!Connected(t)
    BY <1>0, <1>1 DEF DiscoverSucceeds, ArgsFit, NothingBuiltTwice, ContextFits,
                      Atomic!Connected
  <2>2. Atomic!Return(t, c)
    BY <1>0, <1>1, ReturnMaps DEF DiscoverSucceeds
  <2>3. c \in Ctx \ Atomic!InUse /\ arg[t].config \notin BadTransport
    BY <1>1, SameUse DEF DiscoverSucceeds, FillsUsable
  <2> QED
    BY <1>1, <2>1, <2>2, <2>3 DEF DiscoverSucceeds, Atomic!UpsertReturns
<1>2. ASSUME DiscoverFails(t) PROVE Atomic!UpsertReturns(t)
  BY <1>0, <1>2, ReturnMaps
     DEF DiscoverFails, ArgsFit, NothingBuiltTwice, ContextFits, Atomic!Connected,
         Atomic!UpsertReturns, Atomic!store, viewVars
<1>3. ASSUME BuildSucceeds(t) PROVE Atomic!UpsertViewReturns(t)
  <2> DEFINE view == [client |-> context[arg[t].ctx].client, mounts |-> arg[t].mounts]
  <2>1. arg[t].op = "upsert_view" /\ ~Atomic!Browsable(t)
    BY <1>0, <1>3 DEF BuildSucceeds, ArgsFit, NothingBuiltTwice, ViewFits, ViewInSlot,
                      Atomic!Browsable
  <2>2. Atomic!Return(t, view)
    BY <1>0, <1>3, ReturnMaps DEF BuildSucceeds
  <2>3. arg[t].mounts \notin BadMounts
    BY <1>3 DEF BuildSucceeds, FillsUsable
  <2>4. /\ viewSlot' = [viewSlot EXCEPT ![arg[t].ctx][arg[t].project] = view]
        /\ UNCHANGED <<slot, context>>
    BY <1>3 DEF BuildSucceeds, slotVars
  <2> QED
    BY <2>1, <2>2, <2>3, <2>4 DEF Atomic!UpsertViewReturns
<1>4. ASSUME BuildFails(t) PROVE Atomic!UpsertViewReturns(t)
  BY <1>0, <1>4, ReturnMaps
     DEF BuildFails, ArgsFit, NothingBuiltTwice, ViewFits, ViewInSlot,
         Atomic!Browsable, Atomic!UpsertViewReturns, Atomic!store, slotVars
<1> QED
  BY <1>1, <1>2, <1>3, <1>4 DEF Discovered, Built, Atomic!Next

\* A dropped future takes its call back in both stores.
LEMMA DropMaps == ASSUME IInv, NEW t \in Task, Drop(t) PROVE Atomic!Next
<1>1. Pending' = [Pending EXCEPT ![t] = FALSE]
  BY PendingEnds DEF IInv, Drop
<1> QED
  BY <1>1, SameUse DEF Drop, Atomic!Drop, Atomic!Next, Atomic!store
------------------------------------------------------------------------------
\* The store answers each call as if it took place in the one step in which it
\* returns, for any number of tasks and whatever they wait for.
THEOREM ImplementsAtomicStore == Spec => AnswersAtomically
<1>1. Init => Atomic!Init
  BY SameUse DEF Init, Atomic!Init, Pending
<1>2. ASSUME IInv, ViewsListed, FillsUsable, [Next]_vars PROVE [Atomic!Next]_(Atomic!vars)
  <2>1. ASSUME UNCHANGED vars PROVE UNCHANGED Atomic!vars
    BY <2>1 DEF vars, slotVars, viewVars, Atomic!vars, Atomic!store, Pending
  <2>2. ASSUME NEW t \in Task, Call(t) PROVE Atomic!Next
    BY <1>2, <2>2, CallMaps DEF Atomic!Next
  <2> QED
    BY <1>2, <2>1, <2>2, ProceedMaps, AnswerMaps, DropMaps DEF Next
<1>3. Spec => []ViewsListed
  BY InitViewsListed, ViewsListedStep, AlwaysIInv, PTL DEF Spec
<1>4. Init => FillsUsable
  BY DEF Init, FillsUsable
<1>5. Spec => []FillsUsable
  BY <1>4, FillsUsableStep, AlwaysIInv, PTL DEF Spec
<1> QED
  BY <1>1, <1>2, <1>3, <1>5, AlwaysIInv, PTL DEF Spec, AnswersAtomically, Atomic!Spec
==============================================================================
