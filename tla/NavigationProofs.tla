---------------------------- MODULE NavigationProofs ----------------------------
(***************************************************************************)
(* What navigation shows its clients, for any sets of tasks, destinations, *)
(* projects, configurations and contexts, whatever users do to the files   *)
(* and however often the process is killed.                                *)
(*                                                                         *)
(* Core is the part of the inductive invariant that needs no history: the  *)
(* store's own, and that each stage of a handler has in hand what it asked *)
(* the store for.  LoadedNow and MissedThen relate what it has in hand to  *)
(* the two histories.                                                      *)
(***************************************************************************)
EXTENDS Navigation, SystemContextStoreProofs

\* A project's file holds one of the lists users put into it, a destination's one of
\* the revisions it goes through.
FilesOK ==
    /\ projectFile \in [ProjectRoot -> MountConfigs \cup {Missing}]
    /\ \A p \in ProjectRoot : projectFile[p] \in ProjectFiles[p]
    /\ destinationFile \in [DestinationId -> DestinationConfig \cup {Missing}]
    /\ \A d \in DestinationId :
          destinationFile[d] # Missing => destinationFile[d] \in Configs[d]

\* The parameters a handler works with, by stage.
RequestFits(t) ==
    /\ stage[t] # "none" => request[t] \in Request
    /\ stage[t] \in {"get", "view", "project"} => request[t].mounts = None
    /\ stage[t] \in {"get", "view"} => ~RootRefresh(t)
    /\ stage[t] \in Loading \ {"project"} => request[t].mounts # None
    /\ stage[t] = "walk" /\ RootRefresh(t) => request[t].mounts # None

\* The call of the store a handler waits for, or has the answer of.
CallFits(t) ==
    /\ at[t] # "idle" => stage[t] \in {"get", "view", "upsert", "upsert_view"}
    /\ stage[t] = "get" => arg[t].op = "get" /\ arg[t].id = request[t].id
    /\ stage[t] = "view" => /\ arg[t].op = "view" /\ arg[t].project = Root[t]
                            /\ arg[t].ctx \in Ctx
                            /\ at[t] = "idle" => answer[t] \in View \cup {None}
    /\ stage[t] = "upsert" => arg[t].op = "upsert" /\ arg[t].id = request[t].id
    /\ stage[t] = "upsert_view" => /\ arg[t].op = "upsert_view"
                                   /\ arg[t].project = Root[t]
                                   /\ arg[t].mounts = request[t].mounts
                                   /\ arg[t].ctx \in Ctx
    /\ stage[t] = "walk" => answer[t] \in View

Core ==
    /\ IInv /\ ViewsListed
    /\ FilesOK
    /\ stage \in [Task -> Stages]
    /\ request \in [Task -> Request \cup {NoRequest}]
    /\ \A t \in Task : RequestFits(t) /\ CallFits(t)

------------------------------------------------------------------------------
(* Core: the store's part *)

\* What the code's configuration gives navigation to work with.
LEMMA Given ==
    /\ \A t \in Task : Root[t] \in ProjectRoot
    /\ Missing \notin DestinationConfig /\ Missing \notin MountConfigs
    /\ None \notin DestinationId /\ None \notin MountConfigs
    /\ \A a \in Asked : a[1] \in Path /\ a[2] \in BOOLEAN
BY NavigationAssumption, StoreAssumption DEF NavigationAssumption, StoreAssumption, Path

\* The process that starts again has the store it began with.
LEMMA WipeKeepsStore == Wipe => IInv' /\ ViewsListed'
<1>1. Wipe => Init'
  BY DEF Wipe, Init
<1>2. Init' => IInv' /\ ViewsListed'
  BY InitIInv, InitViewsListed, PTL
<1> QED
  BY <1>1, <1>2

\* So does a handler's future that is dropped leave the store in order.
LEMMA DropKeepsStore ==
    ASSUME IInv, ViewsListed, NEW t \in Task, Drop(t) PROVE IInv' /\ ViewsListed'
<1>1. at'[t] = "idle" /\ \A u \in Task : u # t => at'[u] = at[u] /\ arg'[u] = arg[u]
  BY DEF Drop, IInv, TypeOK
<1>2. viewSlot' = viewSlot /\ viewSlots' = viewSlots
  BY DEF Drop
<1> QED
  BY <1>1, <1>2, DropKeepsIInv, ViewsStayListed

\* The steps of navigation, whether or not histories are kept of them.
Step ==
    \/ \E t \in Task :
          \/ \E d \in DestinationId, a \in Asked : ReadDirectory(t, d, a[1], a[2])
          \/ Handle(t)
          \/ InStore(t)
          \/ CancelRequest(t)
    \/ \E p \in ProjectRoot : EditProject(p)
    \/ \E d \in DestinationId : EditDestination(d)
    \/ Wipe /\ UNCHANGED files

\* What navigation asks of the store is what the store was proved for.
LEMMA StepKeepsStore == Core /\ Step => IInv' /\ ViewsListed'
<1> SUFFICES ASSUME Core, Step PROVE IInv' /\ ViewsListed'
  OBVIOUS
<1>1. [Next]_vars => IInv' /\ ViewsListed'
  BY IInvStep, ViewsListedStep DEF Core
<1>2. UNCHANGED store => [Next]_vars
  BY DEF store, vars
<1>3. \A t \in Task : Call(t) \/ Proceed(t) \/ Discovered(t) \/ Built(t) => [Next]_vars
  BY DEF Next
<1>4. ASSUME NEW t \in Task, NEW d \in DestinationId, NEW a \in Asked,
             ReadDirectory(t, d, a[1], a[2])
      PROVE  [Next]_vars
  BY <1>2, <1>3, <1>4 DEF ReadDirectory, Call
<1>5. ASSUME NEW t \in Task, Handle(t) PROVE [Next]_vars \/ Drop(t)
  <2>1. CASE GotContext(t)
    <3>1. ASSUME LookView(t, answer[t], Root[t]) PROVE Call(t)
      BY <3>1, Given DEF LookView, Held, Call
    <3> QED
      BY <1>2, <1>3, <2>1, <3>1 DEF GotContext
  <2>2. CASE ReadDestination(t)
    <3>1. CASE UNCHANGED store
      BY <1>2, <3>1
    <3>2. CASE stage[t] = "destination" /\ destinationFile[request[t].id] # Missing
                 /\ Upsert(t, request[t].id, destinationFile[request[t].id])
      <4>1. request[t].id \in DestinationId
        BY <3>2 DEF Core, RequestFits, Request
      <4> QED
        BY <1>3, <3>2, <4>1 DEF Core, FilesOK, Call
    <3> QED
      BY <2>2, <3>1, <3>2 DEF ReadDestination
  <2>3. CASE Upserted(t)
    <3>1. CASE UNCHANGED store
      BY <1>2, <3>1
    <3>2. CASE stage[t] = "upsert"
                 /\ UpsertView(t, answer[t], Root[t], request[t].mounts)
      <4>1. request[t].mounts \in MountConfigs
        BY <3>2 DEF Core, RequestFits, Request, Loading
      <4> QED
        BY <1>3, <3>2, <4>1, Given DEF UpsertView, Held, Call
    <3> QED
      BY <2>3, <3>1, <3>2 DEF Upserted
  <2> QED
    BY <1>2, <1>5, <2>1, <2>2, <2>3
       DEF Handle, GotView, ReadProject, ReadUser, UpsertedView, Walk, RespondError, Finish
<1>6. ASSUME NEW t \in Task, CancelRequest(t) PROVE Drop(t)
  BY <1>6 DEF CancelRequest, Finish
<1>7. ASSUME NEW t \in Task, InStore(t) PROVE [Next]_vars
  BY <1>3, <1>7 DEF InStore
<1>8. ASSUME \/ \E p \in ProjectRoot : EditProject(p)
             \/ \E d \in DestinationId : EditDestination(d)
      PROVE  [Next]_vars
  BY <1>2, <1>8 DEF EditProject, EditDestination
<1> QED
  BY <1>1, <1>4, <1>5, <1>6, <1>7, <1>8, WipeKeepsStore, DropKeepsStore DEF Step, Core
------------------------------------------------------------------------------
(* Core: the handlers' part *)

\* A task that is not concerned by a step.
Apart(u) == /\ at'[u] = at[u] /\ arg'[u] = arg[u] /\ answer'[u] = answer[u]
            /\ stage'[u] = stage[u] /\ request'[u] = request[u]

HandlersOK ==
    /\ stage \in [Task -> Stages]
    /\ request \in [Task -> Request \cup {NoRequest}]
    /\ \A t \in Task : RequestFits(t) /\ CallFits(t)

\* What fits a handler goes on to fit it when others move.
LEMMA ApartFits ==
    ASSUME NEW u, RequestFits(u), CallFits(u), Apart(u)
    PROVE  RequestFits(u)' /\ CallFits(u)'
BY DEF RequestFits, CallFits, Apart, RootRefresh

\* So only the task that moves is to be looked at.
LEMMA OneMoves ==
    ASSUME Core, NEW t \in Task, \A u \in Task \ {t} : Apart(u),
           stage' \in [Task -> Stages], request' \in [Task -> Request \cup {NoRequest}],
           RequestFits(t)', CallFits(t)'
    PROVE  HandlersOK'
<1>1. \A u \in Task \ {t} : RequestFits(u)' /\ CallFits(u)'
  BY ApartFits DEF Core
<1> QED
  BY <1>1 DEF HandlersOK

\* A step of a handler concerns nobody else.
LEMMA OthersApart ==
    ASSUME Core, NEW t \in Task,
           \/ \E d \in DestinationId, a \in Asked : ReadDirectory(t, d, a[1], a[2])
           \/ Handle(t)
           \/ InStore(t)
           \/ CancelRequest(t)
    PROVE  \A u \in Task \ {t} : Apart(u)
<1>0. /\ at \in [Task -> {"idle", "get", "upsert", "discover", "view", "upsert_view", "build"}]
      /\ arg \in [Task -> Arg] /\ answer \in [Task -> Ctx \cup View \cup {None}]
      /\ stage \in [Task -> Stages] /\ request \in [Task -> Request \cup {NoRequest}]
  BY DEF Core, IInv, TypeOK
<1>1. ASSUME NEW d \in DestinationId, NEW a \in Asked, ReadDirectory(t, d, a[1], a[2])
      PROVE  \A u \in Task \ {t} : Apart(u)
  BY <1>0, <1>1 DEF ReadDirectory, Get, store, Apart
<1>2. ASSUME Handle(t) PROVE \A u \in Task \ {t} : Apart(u)
  BY <1>0, <1>2
     DEF Handle, GotContext, LookView, GotView, ReadProject, ReadUser, ReadDestination,
         Upsert, Upserted, UpsertView, UpsertedView, Walk, RespondError, Goto, Finish,
         Drop, store, Apart
<1>3. ASSUME InStore(t) PROVE \A u \in Task \ {t} : Apart(u)
  BY <1>0, <1>3
     DEF InStore, Proceed, GetSlot, UpsertHits, TransportFails, StartDiscover, LookViewSlot,
         UpsertViewHits, MountsFail, StartBuild, Discovered, DiscoverSucceeds,
         DiscoverFails, Built, BuildSucceeds, BuildFails, Return, Suspend, Apart
<1>4. ASSUME CancelRequest(t) PROVE \A u \in Task \ {t} : Apart(u)
  BY <1>0, <1>4 DEF CancelRequest, Finish, Drop, Apart
<1> QED
  BY <1>1, <1>2, <1>3, <1>4

\* A request begins with a root refresh, which loads, or with a lookup.
LEMMA ReadDirectoryKeepsHandlers ==
    ASSUME Core, NEW t \in Task, NEW d \in DestinationId, NEW a \in Asked,
           ReadDirectory(t, d, a[1], a[2])
    PROVE  HandlersOK'
<1> DEFINE r == [id |-> d, path |-> a[1], refresh |-> a[2], mounts |-> None]
<1>0. /\ TypeOK /\ stage[t] = "none" /\ stage \in [Task -> Stages]
      /\ request \in [Task -> Request \cup {NoRequest}] /\ CallFits(t)
  BY DEF Core, IInv, ReadDirectory
<1>1. r \in Request
  BY Given DEF Request
<1>2. request'[t] = r /\ request' \in [Task -> Request \cup {NoRequest}]
  BY <1>0, <1>1 DEF ReadDirectory
<1>3. \/ stage'[t] = "project" /\ at'[t] = "idle"
      \/ /\ stage'[t] = "get" /\ ~(a[2] /\ a[1] = Portal)
         /\ arg'[t].op = "get" /\ arg'[t].id = d /\ at'[t] \in {"idle", "get"}
  <2>1. CASE Reloads(a[1], a[2]) /\ stage' = [stage EXCEPT ![t] = "project"] /\ UNCHANGED store
    BY <1>0, <2>1 DEF CallFits, store
  <2>2. CASE ~Reloads(a[1], a[2]) /\ Get(t, d) /\ stage' = [stage EXCEPT ![t] = "get"]
    BY <1>0, <2>2 DEF Reloads, Get, TypeOK, NoArg
  <2> QED
    BY <2>1, <2>2 DEF ReadDirectory
<1>4. stage' \in [Task -> Stages]
  BY <1>0 DEF ReadDirectory, Stages, Loading
<1>5. RequestFits(t)' /\ CallFits(t)'
  BY <1>1, <1>2, <1>3 DEF RequestFits, CallFits, RootRefresh, Loading
<1>6. \A u \in Task \ {t} : Apart(u)
  BY OthersApart
<1> QED
  BY <1>2, <1>4, <1>5, <1>6, OneMoves

\* A request that is over has no parameters and no call.
LEMMA FinishKeepsHandlers ==
    ASSUME Core, NEW t \in Task, Finish(t), \A u \in Task \ {t} : Apart(u)
    PROVE  HandlersOK'
<1>1. /\ stage'[t] = "none" /\ at'[t] = "idle" /\ request'[t] = NoRequest
      /\ stage' \in [Task -> Stages] /\ request' \in [Task -> Request \cup {NoRequest}]
  BY DEF Core, IInv, TypeOK, Finish, Drop, Stages
<1>2. RequestFits(t)' /\ CallFits(t)'
  BY <1>1 DEF RequestFits, CallFits, Loading
<1> QED
  BY <1>1, <1>2, OneMoves

\* A handler that goes on without the store has what its next stage needs.
LEMMA GotoKeepsHandlers ==
    ASSUME Core, NEW t \in Task, NEW s \in Stages, \A u \in Task \ {t} : Apart(u),
           stage' = [stage EXCEPT ![t] = s], UNCHANGED request,
           RequestFits(t)', CallFits(t)'
    PROVE  HandlersOK'
<1>1. stage' \in [Task -> Stages] /\ request' \in [Task -> Request \cup {NoRequest}]
  BY DEF Core
<1> QED
  BY <1>1, OneMoves

\* Each stage leaves to the next what it needs.
LEMMA HandleKeepsHandlers ==
    ASSUME Core, NEW t \in Task, Handle(t) PROVE HandlersOK'
<1>0. /\ TypeOK /\ stage \in [Task -> Stages]
      /\ request \in [Task -> Request \cup {NoRequest}]
      /\ RequestFits(t) /\ CallFits(t)
      /\ \A u \in Task \ {t} : Apart(u)
  BY OthersApart DEF Core, IInv
<1>1. ASSUME NEW s \in {"project", "destination", "failed"}, Goto(t, s), UNCHANGED store,
             stage[t] # "none", at[t] = "idle",
             s = "project" => stage[t] \in {"get", "view"},
             s = "destination" => stage[t] = "user"
      PROVE  HandlersOK'
  <2>1. /\ stage' = [stage EXCEPT ![t] = s] /\ request' = request
        /\ stage'[t] = s /\ at'[t] = "idle" /\ s \in Stages
    BY <1>0, <1>1 DEF Goto, store, Stages, Loading
  <2>2. RequestFits(t)' /\ CallFits(t)'
    BY <1>0, <1>1, <2>1 DEF RequestFits, CallFits, RootRefresh, Loading
  <2> QED
    BY <1>0, <2>1, <2>2, GotoKeepsHandlers
<1>2. ASSUME Goto(t, "walk"), UNCHANGED store, at[t] = "idle", answer[t] \in View,
             stage[t] \in {"view", "upsert_view"}
      PROVE  HandlersOK'
  <2>1. /\ stage' = [stage EXCEPT ![t] = "walk"] /\ request' = request
        /\ stage'[t] = "walk" /\ at'[t] = "idle" /\ answer' = answer /\ "walk" \in Stages
    BY <1>0, <1>2 DEF Goto, store, Stages
  <2>2. RequestFits(t)' /\ CallFits(t)'
    BY <1>0, <1>2, <2>1 DEF RequestFits, CallFits, RootRefresh, Loading, Stages
  <2> QED
    BY <1>0, <2>1, <2>2, GotoKeepsHandlers
<1>3. CASE GotContext(t)
  <2>1. CASE stage[t] = "get" /\ at[t] = "idle" /\ Goto(t, "project") /\ UNCHANGED store
    BY <1>1, <2>1 DEF Stages, Loading
  <2>2. CASE stage[t] = "get" /\ LookView(t, answer[t], Root[t]) /\ Goto(t, "view")
    <3>1. /\ arg'[t].op = "view" /\ arg'[t].ctx = answer[t] /\ answer[t] \in Ctx
          /\ arg'[t].project = Root[t] /\ answer'[t] = None /\ at'[t] \in {"view", "idle"}
      BY <1>0, <2>2 DEF LookView, Held, TypeOK, NoArg
    <3>2. /\ stage' = [stage EXCEPT ![t] = "view"] /\ request' = request
          /\ stage'[t] = "view" /\ "view" \in Stages
      BY <1>0, <2>2 DEF Goto, Stages
    <3>3. RequestFits(t)' /\ CallFits(t)'
      BY <1>0, <2>2, <3>1, <3>2 DEF RequestFits, CallFits, RootRefresh, Loading
    <3> QED
      BY <1>0, <3>2, <3>3, GotoKeepsHandlers
  <2> QED
    BY <1>3, <2>1, <2>2 DEF GotContext
<1>4. CASE GotView(t)
  <2>1. CASE answer[t] = None
    BY <1>1, <1>4, <2>1 DEF GotView, Stages, Loading
  <2>2. CASE answer[t] # None
    BY <1>0, <1>2, <1>4, <2>2 DEF GotView, CallFits
  <2> QED
    BY <2>1, <2>2
<1>5. CASE ReadProject(t)
  <2>0. stage[t] = "project" /\ at[t] = "idle"
    BY <1>0, <1>5 DEF ReadProject, CallFits
  <2>1. CASE Goto(t, "failed") /\ UNCHANGED store
    BY <1>1, <2>0, <2>1 DEF Stages
  <2>2. CASE /\ projectFile[Root[t]] # Missing
             /\ request' = [request EXCEPT ![t].mounts = projectFile[Root[t]]]
             /\ stage' = [stage EXCEPT ![t] = "user"]
             /\ UNCHANGED store
    <3>1. projectFile[Root[t]] \in MountConfigs
      BY <2>2, Given DEF Core, FilesOK
    <3>2. request[t] \in Request
      BY <1>0, <2>0 DEF RequestFits
    <3>3. /\ request'[t] \in Request /\ request'[t].mounts = projectFile[Root[t]]
          /\ request' \in [Task -> Request \cup {NoRequest}]
      BY <1>0, <2>2, <3>1, <3>2 DEF Request
    <3>4. stage'[t] = "user" /\ stage' \in [Task -> Stages] /\ at'[t] = "idle"
      BY <1>0, <2>0, <2>2 DEF Stages, Loading, store
    <3>5. RequestFits(t)' /\ CallFits(t)'
      BY <3>1, <3>3, <3>4, Given DEF RequestFits, CallFits, Loading
    <3> QED
      BY <1>0, <3>3, <3>4, <3>5, OneMoves
  <2> QED
    BY <1>5, <2>1, <2>2 DEF ReadProject
<1>6. CASE ReadUser(t)
  <2>1. stage[t] = "user" /\ at[t] = "idle"
    BY <1>0, <1>6 DEF ReadUser, CallFits
  <2> QED
    BY <1>1, <1>6, <2>1 DEF ReadUser, Stages, Loading
<1>7. CASE ReadDestination(t)
  <2> DEFINE config == destinationFile[request[t].id]
  <2>0. stage[t] = "destination" /\ at[t] = "idle"
    BY <1>0, <1>7 DEF ReadDestination, CallFits
  <2>1. CASE Goto(t, "failed") /\ UNCHANGED store
    BY <1>1, <2>0, <2>1 DEF Stages
  <2>2. CASE Upsert(t, request[t].id, config) /\ Goto(t, "upsert")
    <3>1. arg'[t].op = "upsert" /\ arg'[t].id = request[t].id
      BY <1>0, <2>2 DEF Upsert, TypeOK, NoArg
    <3>2. /\ stage' = [stage EXCEPT ![t] = "upsert"] /\ request' = request
          /\ stage'[t] = "upsert" /\ "upsert" \in Stages
      BY <1>0, <2>2 DEF Goto, Stages, Loading
    <3>3. RequestFits(t)' /\ CallFits(t)'
      BY <1>0, <2>0, <3>1, <3>2 DEF RequestFits, CallFits, RootRefresh, Loading
    <3> QED
      BY <1>0, <3>2, <3>3, GotoKeepsHandlers
  <2> QED
    BY <1>7, <2>1, <2>2 DEF ReadDestination
<1>8. CASE Upserted(t)
  <2>0. stage[t] = "upsert" /\ at[t] = "idle"
    BY <1>8 DEF Upserted
  <2>1. CASE Goto(t, "failed") /\ UNCHANGED store
    BY <1>1, <2>0, <2>1 DEF Stages
  <2>2. CASE UpsertView(t, answer[t], Root[t], request[t].mounts) /\ Goto(t, "upsert_view")
    <3>1. /\ arg'[t].op = "upsert_view" /\ arg'[t].project = Root[t]
          /\ arg'[t].mounts = request[t].mounts
          /\ arg'[t].ctx = answer[t] /\ answer[t] \in Ctx
      BY <1>0, <2>2 DEF UpsertView, Held, TypeOK, NoArg
    <3>2. /\ stage' = [stage EXCEPT ![t] = "upsert_view"] /\ request' = request
          /\ stage'[t] = "upsert_view" /\ "upsert_view" \in Stages
      BY <1>0, <2>2 DEF Goto, Stages, Loading
    <3>3. RequestFits(t)' /\ CallFits(t)'
      BY <1>0, <2>0, <3>1, <3>2 DEF RequestFits, CallFits, RootRefresh, Loading
    <3> QED
      BY <1>0, <3>2, <3>3, GotoKeepsHandlers
  <2> QED
    BY <1>8, <2>1, <2>2 DEF Upserted
<1>9. CASE UpsertedView(t)
  <2>0. stage[t] = "upsert_view" /\ at[t] = "idle" /\ UNCHANGED store
    BY <1>9 DEF UpsertedView
  <2>1. CASE answer[t] = None
    BY <1>1, <1>9, <2>0, <2>1 DEF UpsertedView, Stages
  <2>2. CASE answer[t] # None
    <3>1. /\ answer[t] = [client |-> context[arg[t].ctx].client, mounts |-> arg[t].mounts]
          /\ arg[t].ctx \in Ctx /\ arg[t].mounts \in MountConfigs
      BY <1>0, <2>0, <2>2 DEF Core, IInv, UpsertViewFits, CallFits, RequestFits, Request, Loading
    <3>2. context[arg[t].ctx] \in Context
      BY <1>0, <3>1 DEF Core, IInv, HeldExist, Held, TypeOK
    <3>3. answer[t] \in View
      BY <3>1, <3>2 DEF View, Context
    <3> QED
      BY <1>2, <1>9, <2>0, <2>2, <3>3 DEF UpsertedView
  <2> QED
    BY <2>1, <2>2
<1>10. CASE Walk(t)
  <2>1. stage[t] = "walk" /\ at[t] = "idle"
    BY <1>0, <1>10 DEF Walk, CallFits
  <2> QED
    BY <1>0, <1>1, <1>10, <2>1, FinishKeepsHandlers DEF Walk, Stages
<1>11. CASE RespondError(t)
  BY <1>0, <1>11, FinishKeepsHandlers DEF RespondError
<1> QED
  BY <1>3, <1>4, <1>5, <1>6, <1>7, <1>8, <1>9, <1>10, <1>11 DEF Handle

\* The store answers the call the handler waits for.
LEMMA InStoreKeepsHandlers ==
    ASSUME Core, NEW t \in Task, InStore(t) PROVE HandlersOK'
<1>0. /\ TypeOK /\ ArgsFit /\ RequestFits(t) /\ CallFits(t)
      /\ stage' = stage /\ request' = request
      /\ stage \in [Task -> Stages] /\ request \in [Task -> Request \cup {NoRequest}]
  BY DEF Core, IInv, InStore
<1>1. at[t] # "idle" /\ arg' = arg
  BY DEF InStore, Proceed, GetSlot, UpsertHits, TransportFails, StartDiscover, LookViewSlot,
         UpsertViewHits, MountsFail, StartBuild, Discovered, DiscoverSucceeds,
         DiscoverFails, Built, BuildSucceeds, BuildFails, Return, Suspend
<1>2. ASSUME stage[t] = "view" PROVE answer'[t] \in View \cup {None}
  <2>1. LookViewSlot(t)
    BY <1>0, <1>2 DEF InStore, Proceed, GetSlot, UpsertHits, TransportFails, StartDiscover,
         UpsertViewHits, MountsFail, StartBuild, Discovered, DiscoverSucceeds,
         DiscoverFails, Built, BuildSucceeds, BuildFails, ArgsFit, CallFits
  <2>2. arg[t].ctx \in Ctx /\ arg[t].project \in ProjectRoot
    BY <1>0, <2>1 DEF LookViewSlot, ArgsFit
  <2> QED
    BY <1>0, <2>1, <2>2 DEF LookViewSlot, Return, ViewInSlot, TypeOK
<1>3. RequestFits(t)'
  BY <1>0 DEF RequestFits, RootRefresh
<1>4. CallFits(t)'
  BY <1>0, <1>1, <1>2 DEF CallFits
<1> QED
  BY <1>0, <1>3, <1>4, OthersApart, OneMoves
------------------------------------------------------------------------------
(* Core: all of it *)

\* Files are only ever edited to what they may hold.
LEMMA StepKeepsFiles == Core /\ Step => FilesOK'
<1> SUFFICES ASSUME Core, Step PROVE FilesOK'
  OBVIOUS
<1>1. CASE UNCHANGED files
  BY <1>1 DEF files, Core, FilesOK
<1>2. ASSUME NEW p \in ProjectRoot, EditProject(p) PROVE FilesOK'
  BY <1>2, NavigationAssumption DEF EditProject, NavigationAssumption, Core, FilesOK
<1>3. ASSUME NEW d \in DestinationId, EditDestination(d) PROVE FilesOK'
  BY <1>3, NavigationAssumption DEF EditDestination, NavigationAssumption, Core, FilesOK
<1> QED
  BY <1>1, <1>2, <1>3
     DEF Step, ReadDirectory, Handle, GotContext, GotView, ReadProject, ReadUser,
         ReadDestination, Upserted, UpsertedView, Walk, RespondError, InStore,
         CancelRequest, Goto, Finish, files

\* A step of navigation keeps Core; and so does one that leaves it alone.
LEMMA StepKeepsCore == Core /\ (Step \/ UNCHANGED <<store, files, stage, request>>) => Core'
<1> SUFFICES ASSUME Core, Step \/ UNCHANGED <<store, files, stage, request>> PROVE Core'
  OBVIOUS
<1>1. ASSUME Step PROVE HandlersOK'
  <2>1. ASSUME NEW t \in Task, CancelRequest(t) PROVE HandlersOK'
    BY <2>1, OthersApart, FinishKeepsHandlers DEF CancelRequest
  <2>2. ASSUME UNCHANGED <<store, stage, request>> PROVE HandlersOK'
    <3>1. \A u \in Task : Apart(u)
      BY <2>2 DEF store, Apart
    <3> QED
      BY <2>2, <3>1, ApartFits DEF Core, HandlersOK
  <2>3. CASE Wipe
    <3>1. \A t \in Task : stage'[t] = "none" /\ at'[t] = "idle" /\ request'[t] = NoRequest
      BY <2>3 DEF Wipe
    <3>2. \A t \in Task : RequestFits(t)' /\ CallFits(t)'
      BY <3>1 DEF RequestFits, CallFits, Loading
    <3> QED
      BY <2>3, <3>2 DEF Wipe, HandlersOK, Stages
  <2> QED
    BY <1>1, <2>1, <2>2, <2>3, ReadDirectoryKeepsHandlers, HandleKeepsHandlers,
       InStoreKeepsHandlers DEF Step, EditProject, EditDestination
<1>2. CASE Step
  BY <1>1, <1>2, StepKeepsStore, StepKeepsFiles DEF Core, HandlersOK
<1>3. CASE UNCHANGED <<store, files, stage, request>>
  <2>1. IInv' /\ ViewsListed'
    BY <1>3, IInvStep, ViewsListedStep DEF Core, store, vars
  <2>2. FilesOK' /\ \A u \in Task : Apart(u)
    BY <1>3 DEF store, files, Core, FilesOK, Apart
  <2> QED
    BY <1>3, <2>1, <2>2, ApartFits DEF Core
<1> QED
  BY <1>2, <1>3

\* A process starts with an empty store and no requests.
LEMMA InitCore == NavInit => Core
<1> SUFFICES ASSUME NavInit PROVE Core
  OBVIOUS
<1>1. IInv /\ ViewsListed
  BY InitIInv, InitViewsListed DEF NavInit
<1>2. FilesOK
  BY NavigationAssumption DEF NavInit, NavigationAssumption, FilesOK
<1>3. \A t \in Task : RequestFits(t) /\ CallFits(t)
  BY DEF NavInit, Init, RequestFits, CallFits, NoRequest, RootRefresh, Loading
<1> QED
  BY <1>1, <1>2, <1>3 DEF NavInit, Core, Stages

\* Navigation's next-state relation is Step with the histories kept.
LEMMA NextIsStep ==
    [NavNext]_navVars => Step \/ UNCHANGED <<store, files, stage, request>>
BY DEF NavNext, Step, Restart, navVars

\* Core holds for ever.
THEOREM AlwaysCore == NavSpec => []Core
<1>1. Core /\ [NavNext]_navVars => Core'
  BY NextIsStep, StepKeepsCore
<1> QED
  BY <1>1, InitCore, PTL DEF NavSpec

\* What Core says of the types and of the store.
LEMMA CoreIsSafe ==
    Core => /\ NavTypeOK
            /\ OneBuilderPerSlot /\ UpsertViewHonoursMounts
            /\ ViewsUseOwnClient /\ NothingBuiltTwice
<1>1. Core => NavTypeOK
  BY DEF Core, IInv, FilesOK, RequestFits, CallFits, NavTypeOK
<1>2. Core => /\ OneBuilderPerSlot /\ UpsertViewHonoursMounts
              /\ ViewsUseOwnClient /\ NothingBuiltTwice
  BY DEF Core, IInv, LocksHeld, UpsertViewFits, ViewsFit, OneBuilderPerSlot,
         UpsertViewHonoursMounts, ViewsUseOwnClient
<1> QED
  BY <1>1, <1>2

\* Every variable keeps its type: a suspended call is at a stage that makes it, and
\* a request that walks has a view to walk.  Whose view it is, RequestsWalkTheirOwn
\* says below.
THEOREM NavTypeCorrect == NavSpec => []NavTypeOK
BY CoreIsSafe, AlwaysCore, PTL

\* What was proved of the store for any callers holds for navigation's handlers,
\* over restarts too.
THEOREM StoreStaysSafe ==
    NavSpec => [](/\ OneBuilderPerSlot /\ UpsertViewHonoursMounts
                  /\ ViewsUseOwnClient /\ NothingBuiltTwice)
BY CoreIsSafe, AlwaysCore, PTL
------------------------------------------------------------------------------
(* What is current stays current *)

\* A step that neither fills a slot nor empties the store shows no change.
LEMMA SameSelected ==
    ASSUME slot' = slot, viewSlot' = viewSlot, files' = files,
           NEW d \in DestinationId, NEW p \in ProjectRoot, Current(d, p)
    PROVE  Current(d, p)'
BY DEF Current, Selected, files

\* A current view lies in a context with its client.
LEMMA CurrentIsThere ==
    ASSUME Core, NEW d \in DestinationId, NEW p \in ProjectRoot, Current(d, p)
    PROVE  /\ slot[d] \in Ctx /\ context[slot[d]] # None
           /\ viewSlot[slot[d]][p] = [client |-> destinationFile[d], mounts |-> projectFile[p]]
           /\ viewSlot[slot[d]][p] \in View
           /\ context[slot[d]].client = destinationFile[d]
           /\ context[slot[d]].fingerprint = Fingerprint[destinationFile[d]]
<1>1. [client |-> destinationFile[d], mounts |-> projectFile[p]] # None
  BY NavigationAssumption DEF NavigationAssumption, Core, FilesOK
<1>2. slot[d] \in Ctx /\ viewSlot[slot[d]][p] # None
      /\ viewSlot[slot[d]][p] = [client |-> destinationFile[d], mounts |-> projectFile[p]]
  BY <1>1 DEF Current, Selected, Core, IInv, TypeOK
<1>3. viewSlot[slot[d]][p] \in View
  BY <1>2 DEF Core, IInv, TypeOK
<1>4. context[slot[d]] # None /\ context[slot[d]].client = destinationFile[d]
  BY <1>2 DEF Core, IInv, ViewsFit
<1>5. context[slot[d]].fingerprint = Fingerprint[destinationFile[d]]
  BY <1>2, <1>4 DEF Core, IInv, FingerprintsFit
<1> QED
  BY <1>2, <1>3, <1>4, <1>5

\* A discovery that replaces the context of a current view was asked for with
\* another configuration.
LEMMA DiscoveryOfCurrent ==
    ASSUME Core, NEW t \in Task, NEW c \in Ctx, DiscoverSucceeds(t, c), files' = files,
           NEW d \in DestinationId, NEW p \in ProjectRoot, Current(d, p), ~Current(d, p)'
    PROVE  Outdated(t, d, p)
<1>0. /\ TypeOK /\ arg[t].id \in DestinationId /\ ~ContextFits(t) /\ at[t] = "discover"
  BY DEF Core, IInv, ArgsFit, NothingBuiltTwice, DiscoverSucceeds
<1>1. /\ slot[d] \in Ctx /\ slot[d] # None
      /\ context[slot[d]].fingerprint = Fingerprint[destinationFile[d]]
  <2>1. slot[d] \in Ctx /\ context[slot[d]].fingerprint = Fingerprint[destinationFile[d]]
    BY CurrentIsThere
  <2> QED
    BY <2>1, NoneApart
<1>2. arg[t].id = d
  <2> SUFFICES ASSUME arg[t].id # d PROVE FALSE
    OBVIOUS
  <2>1. slot'[d] = slot[d] /\ slot[d] # c
    BY <1>0 DEF DiscoverSucceeds, InUse, TypeOK
  <2>2. viewSlot'[slot[d]] = viewSlot[slot[d]]
    BY <1>0, <1>1, <2>1 DEF DiscoverSucceeds, TypeOK
  <2> QED
    BY <2>1, <2>2 DEF Current, Selected, files
<1>3. Fingerprint[arg[t].config] # Fingerprint[destinationFile[d]]
  BY <1>0, <1>1, <1>2 DEF ContextFits
<1> QED
  BY <1>0, <1>2, <1>3 DEF Outdated

\* A build that replaces a current view was asked for with other mounts.
LEMMA BuildOfCurrent ==
    ASSUME Core, NEW t \in Task, BuildSucceeds(t), files' = files,
           NEW d \in DestinationId, NEW p \in ProjectRoot, Current(d, p), ~Current(d, p)'
    PROVE  Outdated(t, d, p)
<1>0. /\ TypeOK /\ at[t] = "build" /\ arg[t].op = "upsert_view" /\ arg[t].ctx \in Ctx
      /\ arg[t].project \in ProjectRoot /\ ~ViewFits(t) /\ slot' = slot
  BY DEF Core, IInv, ArgsFit, NothingBuiltTwice, BuildSucceeds, slotVars
<1>1. arg[t].project = Root[t]
  BY <1>0 DEF Core, CallFits
<1>2. /\ slot[d] \in Ctx /\ viewSlot[slot[d]][p] # None
      /\ viewSlot[slot[d]][p].mounts = projectFile[p]
  <2>1. slot[d] \in Ctx /\ viewSlot[slot[d]][p] \in View
    BY CurrentIsThere
  <2>2. viewSlot[slot[d]][p] = [client |-> destinationFile[d], mounts |-> projectFile[p]]
    BY CurrentIsThere
  <2> QED
    BY <2>1, <2>2, NoneApart
<1>3. arg[t].ctx = slot[d] /\ arg[t].project = p
  <2> SUFFICES ASSUME <<slot[d], p>> # <<arg[t].ctx, arg[t].project>> PROVE FALSE
    OBVIOUS
  <2>1. viewSlot'[slot[d]][p] = viewSlot[slot[d]][p]
    BY <1>0, <1>2 DEF BuildSucceeds, TypeOK
  <2> QED
    BY <1>0, <2>1 DEF Current, Selected, files
<1> QED
  BY <1>0, <1>1, <1>2, <1>3 DEF ViewFits, ViewInSlot, Outdated

\* A step that makes a current view differ edits a file, empties the store, or
\* ends an outdated load.
LEMMA StepKeepsCurrent ==
    ASSUME Core, Step, NEW d \in DestinationId, NEW p \in ProjectRoot,
           Current(d, p), ~Current(d, p)'
    PROVE  files' # files \/ slots' = {} \/ \E t \in Task : Outdated(t, d, p)
<1> SUFFICES ASSUME files' = files, slots' # {} PROVE \E t \in Task : Outdated(t, d, p)
  OBVIOUS
<1>1. ~(slot' = slot /\ viewSlot' = viewSlot)
  BY SameSelected
<1>2. PICK t \in Task : InStore(t)
  <2>1. ~Wipe
    BY DEF Wipe
  <2>2. \A t \in Task : ~Handle(t)
    BY <1>1 DEF Handle, GotContext, LookView, GotView, ReadProject, ReadUser,
                ReadDestination, Upsert, Upserted, UpsertView, UpsertedView, Walk,
                RespondError, Finish, Drop, store, slotVars, viewVars
  <2>3. \A t \in Task : /\ ~CancelRequest(t)
                        /\ \A e \in DestinationId, a \in Asked :
                              ~ReadDirectory(t, e, a[1], a[2])
    BY <1>1 DEF CancelRequest, Finish, Drop, ReadDirectory, Get, store, slotVars, viewVars
  <2>4. /\ \A q \in ProjectRoot : ~EditProject(q)
        /\ \A e \in DestinationId : ~EditDestination(e)
    BY <1>1 DEF EditProject, EditDestination, store, slotVars, viewVars
  <2> QED
    BY <2>1, <2>2, <2>3, <2>4 DEF Step
<1>3. (\E c \in Ctx : DiscoverSucceeds(t, c)) \/ BuildSucceeds(t)
  BY <1>1, <1>2
     DEF InStore, Proceed, GetSlot, UpsertHits, TransportFails, StartDiscover, LookViewSlot,
         UpsertViewHits, MountsFail, StartBuild, Discovered, DiscoverFails, Built,
         BuildFails, slotVars, viewVars
<1> QED
  BY <1>3, DiscoveryOfCurrent, BuildOfCurrent

\* The action of CurrentStaysCurrent.
KeepsCurrent ==
    \A d \in DestinationId, p \in ProjectRoot :
       (Current(d, p) /\ ~Current(d, p)')
          => files' # files \/ slots' = {} \/ \E t \in Task : Outdated(t, d, p)

\* It is one of navigation's steps, and of those that leave navigation alone.
LEMMA StepIsCurrent ==
    Core /\ (Step \/ UNCHANGED <<store, files, stage, request>>) => KeepsCurrent
<1> SUFFICES ASSUME Core, Step \/ UNCHANGED <<store, files, stage, request>>,
                    NEW d \in DestinationId, NEW p \in ProjectRoot,
                    Current(d, p), ~Current(d, p)'
             PROVE  files' # files \/ slots' = {} \/ \E t \in Task : Outdated(t, d, p)
  BY DEF KeepsCurrent
<1>1. CASE UNCHANGED <<store, files, stage, request>>
  BY <1>1, SameSelected DEF store, slotVars, viewVars
<1> QED
  BY <1>1, StepKeepsCurrent

\* The store never loses a current view but to an edit, a restart or a load that
\* read the files before an edit.
THEOREM CurrentStays == NavSpec => CurrentStaysCurrent
<1>1. Core /\ [NavNext]_navVars => [KeepsCurrent]_navVars
  BY NextIsStep, StepIsCurrent
<1> QED
  BY <1>1, AlwaysCore, PTL DEF NavSpec, CurrentStaysCurrent, KeepsCurrent
------------------------------------------------------------------------------
(* The histories *)

\* What a loading handler has read, and then what it has been given, is among what
\* its files have held since it began to load.
LoadedNow(t) ==
    /\ stage[t] \in Loading \ {"project"} => request[t].mounts \in since[t].mounts
    /\ stage[t] = "upsert" => arg[t].config \in since[t].configs
    /\ stage[t] = "upsert_view" => context[arg[t].ctx].client \in since[t].configs
    /\ (stage[t] = "walk" /\ request[t].mounts # None)
          => answer[t].mounts \in since[t].mounts /\ answer[t].client \in since[t].configs

\* A handler looks into the context that is in the slot, or there was a moment
\* without its view since it began; so there was if it has found nothing.
MissedThen(t) ==
    /\ (stage[t] = "get" /\ at[t] = "idle") => answer[t] = slot[request[t].id] \/ missed[t]
    /\ (stage[t] = "get" /\ at[t] = "idle" /\ answer[t] = None) => missed[t]
    /\ stage[t] = "view" => arg[t].ctx = slot[request[t].id] \/ missed[t]
    /\ (stage[t] = "view" /\ at[t] = "idle" /\ answer[t] = None) => missed[t]
    /\ (stage[t] = "project" /\ ~RootRefresh(t)) => missed[t]

\* missed is never taken back before the first file is read.
LEMMA MissedGrows ==
    ASSUME Record, NEW t \in Task, stage'[t] \in {"get", "view", "project"},
           missed[t] \/ SelectedFor(t)' = None
    PROVE  missed'[t]
BY DEF Record

\* What is in the files, and was there since a load began, is in its history.
LEMMA SinceGrows ==
    ASSUME Record, NEW t \in Task,
           \/ /\ stage[t] \in Loading /\ stage'[t] \in Loading \cup {"walk"}
              /\ stage[t] = "project" \/ stage'[t] # "project"
           \/ stage[t] = "walk" /\ stage'[t] = "walk" /\ request[t].mounts # None
    PROVE  /\ \A x : x \in since[t].mounts \/ x \in Now(t)'.mounts => x \in since'[t].mounts
           /\ \A x : x \in since[t].configs \/ x \in Now(t)'.configs => x \in since'[t].configs
<1>1. ~(stage[t] # "project" /\ stage'[t] = "project")
  BY DEF Loading
<1>2. since'[t] = [mounts |-> since[t].mounts \cup Now(t)'.mounts,
                   configs |-> since[t].configs \cup Now(t)'.configs]
  BY <1>1 DEF Record
<1> QED
  BY <1>2

\* Only a discovery puts another context into a slot, and that has no views.
LEMMA SlotsAreFresh ==
    ASSUME Core, Step, ~Wipe, NEW d \in DestinationId, NEW p \in ProjectRoot
    PROVE  slot'[d] = slot[d] \/ Selected(d, p)' = None
<1>0. TypeOK
  BY DEF Core, IInv
<1>1. ASSUME NEW t \in Task, NEW c \in Ctx, DiscoverSucceeds(t, c)
      PROVE  slot'[d] = slot[d] \/ Selected(d, p)' = None
  <2>1. /\ arg[t].id # d => slot'[d] = slot[d]
        /\ arg[t].id = d => slot'[d] = c /\ viewSlot'[c][p] = None
    BY <1>0, <1>1 DEF DiscoverSucceeds, TypeOK
  <2> QED
    BY <2>1 DEF Selected
<1>2. ASSUME NEW t \in Task, InStore(t), ~\E c \in Ctx : DiscoverSucceeds(t, c)
      PROVE  slot' = slot
  BY <1>2
     DEF InStore, Proceed, GetSlot, UpsertHits, TransportFails, StartDiscover, LookViewSlot,
         UpsertViewHits, MountsFail, StartBuild, Discovered, DiscoverFails, Built,
         BuildSucceeds, BuildFails, slotVars, viewVars
<1>3. ASSUME NEW t \in Task, Handle(t) PROVE slot' = slot
  BY <1>3 DEF Handle, GotContext, LookView, GotView, ReadProject, ReadUser,
              ReadDestination, Upsert, Upserted, UpsertView, UpsertedView, Walk,
              RespondError, Finish, Drop, store, slotVars
<1>4. ASSUME NEW t \in Task, CancelRequest(t)
             \/ \E e \in DestinationId, a \in Asked : ReadDirectory(t, e, a[1], a[2])
      PROVE  slot' = slot
  BY <1>4 DEF CancelRequest, Finish, Drop, ReadDirectory, Get, store, slotVars
<1> QED
  BY <1>1, <1>2, <1>3, <1>4 DEF Step, EditProject, EditDestination, store, slotVars

\* A context a handler holds stays what it is.
LEMMA HeldContextsStay ==
    ASSUME Core, Step, ~Wipe, NEW u \in Task, NEW c \in Held(u)
    PROVE  context'[c] = context[c]
<1>1. ASSUME NEW t \in Task, NEW n \in Ctx, DiscoverSucceeds(t, n)
      PROVE  context'[c] = context[c]
  <2>1. n # c /\ c \in Ctx
    BY <1>1 DEF DiscoverSucceeds, InUse, Held
  <2> QED
    BY <1>1, <2>1 DEF DiscoverSucceeds, Core, IInv, TypeOK
<1>2. ASSUME NEW t \in Task, InStore(t), ~\E n \in Ctx : DiscoverSucceeds(t, n)
      PROVE  context' = context
  BY <1>2
     DEF InStore, Proceed, GetSlot, UpsertHits, TransportFails, StartDiscover, LookViewSlot,
         UpsertViewHits, MountsFail, StartBuild, Discovered, DiscoverFails, Built,
         BuildSucceeds, BuildFails, slotVars, viewVars
<1>3. ASSUME NEW t \in Task, Handle(t) PROVE context' = context
  BY <1>3 DEF Handle, GotContext, LookView, GotView, ReadProject, ReadUser,
              ReadDestination, Upsert, Upserted, UpsertView, UpsertedView, Walk,
              RespondError, Finish, Drop, store, slotVars
<1>4. ASSUME NEW t \in Task, CancelRequest(t)
             \/ \E e \in DestinationId, a \in Asked : ReadDirectory(t, e, a[1], a[2])
      PROVE  context' = context
  BY <1>4 DEF CancelRequest, Finish, Drop, ReadDirectory, Get, store, slotVars
<1> QED
  BY <1>1, <1>2, <1>3, <1>4 DEF Step, EditProject, EditDestination, store, slotVars

\* When others move, what a handler has in hand is as current as it was, and what
\* it missed it still has.
LEMMA ApartKeepsHistory ==
    ASSUME Core, Step \/ UNCHANGED <<store, files, stage, request>>, ~Wipe, Record,
           NEW u \in Task, Apart(u)
    PROVE  /\ MissedThen(u) => MissedThen(u)'
           /\ LoadedNow(u) => LoadedNow(u)'
<1>1. stage[u] # "none" => request[u].id \in DestinationId
  BY DEF Core, RequestFits, Request
<1>2. ASSUME MissedThen(u) PROVE MissedThen(u)'
  <2>1. stage[u] # "none" => slot'[request[u].id] = slot[request[u].id]
                               \/ SelectedFor(u)' = None
    BY <1>1, SlotsAreFresh, Given DEF Apart, SelectedFor, store, slotVars
  <2> QED
    BY <1>2, <2>1, MissedGrows DEF MissedThen, Apart, RootRefresh
<1>3. ASSUME LoadedNow(u) PROVE LoadedNow(u)'
  <2>1. stage[u] = "upsert_view" => context'[arg[u].ctx] = context[arg[u].ctx]
    BY HeldContextsStay DEF Core, CallFits, Held, store, slotVars
  <2> QED
    BY <1>3, <2>1, SinceGrows DEF LoadedNow, Apart, Loading
<1> QED
  BY <1>2, <1>3

\* Stages in which a history is not asked for.
LEMMA NothingToTell ==
    ASSUME NEW t, stage'[t] \in {"none", "failed"} PROVE MissedThen(t)' /\ LoadedNow(t)'
BY DEF MissedThen, LoadedNow, Loading

\* A request begins: a lookup that misses at once finds no context.
LEMMA ReadDirectoryTells ==
    ASSUME Core, Record, NEW t \in Task, NEW d \in DestinationId, NEW a \in Asked,
           ReadDirectory(t, d, a[1], a[2])
    PROVE  MissedThen(t)' /\ LoadedNow(t)'
<1> DEFINE r == [id |-> d, path |-> a[1], refresh |-> a[2], mounts |-> None]
<1>0. TypeOK /\ stage \in [Task -> Stages] /\ request \in [Task -> Request \cup {NoRequest}]
  BY DEF Core, IInv
<1>1. request'[t] = r
  BY <1>0 DEF ReadDirectory
<1>2. CASE Reloads(a[1], a[2]) /\ stage' = [stage EXCEPT ![t] = "project"]
  <2>1. stage'[t] = "project"
    BY <1>0, <1>2
  <2> QED
    BY <1>1, <1>2, <2>1 DEF Reloads, MissedThen, LoadedNow, RootRefresh, Loading
<1>3. CASE Get(t, d) /\ stage' = [stage EXCEPT ![t] = "get"]
  <2>1. /\ stage'[t] = "get" /\ slot' = slot
        /\ at'[t] = "idle" => answer'[t] = None /\ d \notin slots
    BY <1>0, <1>3 DEF Get, slotVars, TypeOK
  <2>2. at'[t] = "idle" => slot'[d] = None
    BY <1>0, <2>1 DEF TypeOK
  <2>3. at'[t] = "idle" => SelectedFor(t)' = None
    BY <1>1, <2>2 DEF SelectedFor, Selected
  <2>4. at'[t] = "idle" => missed'[t]
    BY <2>1, <2>3, MissedGrows
  <2> QED
    BY <1>1, <2>1, <2>2, <2>4 DEF MissedThen, LoadedNow, Loading
<1> QED
  BY <1>2, <1>3 DEF ReadDirectory

\* A lookup that misses at once finds no view, and one that has missed goes on to
\* load; nothing of this is loading yet.
LEMMA LookupTells ==
    ASSUME Core, Record, NEW t \in Task, GotContext(t) \/ GotView(t), MissedThen(t)
    PROVE  MissedThen(t)' /\ LoadedNow(t)'
<1>0. /\ TypeOK /\ stage \in [Task -> Stages] /\ request' = request
      /\ request[t].id \in DestinationId /\ request[t].mounts = None
      /\ RequestFits(t) /\ CallFits(t)
  BY DEF Core, IInv, RequestFits, Request, GotContext, GotView, Goto
<1>1. ASSUME stage'[t] = "project", missed[t] PROVE MissedThen(t)' /\ LoadedNow(t)'
  <2>1. missed'[t]
    BY <1>1, MissedGrows
  <2> QED
    BY <1>1, <2>1 DEF MissedThen, LoadedNow, Loading
<1>2. CASE GotContext(t)
  <2>1. CASE answer[t] = None
    BY <1>0, <1>1, <1>2, <2>1 DEF GotContext, Goto, MissedThen
  <2>2. CASE answer[t] # None
    <3>1. /\ LookView(t, answer[t], Root[t]) /\ stage'[t] = "view"
          /\ answer[t] = slot[request[t].id] \/ missed[t]
      BY <1>0, <1>2, <2>2 DEF GotContext, Goto, MissedThen
    <3>2. /\ answer[t] \in Ctx /\ arg'[t].ctx = answer[t]
          /\ slot' = slot /\ viewSlot' = viewSlot
          /\ at'[t] = "idle" => Root[t] \notin viewSlots[answer[t]]
      BY <1>0, <3>1 DEF LookView, Held, TypeOK, NoArg, slotVars, viewVars
    <3>3. (at'[t] = "idle" /\ answer[t] = slot[request[t].id]) => SelectedFor(t)' = None
      <4>1. at'[t] = "idle" => viewSlot'[answer[t]][Root[t]] = None
        BY <3>2, Given DEF Core, ViewsListed
      <4> QED
        BY <1>0, <3>2, <4>1 DEF SelectedFor, Selected
    <3>4. /\ missed[t] => missed'[t]
          /\ at'[t] = "idle" => missed'[t]
      BY <3>1, <3>3, MissedGrows
    <3> QED
      BY <1>0, <3>1, <3>2, <3>4 DEF MissedThen, LoadedNow, Loading
  <2> QED
    BY <2>1, <2>2
<1>3. CASE GotView(t)
  <2>1. CASE answer[t] = None
    BY <1>0, <1>1, <1>3, <2>1 DEF GotView, Goto, MissedThen
  <2>2. CASE answer[t] # None
    <3>1. stage'[t] = "walk"
      BY <1>0, <1>3, <2>2 DEF GotView, Goto
    <3> QED
      BY <1>0, <3>1 DEF MissedThen, LoadedNow, Loading
  <2> QED
    BY <2>1, <2>2
<1> QED
  BY <1>2, <1>3

\* A file that is read holds what is read, and the store gives what it was asked
\* for; a fingerprint stands for its configuration.
LEMMA LoadTells ==
    ASSUME Core, Record, NEW t \in Task,
           ReadProject(t) \/ ReadUser(t) \/ ReadDestination(t)
             \/ Upserted(t) \/ UpsertedView(t)
    PROVE  /\ MissedThen(t)'
           /\ InjectiveFingerprints /\ LoadedNow(t) => LoadedNow(t)'
<1>0. /\ TypeOK /\ stage \in [Task -> Stages]
      /\ request \in [Task -> Request \cup {NoRequest}]
      /\ request[t] \in Request
      /\ RequestFits(t) /\ CallFits(t)
  BY DEF Core, IInv, RequestFits, ReadProject, ReadUser, ReadDestination, Upserted,
         UpsertedView
<1>1. CASE stage'[t] = "failed"
  BY <1>1, NothingToTell
<1>2. CASE ReadProject(t) /\ stage'[t] # "failed"
  <2>1. /\ stage[t] = "project" /\ stage'[t] = "user" /\ projectFile' = projectFile
        /\ projectFile[Root[t]] # Missing
        /\ request'[t].mounts = projectFile[Root[t]]
    BY <1>0, <1>2 DEF ReadProject, Goto, files, Request
  <2>2. request'[t].mounts \in Now(t)'.mounts
    BY <2>1 DEF Now
  <2>3. request'[t].mounts \in since'[t].mounts
    BY <2>1, <2>2, SinceGrows DEF Loading
  <2> QED
    BY <2>1, <2>3 DEF MissedThen, LoadedNow, Loading
<1>3. CASE ReadUser(t) /\ stage'[t] # "failed"
  <2>1. stage[t] = "user" /\ stage'[t] = "destination" /\ request' = request
    BY <1>0, <1>3 DEF ReadUser, Goto
  <2> QED
    BY <2>1, SinceGrows DEF MissedThen, LoadedNow, Loading
<1>4. CASE ReadDestination(t) /\ stage'[t] # "failed"
  <2> DEFINE config == destinationFile[request[t].id]
  <2>1. /\ stage[t] = "destination" /\ stage'[t] = "upsert" /\ request' = request
        /\ destinationFile' = destinationFile /\ config # Missing
        /\ Upsert(t, request[t].id, config)
    BY <1>0, <1>4 DEF ReadDestination, Goto, files
  <2>2. arg'[t].config = config
    BY <1>0, <2>1 DEF Upsert, TypeOK, NoArg
  <2>3. config \in Now(t)'.configs
    BY <2>1 DEF Now
  <2>4. config \in since'[t].configs
    BY <2>1, <2>3, SinceGrows DEF Loading
  <2>5. request'[t].mounts = request[t].mounts
    BY <2>1
  <2> QED
    BY <2>1, <2>2, <2>4, <2>5, SinceGrows DEF MissedThen, LoadedNow, Loading
<1>5. CASE Upserted(t) /\ stage'[t] # "failed"
  <2>1. /\ stage[t] = "upsert" /\ stage'[t] = "upsert_view" /\ at[t] = "idle"
        /\ request' = request /\ answer[t] # None
        /\ UpsertView(t, answer[t], Root[t], request[t].mounts)
    BY <1>0, <1>5 DEF Upserted, Goto
  <2>2. arg'[t].ctx = answer[t] /\ context' = context
    BY <1>0, <2>1 DEF UpsertView, TypeOK, NoArg, slotVars
  <2>3. ASSUME InjectiveFingerprints
        PROVE  context[answer[t]].client = arg[t].config
    <3>1. /\ answer[t] \in Ctx /\ arg[t].config \in DestinationConfig
          /\ context[answer[t]].fingerprint = Fingerprint[arg[t].config]
      BY <1>0, <2>1 DEF Core, IInv, UpsertFits, CallFits
    <3>2. context[answer[t]] # None /\ context[answer[t]] \in Context
      BY <1>0, <3>1 DEF Core, IInv, HeldExist, Held, TypeOK
    <3>3. /\ context[answer[t]].client \in DestinationConfig
          /\ context[answer[t]].fingerprint = Fingerprint[context[answer[t]].client]
      BY <3>1, <3>2 DEF Core, IInv, FingerprintsFit, Context
    <3> QED
      BY <2>3, <3>1, <3>3 DEF InjectiveFingerprints
  <2> QED
    BY <2>1, <2>2, <2>3, SinceGrows DEF MissedThen, LoadedNow, Loading
<1>6. CASE UpsertedView(t) /\ stage'[t] # "failed"
  <2>1. /\ stage[t] = "upsert_view" /\ stage'[t] = "walk" /\ at[t] = "idle"
        /\ request' = request /\ answer' = answer /\ answer[t] # None
    BY <1>0, <1>6 DEF UpsertedView, Goto, store
  <2>2. answer[t] = [client |-> context[arg[t].ctx].client, mounts |-> request[t].mounts]
    BY <1>0, <2>1 DEF Core, IInv, UpsertViewFits, CallFits
  <2>3. /\ answer[t].client = context[arg[t].ctx].client
        /\ answer[t].mounts = request[t].mounts
    BY <2>2
  <2> QED
    BY <2>1, <2>3, SinceGrows DEF MissedThen, LoadedNow, Loading
<1> QED
  BY <1>1, <1>2, <1>3, <1>4, <1>5, <1>6

\* The store answers with what is in the slot when it does.
LEMMA InStoreTells ==
    ASSUME Core, Record, NEW t \in Task, InStore(t), MissedThen(t)
    PROVE  MissedThen(t)' /\ (LoadedNow(t) => LoadedNow(t)')
<1>0. /\ TypeOK /\ ArgsFit /\ RequestFits(t) /\ CallFits(t)
      /\ stage' = stage /\ request' = request
  BY DEF Core, IInv, InStore
<1>1. at[t] # "idle" /\ arg' = arg
  BY DEF InStore, Proceed, GetSlot, UpsertHits, TransportFails, StartDiscover, LookViewSlot,
         UpsertViewHits, MountsFail, StartBuild, Discovered, DiscoverSucceeds,
         DiscoverFails, Built, BuildSucceeds, BuildFails, Return, Suspend
<1>2. stage[t] \in {"get", "view", "upsert", "upsert_view"}
  BY <1>0, <1>1 DEF CallFits
<1>3. ASSUME stage[t] = "get" PROVE MissedThen(t)' /\ LoadedNow(t)'
  <2>1. GetSlot(t) /\ arg[t].id = request[t].id /\ request[t].id \in DestinationId
    BY <1>0, <1>3 DEF InStore, Proceed, UpsertHits, TransportFails, StartDiscover,
         LookViewSlot, UpsertViewHits, MountsFail, StartBuild, Discovered, DiscoverSucceeds,
         DiscoverFails, Built, BuildSucceeds, BuildFails, ArgsFit, CallFits, RequestFits,
         Request
  <2>2. slot' = slot /\ answer'[t] = slot[request[t].id]
    BY <1>0, <2>1 DEF GetSlot, Return, slotVars, TypeOK
  <2>3. answer'[t] = None => SelectedFor(t)' = None
    BY <1>0, <2>2 DEF SelectedFor, Selected
  <2>4. answer'[t] = None => missed'[t]
    BY <1>0, <1>3, <2>3, MissedGrows
  <2> QED
    BY <1>0, <1>3, <2>2, <2>4 DEF MissedThen, LoadedNow, Loading
<1>4. ASSUME stage[t] = "view" PROVE MissedThen(t)' /\ LoadedNow(t)'
  <2>1. /\ LookViewSlot(t) /\ arg[t].project = Root[t]
        /\ arg[t].ctx = slot[request[t].id] \/ missed[t]
    BY <1>0, <1>4 DEF InStore, Proceed, GetSlot, UpsertHits, TransportFails, StartDiscover,
         UpsertViewHits, MountsFail, StartBuild, Discovered, DiscoverSucceeds,
         DiscoverFails, Built, BuildSucceeds, BuildFails, ArgsFit, CallFits, MissedThen
  <2>2. slot' = slot /\ viewSlot' = viewSlot /\ answer'[t] = viewSlot[arg[t].ctx][Root[t]]
    BY <1>0, <2>1 DEF LookViewSlot, ViewInSlot, Return, slotVars, viewVars, TypeOK
  <2>3. (answer'[t] = None /\ arg[t].ctx = slot[request[t].id]) => SelectedFor(t)' = None
    BY <1>0, <2>2 DEF SelectedFor, Selected
  <2>4. /\ missed[t] => missed'[t]
        /\ answer'[t] = None => missed'[t]
    BY <1>0, <1>4, <2>1, <2>3, MissedGrows
  <2> QED
    BY <1>0, <1>1, <1>4, <2>1, <2>2, <2>4 DEF MissedThen, LoadedNow, Loading
<1>5. ASSUME stage[t] \in {"upsert", "upsert_view"}
      PROVE  MissedThen(t)' /\ (LoadedNow(t) => LoadedNow(t)')
  <2>1. stage[t] = "upsert_view" => context'[arg[t].ctx] = context[arg[t].ctx]
    <3>1. ~Wipe /\ Step
      BY <1>0, <1>5 DEF Wipe, Step
    <3> QED
      BY <1>0, <3>1, HeldContextsStay DEF CallFits, Held
  <2> QED
    BY <1>0, <1>1, <1>5, <2>1, SinceGrows DEF MissedThen, LoadedNow, Loading
<1> QED
  BY <1>2, <1>3, <1>4, <1>5
------------------------------------------------------------------------------
\* The histories bear out what handlers have in hand, over every step.
HistoryOK ==
    /\ \A t \in Task : MissedThen(t)
    /\ InjectiveFingerprints => \A t \in Task : LoadedNow(t)

\* No step shows a handler anything its histories do not bear out.
LEMMA HistoryStep == Core /\ HistoryOK /\ [NavNext]_navVars => HistoryOK'
<1> SUFFICES ASSUME Core, HistoryOK, [NavNext]_navVars PROVE HistoryOK'
  OBVIOUS
<1>1. CASE UNCHANGED navVars
  BY <1>1 DEF navVars, store, slotVars, HistoryOK, MissedThen, LoadedNow, RootRefresh
<1>2. CASE NavNext /\ Wipe
  <2>1. \A t \in Task : stage'[t] = "none"
    BY <1>2 DEF Wipe
  <2> QED
    BY <2>1, NothingToTell DEF HistoryOK
<1>3. CASE NavNext /\ ~Wipe
  <2>1. Record /\ Step
    BY <1>3, NextIsStep DEF NavNext, Step, Restart
  <2>2. ASSUME NEW u \in Task, Apart(u)
        PROVE  /\ MissedThen(u)'
               /\ InjectiveFingerprints => LoadedNow(u)'
    BY <1>3, <2>1, <2>2, ApartKeepsHistory DEF HistoryOK
  <2>3. ASSUME NEW t \in Task, \A u \in Task \ {t} : Apart(u),
               MissedThen(t)', InjectiveFingerprints => LoadedNow(t)'
        PROVE  HistoryOK'
    BY <2>2, <2>3 DEF HistoryOK
  <2>4. ASSUME NEW t \in Task, NEW d \in DestinationId, NEW a \in Asked,
               ReadDirectory(t, d, a[1], a[2])
        PROVE  HistoryOK'
    BY <2>1, <2>3, <2>4, OthersApart, ReadDirectoryTells
  <2>5. ASSUME NEW t \in Task, Handle(t) PROVE HistoryOK'
    <3>1. CASE Walk(t) \/ RespondError(t)
      <4>1. stage'[t] \in {"none", "failed"}
        BY <3>1 DEF Walk, RespondError, Finish, Goto, Core
      <4> QED
        BY <2>3, <2>5, <4>1, OthersApart, NothingToTell
    <3>2. CASE ~(Walk(t) \/ RespondError(t))
      <4>1. MissedThen(t)' /\ (InjectiveFingerprints => LoadedNow(t)')
        BY <2>1, <2>5, <3>2, LookupTells, LoadTells DEF Handle, HistoryOK
      <4> QED
        BY <2>3, <2>5, <4>1, OthersApart
    <3> QED
      BY <3>1, <3>2
  <2>6. ASSUME NEW t \in Task, InStore(t) PROVE HistoryOK'
    <3>1. MissedThen(t)' /\ (InjectiveFingerprints => LoadedNow(t)')
      BY <2>1, <2>6, InStoreTells DEF HistoryOK
    <3> QED
      BY <2>3, <2>6, <3>1, OthersApart
  <2>7. ASSUME NEW t \in Task, CancelRequest(t) PROVE HistoryOK'
    <3>1. stage'[t] = "none"
      BY <2>7 DEF CancelRequest, Finish, Core
    <3> QED
      BY <2>3, <2>7, <3>1, OthersApart, NothingToTell
  <2>8. ASSUME UNCHANGED <<store, stage, request>> PROVE HistoryOK'
    <3>1. \A u \in Task : Apart(u)
      BY <2>8 DEF store, Apart
    <3> QED
      BY <2>2, <3>1 DEF HistoryOK
  <2> QED
    BY <1>3, <2>1, <2>4, <2>5, <2>6, <2>7, <2>8 DEF Step, EditProject, EditDestination
<1> QED
  BY <1>1, <1>2, <1>3

\* There is nothing to tell when a process starts.
LEMMA InitHistory == NavInit => HistoryOK
BY DEF NavInit, HistoryOK, MissedThen, LoadedNow, Loading

\* The histories are borne out for ever.
THEOREM AlwaysHistory == NavSpec => []HistoryOK
BY InitHistory, HistoryStep, AlwaysCore, PTL DEF NavSpec

\* No request that loads is answered with older data than its own files held since
\* it began to load, as long as no two configurations share a hash.
THEOREM LoadsNothingOlder == NavSpec => [](InjectiveFingerprints => LoadsAreCurrent)
<1>1. Core /\ HistoryOK => (InjectiveFingerprints => LoadsAreCurrent)
  BY DEF Core, HistoryOK, RequestFits, LoadedNow, LoadsAreCurrent
<1> QED
  BY <1>1, AlwaysCore, AlwaysHistory, PTL

\* Browsing a view that is there never depends on the files.
THEOREM CachedViewIsEnough == NavSpec => []CachedViewNeedsNoFiles
<1>1. HistoryOK => CachedViewNeedsNoFiles
  BY DEF HistoryOK, MissedThen, CachedViewNeedsNoFiles
<1> QED
  BY <1>1, AlwaysHistory, PTL
------------------------------------------------------------------------------
(* Every request walks a view of its own project and destination *)

\* What the slots hold is of the destination and the project they are for.
SlotsOwn ==
    /\ \A d \in DestinationId :
          slot[d] # None => context[slot[d]].client \in Configs[d]
    /\ \A c \in Ctx, p \in ProjectRoot :
          viewSlot[c][p] # None => viewSlot[c][p].mounts \in ProjectFiles[p]

\* What a handler has in hand is of its own destination and project, by stage.
HoldsOwn(t) ==
    /\ stage[t] \in Loading \ {"project"} => request[t].mounts \in ProjectFiles[Root[t]]
    /\ stage[t] = "upsert" => arg[t].config \in Configs[request[t].id]
    /\ stage[t] \in {"get", "view", "upsert", "upsert_view"} =>
          \A c \in Held(t) : context[c].client \in Configs[request[t].id]
    /\ (stage[t] \in {"view", "walk"} /\ answer[t] # None) =>
          /\ answer[t].mounts \in ProjectFiles[Root[t]]
          /\ answer[t].client \in Configs[request[t].id]

OwnOK == SlotsOwn /\ \A t \in Task : HoldsOwn(t)

\* A store step leaves context and views alone, but for the two answers of a backend.
LEMMA SlotsStay ==
    ASSUME Step, ~Wipe,
           ~\E t \in Task : /\ InStore(t)
                            /\ BuildSucceeds(t) \/ \E c \in Ctx : DiscoverSucceeds(t, c)
    PROVE  slot' = slot /\ context' = context /\ viewSlot' = viewSlot
<1>1. ASSUME NEW t \in Task, InStore(t)
      PROVE  slot' = slot /\ context' = context /\ viewSlot' = viewSlot
  BY <1>1
     DEF InStore, Proceed, GetSlot, UpsertHits, TransportFails, StartDiscover, LookViewSlot,
         UpsertViewHits, MountsFail, StartBuild, Discovered, DiscoverFails, Built,
         BuildFails, slotVars, viewVars
<1>2. ASSUME NEW t \in Task, Handle(t)
      PROVE  slot' = slot /\ context' = context /\ viewSlot' = viewSlot
  BY <1>2 DEF Handle, GotContext, LookView, GotView, ReadProject, ReadUser,
              ReadDestination, Upsert, Upserted, UpsertView, UpsertedView, Walk,
              RespondError, Finish, Drop, store, slotVars, viewVars
<1>3. ASSUME NEW t \in Task, CancelRequest(t)
             \/ \E e \in DestinationId, a \in Asked : ReadDirectory(t, e, a[1], a[2])
      PROVE  slot' = slot /\ context' = context /\ viewSlot' = viewSlot
  BY <1>3 DEF CancelRequest, Finish, Drop, ReadDirectory, Get, store, slotVars, viewVars
<1> QED
  BY <1>1, <1>2, <1>3 DEF Step, EditProject, EditDestination, store, slotVars, viewVars

\* A backend's answer goes into the slot of whoever asked.
LEMMA SlotsOwnStep ==
    ASSUME Core, OwnOK, Step PROVE SlotsOwn'
<1>0. TypeOK /\ ArgsFit
  BY DEF Core, IInv
<1>1. CASE Wipe
  BY <1>1 DEF Wipe, SlotsOwn
<1>2. ASSUME NEW t \in Task, InStore(t), NEW c \in Ctx, DiscoverSucceeds(t, c)
      PROVE  SlotsOwn'
  <2>1. /\ arg[t].id \in DestinationId /\ arg[t].config \in Configs[arg[t].id]
    <3>1. stage[t] = "upsert" /\ arg[t].id = request[t].id /\ arg[t].id \in DestinationId
      BY <1>0, <1>2 DEF DiscoverSucceeds, ArgsFit, Core, CallFits
    <3> QED
      BY <3>1 DEF OwnOK, HoldsOwn
  <2>2. /\ slot' = [slot EXCEPT ![arg[t].id] = c]
        /\ \A d \in DestinationId : slot[d] # c
        /\ context'[c].client = arg[t].config
        /\ \A e \in Ctx \ {c} : context'[e] = context[e] /\ viewSlot'[e] = viewSlot[e]
        /\ \A p \in ProjectRoot : viewSlot'[c][p] = None
    BY <1>0, <1>2 DEF DiscoverSucceeds, InUse, TypeOK
  <2>3. \A d \in DestinationId : slot'[d] # None => context'[slot'[d]].client \in Configs[d]
    <3> SUFFICES ASSUME NEW d \in DestinationId, slot'[d] # None
                 PROVE  context'[slot'[d]].client \in Configs[d]
      OBVIOUS
    <3>1. CASE d = arg[t].id
      BY <1>0, <2>1, <2>2, <3>1 DEF TypeOK
    <3>2. CASE d # arg[t].id
      <4>1. slot'[d] = slot[d] /\ slot[d] \in Ctx \ {c}
        BY <1>0, <2>2, <3>2 DEF TypeOK
      <4> QED
        BY <2>2, <4>1 DEF OwnOK, SlotsOwn
    <3> QED
      BY <3>1, <3>2
  <2>4. \A e \in Ctx, p \in ProjectRoot :
           viewSlot'[e][p] # None => viewSlot'[e][p].mounts \in ProjectFiles[p]
    BY <2>2 DEF OwnOK, SlotsOwn
  <2> QED
    BY <2>3, <2>4 DEF SlotsOwn
<1>3. ASSUME NEW t \in Task, InStore(t), BuildSucceeds(t) PROVE SlotsOwn'
  <2> DEFINE view == [client |-> context[arg[t].ctx].client, mounts |-> arg[t].mounts]
  <2>1. /\ arg[t].ctx \in Ctx /\ arg[t].project \in ProjectRoot
        /\ arg[t].mounts \in ProjectFiles[arg[t].project]
    <3>1. /\ stage[t] = "upsert_view" /\ arg[t].project = Root[t]
          /\ arg[t].mounts = request[t].mounts
          /\ arg[t].ctx \in Ctx /\ arg[t].project \in ProjectRoot
      BY <1>0, <1>3 DEF BuildSucceeds, ArgsFit, Core, CallFits
    <3>2. request[t].mounts \in ProjectFiles[Root[t]]
      BY <3>1 DEF OwnOK, HoldsOwn, Loading
    <3> QED
      BY <3>1, <3>2
  <2>2. /\ slot' = slot /\ context' = context
        /\ viewSlot' = [viewSlot EXCEPT ![arg[t].ctx][arg[t].project] = view]
    BY <1>3 DEF BuildSucceeds, slotVars
  <2>3. \A c \in Ctx, p \in ProjectRoot :
           \/ viewSlot'[c][p] = viewSlot[c][p]
           \/ p = arg[t].project /\ viewSlot'[c][p].mounts = arg[t].mounts
    BY <1>0, <2>1, <2>2 DEF TypeOK
  <2> QED
    BY <2>1, <2>2, <2>3 DEF OwnOK, SlotsOwn
<1> QED
  <2>1. CASE slot' = slot /\ context' = context /\ viewSlot' = viewSlot
    BY <2>1 DEF OwnOK, SlotsOwn
  <2> QED
    BY <1>1, <1>2, <1>3, <2>1, SlotsStay

\* When others move, what a handler holds stays its own.
LEMMA ApartKeepsOwn ==
    ASSUME Core, Step, NEW u \in Task, Apart(u), HoldsOwn(u) PROVE HoldsOwn(u)'
<1>1. CASE Wipe
  BY <1>1 DEF Wipe, HoldsOwn, Loading
<1>2. CASE ~Wipe
  <2>1. Held(u)' = Held(u) /\ \A c \in Held(u) : context'[c] = context[c]
    BY <1>2, HeldContextsStay DEF Held, Apart
  <2> QED
    BY <2>1 DEF HoldsOwn, Apart
<1> QED
  BY <1>1, <1>2

\* A request has nothing of the store in hand until its first lookup is answered.
LEMMA ReadDirectoryOwn ==
    ASSUME Core, NEW t \in Task, NEW d \in DestinationId, NEW a \in Asked,
           ReadDirectory(t, d, a[1], a[2])
    PROVE  HoldsOwn(t)'
<1>0. TypeOK /\ stage \in [Task -> Stages]
  BY DEF Core, IInv
<1>1. CASE stage' = [stage EXCEPT ![t] = "project"]
  BY <1>0, <1>1 DEF HoldsOwn, Loading
<1>2. CASE Get(t, d) /\ stage' = [stage EXCEPT ![t] = "get"]
  <2>1. stage'[t] = "get" /\ answer'[t] = None /\ arg'[t].ctx = None
    BY <1>0, <1>2 DEF Get, TypeOK, NoArg
  <2>2. Held(t)' = {}
    BY <2>1, NoneApart DEF Held
  <2> QED
    BY <2>1, <2>2 DEF HoldsOwn, Loading
<1> QED
  BY <1>1, <1>2 DEF ReadDirectory

\* A handler hands on what it holds, and reads its own project's and destination's
\* files.
LEMMA HandleOwn ==
    ASSUME Core, OwnOK, NEW t \in Task, Handle(t) PROVE HoldsOwn(t)'
<1>0. /\ TypeOK /\ stage \in [Task -> Stages]
      /\ request \in [Task -> Request \cup {NoRequest}]
      /\ RequestFits(t) /\ CallFits(t) /\ HoldsOwn(t)
  BY DEF Core, IInv, OwnOK
<1>1. CASE stage'[t] \in {"none", "failed", "project"}
  BY <1>1 DEF HoldsOwn, Loading
<1>2. CASE GotContext(t) /\ stage'[t] # "project"
  <2>1. /\ stage[t] = "get" /\ stage'[t] = "view" /\ request' = request
        /\ LookView(t, answer[t], Root[t])
    BY <1>0, <1>2 DEF GotContext, Goto
  <2>2. /\ answer[t] \in Held(t) /\ context' = context
        /\ arg'[t].ctx = answer[t] /\ answer'[t] = None
    BY <1>0, <2>1 DEF LookView, TypeOK, NoArg, slotVars
  <2>3. Held(t)' = {answer[t]}
    BY <2>2, NoneApart DEF Held
  <2> QED
    BY <1>0, <2>1, <2>2, <2>3 DEF HoldsOwn, Loading
<1>3. CASE GotView(t) /\ stage'[t] # "project"
  <2>1. stage[t] = "view" /\ stage'[t] = "walk" /\ request' = request /\ answer' = answer
    BY <1>0, <1>3 DEF GotView, Goto, store
  <2> QED
    BY <1>0, <2>1 DEF HoldsOwn, Loading
<1>4. CASE ReadProject(t) /\ stage'[t] # "failed"
  <2>1. /\ stage'[t] = "user" /\ request'[t].mounts = projectFile[Root[t]]
    <3>1. request[t] \in Request
      BY <1>0, <1>4 DEF ReadProject, RequestFits
    <3> QED
      BY <1>0, <1>4, <3>1 DEF ReadProject, Goto, Request
  <2>2. projectFile[Root[t]] \in ProjectFiles[Root[t]]
    BY Given DEF Core, FilesOK
  <2> QED
    BY <2>1, <2>2 DEF HoldsOwn
<1>5. CASE ReadUser(t) /\ stage'[t] # "failed"
  <2>1. stage[t] = "user" /\ stage'[t] = "destination" /\ request' = request
    BY <1>0, <1>5 DEF ReadUser, Goto
  <2> QED
    BY <1>0, <2>1 DEF HoldsOwn, Loading
<1>6. CASE ReadDestination(t) /\ stage'[t] # "failed"
  <2> DEFINE config == destinationFile[request[t].id]
  <2>1. /\ stage[t] = "destination" /\ stage'[t] = "upsert" /\ request' = request
        /\ config # Missing /\ Upsert(t, request[t].id, config)
    BY <1>0, <1>6 DEF ReadDestination, Goto
  <2>2. arg'[t].config = config /\ arg'[t].ctx = None /\ answer'[t] = None
    BY <1>0, <2>1 DEF Upsert, TypeOK, NoArg
  <2>3. Held(t)' = {}
    BY <2>2, NoneApart DEF Held
  <2>4. request[t].id \in DestinationId
    BY <1>0, <2>1 DEF RequestFits, Request
  <2>5. config \in Configs[request[t].id]
    BY <2>1, <2>4 DEF Core, FilesOK
  <2> QED
    BY <1>0, <2>1, <2>2, <2>3, <2>5 DEF HoldsOwn, Loading
<1>7. CASE Upserted(t) /\ stage'[t] # "failed"
  <2>1. /\ stage[t] = "upsert" /\ stage'[t] = "upsert_view" /\ request' = request
        /\ UpsertView(t, answer[t], Root[t], request[t].mounts)
    BY <1>0, <1>7 DEF Upserted, Goto
  <2>2. /\ answer[t] \in Held(t) /\ context' = context
        /\ arg'[t].ctx = answer[t] /\ answer'[t] = None
    BY <1>0, <2>1 DEF UpsertView, TypeOK, NoArg, slotVars
  <2>3. Held(t)' = {answer[t]}
    BY <2>2, NoneApart DEF Held
  <2> QED
    BY <1>0, <2>1, <2>2, <2>3 DEF HoldsOwn, Loading
<1>8. CASE UpsertedView(t) /\ stage'[t] # "failed"
  <2>1. /\ stage[t] = "upsert_view" /\ stage'[t] = "walk" /\ at[t] = "idle"
        /\ request' = request /\ answer' = answer /\ answer[t] # None
    BY <1>0, <1>8 DEF UpsertedView, Goto, store
  <2>2. answer[t] = [client |-> context[arg[t].ctx].client, mounts |-> request[t].mounts]
    BY <1>0, <2>1 DEF Core, IInv, UpsertViewFits, CallFits
  <2>3. arg[t].ctx \in Held(t)
    BY <1>0, <2>1 DEF CallFits, Held
  <2> QED
    BY <1>0, <2>1, <2>2, <2>3 DEF HoldsOwn, Loading
<1>9. CASE Walk(t) \/ RespondError(t)
  <2>1. stage'[t] \in {"none", "failed"}
    BY <1>0, <1>9 DEF Walk, RespondError, Finish, Goto
  <2> QED
    BY <1>1, <2>1
<1> QED
  BY <1>1, <1>2, <1>3, <1>4, <1>5, <1>6, <1>7, <1>8, <1>9 DEF Handle

\* The store answers from the slots of the destination and the project it was asked
\* for.
LEMMA InStoreOwn ==
    ASSUME Core, OwnOK, NEW t \in Task, InStore(t) PROVE HoldsOwn(t)'
<1>0. /\ TypeOK /\ ArgsFit /\ CallFits(t) /\ HoldsOwn(t) /\ SlotsOwn'
      /\ stage' = stage /\ request' = request
  BY SlotsOwnStep DEF Core, IInv, OwnOK, InStore, Step
<1>1. at[t] # "idle" /\ arg' = arg
  BY DEF InStore, Proceed, GetSlot, UpsertHits, TransportFails, StartDiscover, LookViewSlot,
         UpsertViewHits, MountsFail, StartBuild, Discovered, DiscoverSucceeds,
         DiscoverFails, Built, BuildSucceeds, BuildFails, Return, Suspend
<1>2. stage[t] \in {"get", "view", "upsert", "upsert_view"}
  BY <1>0, <1>1 DEF CallFits
<1>3. \A c \in Held(t) : context'[c] = context[c]
  <2>1. ~Wipe /\ Step
    BY <1>0, <1>2 DEF Wipe, Step
  <2> QED
    BY <2>1, HeldContextsStay
<1>4. CASE stage[t] \in {"get", "upsert"}
  <2>1. at[t] \in {"get", "upsert", "discover"} /\ arg[t].id = request[t].id
        /\ arg[t].id \in DestinationId
    BY <1>0, <1>1, <1>4 DEF CallFits, ArgsFit, TypeOK
  <2>2. answer'[t] \in {answer[t], slot'[arg[t].id], None}
    BY <1>0, <2>1
       DEF InStore, Proceed, GetSlot, UpsertHits, TransportFails, StartDiscover, LookViewSlot,
           UpsertViewHits, MountsFail, StartBuild, Discovered, DiscoverSucceeds,
           DiscoverFails, Built, BuildSucceeds, BuildFails, Return, Suspend, slotVars, TypeOK
  <2>3. \A c \in Held(t)' : c \in Held(t) \/ (c = slot'[arg[t].id] /\ slot'[arg[t].id] # None)
    BY <1>1, <2>2, NoneApart DEF Held
  <2>4. \A c \in Held(t)' : context'[c].client \in Configs[request[t].id]
    BY <1>0, <1>3, <1>4, <2>1, <2>3 DEF HoldsOwn, SlotsOwn
  <2> QED
    BY <1>0, <1>1, <1>4, <2>4 DEF HoldsOwn, Loading
<1>5. CASE stage[t] \in {"view", "upsert_view"}
  <2>1. /\ at[t] \in {"view", "upsert_view", "build"}
        /\ arg[t].ctx \in Ctx /\ arg[t].project = Root[t]
        /\ stage[t] = "view" => at[t] = "view"
    BY <1>0, <1>1, <1>5 DEF CallFits, ArgsFit, TypeOK
  <2>2. answer'[t] \in {answer[t]} \cup View \cup {None}
    <3>1. viewSlot[arg[t].ctx][arg[t].project] \in View \cup {None}
      BY <1>0, <2>1, Given DEF TypeOK
    <3>2. at[t] = "build" => arg[t].mounts \in MountConfigs
      BY <1>0 DEF ArgsFit
    <3>3. context[arg[t].ctx] \in Context
      BY <1>0, <2>1 DEF Core, IInv, HeldExist, Held, TypeOK
    <3>4. at[t] = "build" => [client |-> context[arg[t].ctx].client,
                              mounts |-> arg[t].mounts] \in View
      BY <3>2, <3>3 DEF View, Context
    <3> QED
      BY <1>0, <2>1, <3>1, <3>4
         DEF InStore, Proceed, GetSlot, UpsertHits, TransportFails, StartDiscover, LookViewSlot,
             UpsertViewHits, MountsFail, StartBuild, Discovered, DiscoverSucceeds,
             DiscoverFails, Built, BuildSucceeds, BuildFails, Return, Suspend, ViewInSlot, TypeOK
  <2>3. \A c \in Held(t)' : c \in Held(t)
    BY <1>1, <2>2, NoneApart DEF Held
  <2>4. \A c \in Held(t)' : context'[c].client \in Configs[request[t].id]
    BY <1>0, <1>3, <1>5, <2>3 DEF HoldsOwn
  <2>5. ASSUME stage[t] = "view", answer'[t] # None
        PROVE  /\ answer'[t].mounts \in ProjectFiles[Root[t]]
               /\ answer'[t].client \in Configs[request[t].id]
    <3>1. LookViewSlot(t)
      BY <1>0, <2>1, <2>5
         DEF InStore, Proceed, GetSlot, UpsertHits, TransportFails, StartDiscover,
             UpsertViewHits, MountsFail, StartBuild, Discovered, DiscoverSucceeds,
             DiscoverFails, Built, BuildSucceeds, BuildFails
    <3>2. answer'[t] = viewSlot[arg[t].ctx][Root[t]]
      BY <1>0, <2>1, <3>1 DEF LookViewSlot, Return, ViewInSlot, TypeOK
    <3>3. /\ answer'[t].mounts \in ProjectFiles[Root[t]]
          /\ answer'[t].client = context[arg[t].ctx].client
      BY <2>1, <2>5, <3>2, Given DEF OwnOK, SlotsOwn, Core, IInv, ViewsFit
    <3>4. arg[t].ctx \in Held(t)
      BY <2>1 DEF Held
    <3> QED
      BY <1>0, <2>5, <3>3, <3>4 DEF HoldsOwn
  <2> QED
    BY <1>0, <1>1, <1>5, <2>4, <2>5 DEF HoldsOwn, Loading
<1> QED
  BY <1>2, <1>4, <1>5

\* Every step leaves to each its own.
LEMMA OwnStep ==
    Core /\ OwnOK /\ (Step \/ UNCHANGED <<store, files, stage, request>>) => OwnOK'
<1> SUFFICES ASSUME Core, OwnOK, Step \/ UNCHANGED <<store, files, stage, request>>
             PROVE  OwnOK'
  OBVIOUS
<1>1. CASE UNCHANGED <<store, files, stage, request>>
  BY <1>1 DEF store, slotVars, viewVars, OwnOK, SlotsOwn, HoldsOwn, Held
<1>2. CASE Step
  <2>1. SlotsOwn'
    BY <1>2, SlotsOwnStep
  <2>2. ASSUME NEW t \in Task, \A u \in Task \ {t} : Apart(u), HoldsOwn(t)' PROVE OwnOK'
    BY <1>2, <2>1, <2>2, ApartKeepsOwn DEF OwnOK
  <2>3. ASSUME NEW t \in Task, CancelRequest(t) PROVE HoldsOwn(t)'
    <3>1. stage'[t] = "none"
      BY <2>3 DEF CancelRequest, Finish, Core
    <3> QED
      BY <3>1 DEF HoldsOwn, Loading
  <2>4. ASSUME UNCHANGED <<store, stage, request>> PROVE OwnOK'
    <3>1. \A u \in Task : Apart(u)
      BY <2>4 DEF store, Apart
    <3> QED
      BY <1>2, <2>1, <3>1, ApartKeepsOwn DEF OwnOK
  <2>5. CASE Wipe
    BY <2>1, <2>5 DEF Wipe, OwnOK, HoldsOwn, Loading
  <2> QED
    BY <1>2, <2>2, <2>3, <2>4, <2>5, OthersApart, ReadDirectoryOwn, HandleOwn, InStoreOwn
       DEF Step, EditProject, EditDestination
<1> QED
  BY <1>1, <1>2

\* The store is empty when a process starts, and nobody holds anything.
LEMMA InitOwn == NavInit => OwnOK
BY DEF NavInit, Init, OwnOK, SlotsOwn, HoldsOwn, Loading

LEMMA OwnIsWalked == Core /\ OwnOK => WalksOwnView
BY NoneApart DEF OwnOK, Core, HoldsOwn, CallFits, WalksOwnView

\* Whoever shares the store, loads, refreshes or is cancelled: a request walks a tree
\* of mounts its own project has listed, through a client for its own destination,
\* even if fingerprints collide.
THEOREM RequestsWalkTheirOwn == NavSpec => []WalksOwnView
<1>1. Core /\ OwnOK => WalksOwnView
  BY OwnIsWalked
<1>2. Core /\ OwnOK /\ [NavNext]_navVars => OwnOK'
  BY NextIsStep, OwnStep
<1> QED
  BY <1>1, <1>2, InitOwn, AlwaysCore, PTL DEF NavSpec
==============================================================================
