------------------------------ MODULE Navigation ------------------------------
(***************************************************************************)
(* ziege/fileSystem/readDirectory (src/src/handlers/navigation.rs) on top  *)
(* of SystemContextStore: a request finds its project's view in the store, *)
(* or loads the configuration files and upserts a context and a view, and  *)
(* then walks the view's tree.  Users edit the files meanwhile, and the    *)
(* process may be killed and started again.                                *)
(*                                                                         *)
(* A task is a handler future of a connection, bound to the project root   *)
(* its connection was initialized with.  A path is the portal's root, or   *)
(* one below a mount; the mounts it lies under stand for it.               *)
(***************************************************************************)
EXTENDS SystemContextStore

CONSTANTS Root,      \* the project root each task's connection is bound to
          Portal,    \* the empty path, a portal's root directory
          Missing,   \* a file that is absent, malformed or lacks the destination
          ProjectFiles,      \* what users put into each project's ziege.toml
          DestinationFiles,  \* what they put into destinations.toml
          Asked      \* the <<path, refresh>> of the requests clients make

ASSUME NavigationAssumption ==
    /\ Root \in [Task -> ProjectRoot]
    /\ Missing \notin DestinationConfig \cup MountConfigs
    /\ None \notin [client : DestinationConfig \cup {Missing},
                    mounts : MountConfigs \cup {Missing}]
    /\ ProjectFiles \in [ProjectRoot -> SUBSET (MountConfigs \cup {Missing})]
    /\ DestinationFiles \subseteq DestinationConfig \cup {Missing}
    /\ Asked \subseteq ({Portal} \cup MountConfigs) \X BOOLEAN

VARIABLES
    projectFile,     \* the mounts each project's ziege.toml selects
    destinationFile, \* the configuration destinations.toml gives each destination
    stage,           \* what each request is doing
    request,         \* its parameters, and the mounts it read
    missed,          \* history: a request found a moment without its view
    since            \* history: what the files held since a request began to load

files == <<projectFile, destinationFile>>
store == <<slotVars, viewVars, at, arg, answer>>
navVars == <<store, files, stage, request, missed, since>>

Path == {Portal} \cup MountConfigs
Request == [id : DestinationId, path : Path, refresh : BOOLEAN,
            mounts : MountConfigs \cup {None}]
Loading == {"project", "user", "destination", "upsert", "upsert_view"}
Stages == {"none", "get", "view", "walk", "failed"} \cup Loading

\* The view that requests of project p find at destination d.
Selected(d, p) == IF slot[d] = None THEN None ELSE viewSlot[slot[d]][p]

NavTypeOK ==
    /\ TypeOK
    /\ projectFile \in [ProjectRoot -> MountConfigs \cup {Missing}]
    /\ destinationFile \in [DestinationId -> DestinationConfig \cup {Missing}]
    /\ stage \in [Task -> Stages]
    /\ \A t \in Task :
          /\ stage[t] # "none" => request[t] \in Request
          /\ at[t] # "idle" => stage[t] \in {"get", "view", "upsert", "upsert_view"}
          /\ stage[t] = "walk" => answer[t] \in View

NoRequest == [id |-> None, path |-> Portal, refresh |-> FALSE, mounts |-> None]
NoHistory == [mounts |-> {}, configs |-> {}]

NavInit ==
    /\ Init
    /\ projectFile \in {f \in [ProjectRoot -> MountConfigs] :
                           \A p \in ProjectRoot : f[p] \in ProjectFiles[p]}
    /\ destinationFile \in {f \in [DestinationId -> DestinationFiles \ {Missing}] :
                               \A d \in DestinationId : f[d] \in Configs[d]}
    /\ stage = [t \in Task |-> "none"]
    /\ request = [t \in Task |-> NoRequest]
    /\ missed = [t \in Task |-> FALSE]
    /\ since = [t \in Task |-> NoHistory]

Goto(t, s) == stage' = [stage EXCEPT ![t] = s] /\ UNCHANGED <<request, files>>
------------------------------------------------------------------------------
(* Server::repository_view, between the calls to the store *)

\* Mutant: any refresh reloads, not only that of the portal's root.
ReloadsAnywhere(path, refresh) == refresh

Reloads(path, refresh) == refresh /\ path = Portal

ReadDirectory(t, d, path, refresh) ==
    /\ stage[t] = "none"
    /\ request' = [request EXCEPT ![t] = [id |-> d, path |-> path, refresh |-> refresh,
                                          mounts |-> None]]
    /\ \/ /\ Reloads(path, refresh)
          /\ stage' = [stage EXCEPT ![t] = "project"]
          /\ UNCHANGED store
       \/ /\ ~Reloads(path, refresh)
          /\ Get(t, d)
          /\ stage' = [stage EXCEPT ![t] = "get"]
    /\ UNCHANGED files

\* contexts.get(id) came back.
GotContext(t) ==
    /\ stage[t] = "get" /\ at[t] = "idle"
    /\ \/ /\ answer[t] = None
          /\ Goto(t, "project")
          /\ UNCHANGED store
       \/ /\ answer[t] # None
          /\ LookView(t, answer[t], Root[t])
          /\ Goto(t, "view")

\* Mutant: a view that is not there is walked all the same.
GotViewUnchecked(t) ==
    /\ stage[t] = "view" /\ at[t] = "idle"
    /\ Goto(t, "walk")
    /\ UNCHANGED store

\* Mutant: a view that is not there is waited for instead of loaded.
GotViewRetrying(t) ==
    /\ stage[t] = "view" /\ at[t] = "idle"
    /\ \/ answer[t] # None /\ Goto(t, "walk") /\ UNCHANGED store
       \/ answer[t] = None /\ Goto(t, "get") /\ Get(t, request[t].id)

\* context.view(root) came back.
GotView(t) ==
    /\ stage[t] = "view" /\ at[t] = "idle"
    /\ Goto(t, IF answer[t] = None THEN "project" ELSE "walk")
    /\ UNCHANGED store

\* Mutant: a project file that cannot be read counts as one without mounts.
ReadProjectLeniently(t) ==
    /\ stage[t] = "project"
    /\ \E mounts \in MountConfigs :
          /\ projectFile[Root[t]] \in {Missing, mounts}
          /\ request' = [request EXCEPT ![t].mounts = mounts]
    /\ stage' = [stage EXCEPT ![t] = "user"]
    /\ UNCHANGED <<store, files>>

\* load_local_project, and the lookup of the destination in its systems table.
ReadProject(t) ==
    /\ stage[t] = "project"
    /\ \/ /\ projectFile[Root[t]] = Missing
          /\ Goto(t, "failed")
       \/ /\ projectFile[Root[t]] # Missing
          /\ request' = [request EXCEPT ![t].mounts = projectFile[Root[t]]]
          /\ stage' = [stage EXCEPT ![t] = "user"]
          /\ UNCHANGED files
    /\ UNCHANGED store

\* load_user_configuration: only whether it loads matters to navigation.
ReadUser(t) ==
    /\ stage[t] = "user"
    /\ Goto(t, "destination") \/ Goto(t, "failed")
    /\ UNCHANGED store

\* load_destination, then contexts.upsert with what it read.
ReadDestination(t) ==
    LET config == destinationFile[request[t].id] IN
    /\ stage[t] = "destination"
    /\ \/ /\ config = Missing
          /\ Goto(t, "failed")
          /\ UNCHANGED store
       \/ /\ config # Missing
          /\ Upsert(t, request[t].id, config)
          /\ Goto(t, "upsert")

\* contexts.upsert came back.
Upserted(t) ==
    /\ stage[t] = "upsert" /\ at[t] = "idle"
    /\ \/ /\ answer[t] = None
          /\ Goto(t, "failed")
          /\ UNCHANGED store
       \/ /\ answer[t] # None
          /\ UpsertView(t, answer[t], Root[t], request[t].mounts)
          /\ Goto(t, "upsert_view")

\* context.upsert_view came back.
UpsertedView(t) ==
    /\ stage[t] = "upsert_view" /\ at[t] = "idle"
    /\ Goto(t, IF answer[t] = None THEN "failed" ELSE "walk")
    /\ UNCHANGED store
------------------------------------------------------------------------------
(* The rest of Server::read_directory *)

\* The request is over and its future gone: answered, or cancelled.
Finish(t) ==
    /\ Drop(t)
    /\ stage' = [stage EXCEPT ![t] = "none"]
    /\ request' = [request EXCEPT ![t] = NoRequest]
    /\ UNCHANGED files

\* resolve_path, then children or refresh of the node: a path resolves only in
\* a view that has its mount, and any of the backend's answers may be an error.
Walk(t) ==
    /\ stage[t] = "walk"
    /\ \/ request[t].path \in {Portal, answer[t].mounts} /\ Finish(t)
       \/ Goto(t, "failed") /\ UNCHANGED store

RespondError(t) == stage[t] = "failed" /\ Finish(t)

CancelRequest(t) == stage[t] # "none" /\ Finish(t)
------------------------------------------------------------------------------
(* Outside *)

EditProject(p) ==
    /\ \E m \in ProjectFiles[p] : projectFile' = [projectFile EXCEPT ![p] = m]
    /\ UNCHANGED <<store, destinationFile, stage, request>>

EditDestination(d) ==
    /\ \E f \in DestinationFiles \cap (Configs[d] \cup {Missing}) :
          destinationFile' = [destinationFile EXCEPT ![d] = f]
    /\ UNCHANGED <<store, projectFile, stage, request>>

\* The process is gone, and with it the store and every handler.
Wipe ==
    /\ slots' = {}
    /\ slot' = [d \in DestinationId |-> None]
    /\ builder' = [d \in DestinationId |-> None]
    /\ context' = [c \in Ctx |-> None]
    /\ viewSlots' = [c \in Ctx |-> {}]
    /\ viewSlot' = [c \in Ctx |-> [p \in ProjectRoot |-> None]]
    /\ viewBuilder' = [c \in Ctx |-> [p \in ProjectRoot |-> None]]
    /\ at' = [t \in Task |-> "idle"]
    /\ arg' = [t \in Task |-> NoArg]
    /\ answer' = [t \in Task |-> None]
    /\ stage' = [t \in Task |-> "none"]
    /\ request' = [t \in Task |-> NoRequest]

\* The process is killed and started again; only the files remain.
Restart == slots # {} /\ Wipe /\ UNCHANGED files
------------------------------------------------------------------------------
\* The histories.  missed is kept from the first lookup to the first file read,
\* since from then on.
SelectedFor(t) == Selected(request[t].id, Root[t])
Now(t) == [mounts |-> {projectFile[Root[t]]} \ {Missing},
           configs |-> {destinationFile[request[t].id]} \ {Missing}]

Record ==
    /\ missed' = [t \in Task |-> /\ stage'[t] \in {"get", "view", "project"}
                                 /\ missed[t] \/ SelectedFor(t)' = None]
    /\ since' = [t \in Task |->
                   CASE stage[t] # "project" /\ stage'[t] = "project" -> Now(t)'
                     [] \/ stage[t] \in Loading /\ stage'[t] \in Loading \cup {"walk"}
                        \/ stage[t] = "walk" /\ stage'[t] = "walk" /\ request[t].mounts # None
                          -> [mounts |-> since[t].mounts \cup Now(t)'.mounts,
                              configs |-> since[t].configs \cup Now(t)'.configs]
                     [] OTHER -> NoHistory]

\* A step of the handler itself, and one of the store on its behalf.
Handle(t) ==
    \/ GotContext(t) \/ GotView(t)
    \/ ReadProject(t) \/ ReadUser(t) \/ ReadDestination(t)
    \/ Upserted(t) \/ UpsertedView(t)
    \/ Walk(t) \/ RespondError(t)
InStore(t) ==
    /\ Proceed(t) \/ Discovered(t) \/ Built(t)
    /\ UNCHANGED <<files, stage, request>>

NavNext ==
    /\ \/ \E t \in Task :
             \/ \E d \in DestinationId, a \in Asked : ReadDirectory(t, d, a[1], a[2])
             \/ Handle(t)
             \/ InStore(t)
             \/ CancelRequest(t)
       \/ \E p \in ProjectRoot : EditProject(p)
       \/ \E d \in DestinationId : EditDestination(d)
       \/ Restart
    /\ Record

NavSpec == NavInit /\ [][NavNext]_navVars
------------------------------------------------------------------------------
(* Properties *)

RootRefresh(t) == request[t].refresh /\ request[t].path = Portal

\* A request that loads, and every root refresh, lists mounts its own project's
\* ziege.toml held, with a client for a configuration destinations.toml held, at
\* some time since it began to load: it is never answered with older data.
LoadsAreCurrent ==
    \A t \in Task :
       (stage[t] = "walk" /\ (request[t].mounts # None \/ RootRefresh(t)))
          => /\ answer[t].mounts \in since[t].mounts
             /\ answer[t].client \in since[t].configs

\* The one store of the process serves every connection, yet a request walks a tree
\* of mounts that its own project has listed, through a client for the destination
\* its URI names, however old the view it was given.
WalksOwnView ==
    \A t \in Task :
       stage[t] = "walk" => /\ answer[t].mounts \in ProjectFiles[Root[t]]
                            /\ answer[t].client \in Configs[request[t].id]

\* A request that does not refresh the root reads no configuration unless its
\* project's view was missing at some time since it began: browsing goes on with
\* the files gone or broken, whoever else loads, fails or cancels meanwhile.
CachedViewNeedsNoFiles ==
    \A t \in Task : (stage[t] = "project" /\ ~RootRefresh(t)) => missed[t]

\* The view that requests of p find at d is the one its files now describe.
Current(d, p) ==
    Selected(d, p) = [client |-> destinationFile[d], mounts |-> projectFile[p]]

\* t is filling a slot with what a file held before it was edited.
Outdated(t, d, p) ==
    \/ at[t] = "discover" /\ arg[t].id = d /\ arg[t].config # destinationFile[d]
    \/ at[t] = "build" /\ Root[t] = p /\ arg[t].mounts # projectFile[p]

\* Once the store agrees with the files, only an edit, a restart, or a load that
\* read the files before an edit makes it differ: the store takes the data of
\* whichever load ends last, and never loses a view to one that read the same.
CurrentStaysCurrent ==
    [][\A d \in DestinationId, p \in ProjectRoot :
          (Current(d, p) /\ ~Current(d, p)')
             => files' # files \/ slots' = {} \/ \E t \in Task : Outdated(t, d, p)]_navVars
==============================================================================
