----------------------------- MODULE AtomicStore -----------------------------
(***************************************************************************)
(* What the SystemContextStore of src/src/context.rs promises its callers, *)
(* without maps, locks or phases: a call takes effect in one step, the one *)
(* in which it returns.  A filling call that returns found nothing fitting *)
(* in that step, whatever others did while it was connecting or building;  *)
(* a failed or dropped one has no effect; each context starts without      *)
(* views.                                                                  *)
(***************************************************************************)
CONSTANTS Task, DestinationId, ProjectRoot, DestinationConfig, MountConfigs, Ctx,
          None, Configs, Fingerprint, BadTransport, BadMounts

VARIABLES slot,      \* the context of each destination
          context,   \* what each context was built for
          viewSlot,  \* the view of each project in each context
          pending,   \* whether a task's call has yet to return
          arg,       \* the arguments of its last call
          answer     \* what that call returned

store == <<slot, context, viewSlot>>
vars == <<store, pending, arg, answer>>

NoArg == [op |-> "none", id |-> None, config |-> None, ctx |-> None,
          project |-> None, mounts |-> None]

Init ==
    /\ slot = [d \in DestinationId |-> None]
    /\ context = [c \in Ctx |-> None]
    /\ viewSlot = [c \in Ctx |-> [p \in ProjectRoot |-> None]]
    /\ pending = [t \in Task |-> FALSE]
    /\ arg = [t \in Task |-> NoArg]
    /\ answer = [t \in Task |-> None]

\* The contexts the store or some task refers to.
Held(t) == {answer[t], arg[t].ctx} \cap Ctx
InUse == {slot[d] : d \in DestinationId} \cup UNION {Held(t) : t \in Task}
------------------------------------------------------------------------------
\* The call a of task t begins; one that can only miss may return at once.
Begin(t, a, misses) ==
    /\ ~pending[t]
    /\ arg' = [arg EXCEPT ![t] = a]
    /\ answer' = [answer EXCEPT ![t] = None]
    /\ \/ pending' = [pending EXCEPT ![t] = TRUE]
       \/ misses /\ UNCHANGED pending
    /\ UNCHANGED store

Call(t) ==
    \/ \E d \in DestinationId :
          \/ Begin(t, [NoArg EXCEPT !.op = "get", !.id = d], slot[d] = None)
          \/ \E config \in Configs[d] :
                Begin(t, [NoArg EXCEPT !.op = "upsert", !.id = d, !.config = config], FALSE)
    \/ \E c \in Held(t), p \in ProjectRoot :
          \/ Begin(t, [NoArg EXCEPT !.op = "view", !.ctx = c, !.project = p],
                   viewSlot[c][p] = None)
          \/ \E mounts \in MountConfigs :
                Begin(t, [NoArg EXCEPT !.op = "upsert_view", !.ctx = c, !.project = p,
                                       !.mounts = mounts], FALSE)

Return(t, v) ==
    /\ pending[t]
    /\ pending' = [pending EXCEPT ![t] = FALSE]
    /\ answer' = [answer EXCEPT ![t] = v]
    /\ UNCHANGED arg

GetReturns(t) ==
    /\ arg[t].op = "get"
    /\ Return(t, slot[arg[t].id])
    /\ UNCHANGED store

ViewReturns(t) ==
    /\ arg[t].op = "view"
    /\ Return(t, viewSlot[arg[t].ctx][arg[t].project])
    /\ UNCHANGED store

\* The context upsert wants is there already.
Connected(t) ==
    /\ slot[arg[t].id] # None
    /\ context[slot[arg[t].id]].fingerprint = Fingerprint[arg[t].config]

UpsertReturns(t) ==
    /\ arg[t].op = "upsert"
    /\ \/ /\ Connected(t)
          /\ Return(t, slot[arg[t].id])
          /\ UNCHANGED store
       \/ /\ ~Connected(t)
          /\ Return(t, None)
          /\ UNCHANGED store
       \/ /\ ~Connected(t)
          /\ arg[t].config \notin BadTransport
          /\ \E c \in Ctx \ InUse :
                /\ Return(t, c)
                /\ slot' = [slot EXCEPT ![arg[t].id] = c]
                /\ context' = [context EXCEPT ![c] =
                                 [client |-> arg[t].config,
                                  fingerprint |-> Fingerprint[arg[t].config]]]
                /\ viewSlot' = [viewSlot EXCEPT ![c] = [p \in ProjectRoot |-> None]]

\* The view upsert_view wants is there already.
Browsable(t) ==
    /\ viewSlot[arg[t].ctx][arg[t].project] # None
    /\ viewSlot[arg[t].ctx][arg[t].project].mounts = arg[t].mounts

UpsertViewReturns(t) ==
    /\ arg[t].op = "upsert_view"
    /\ \/ /\ Browsable(t)
          /\ Return(t, viewSlot[arg[t].ctx][arg[t].project])
          /\ UNCHANGED store
       \/ /\ ~Browsable(t)
          /\ Return(t, None)
          /\ UNCHANGED store
       \/ /\ ~Browsable(t)
          /\ arg[t].mounts \notin BadMounts
          /\ LET view == [client |-> context[arg[t].ctx].client, mounts |-> arg[t].mounts] IN
                /\ Return(t, view)
                /\ viewSlot' = [viewSlot EXCEPT ![arg[t].ctx][arg[t].project] = view]
          /\ UNCHANGED <<slot, context>>

\* The caller is gone, before or after its call returned.
Drop(t) ==
    /\ pending' = [pending EXCEPT ![t] = FALSE]
    /\ arg' = [arg EXCEPT ![t] = NoArg]
    /\ answer' = [answer EXCEPT ![t] = None]
    /\ UNCHANGED store

Next ==
    \E t \in Task :
       \/ Call(t)
       \/ GetReturns(t) \/ UpsertReturns(t) \/ ViewReturns(t) \/ UpsertViewReturns(t)
       \/ Drop(t)

Spec == Init /\ [][Next]_vars
==============================================================================
