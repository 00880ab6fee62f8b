----------------------------- MODULE ServerProcess -----------------------------
(***************************************************************************)
(* The whole process of src/src/main.rs: the listener and its workers      *)
(* (ConnectionLifecycle) with the requests their handlers serve            *)
(* (Navigation) on the one SystemContextStore all connections share.  What *)
(* joins them: a handler starts only on an accepted, initialized transport *)
(* that is still open; LspServer::serve returns once its handlers have;    *)
(* and leaving main takes the handlers and the store with it.  The files   *)
(* are not edited here, and Navigation's histories are not kept.           *)
(***************************************************************************)
EXTENDS Navigation, Integers, Sequences

CONSTANTS Conns, IdleTimeout,  \* as in ConnectionLifecycle
          Of                   \* the connection whose worker runs each task

ASSUME ProcessAssumption ==
    /\ IsFiniteSet(Conns) /\ IdleTimeout \in Nat
    /\ Of \in [Task -> Conns]

VARIABLES active_connections, has_accepted_connection, idle_deadline, daemon,
          running, connection_rx, phase, bound, hungup

L == INSTANCE ConnectionLifecycle

listener == <<active_connections, has_accepted_connection, idle_deadline, daemon,
              running, connection_rx, phase, bound, hungup>>
histories == <<missed, since>>
procVars == <<navVars, listener>>

ProcessInit == NavInit /\ L!Init
------------------------------------------------------------------------------
(* Requests *)

\* A request is read before the hangup that follows it.
ReadRequest(t) ==
    /\ running
    /\ phase[Of[t]] = "serving" /\ Of[t] \in bound \ hungup
    /\ \E d \in DestinationId, a \in Asked : ReadDirectory(t, d, a[1], a[2])
    /\ UNCHANGED <<histories, listener>>

\* Only a client that is still there can cancel.
ClientCancels(t) ==
    /\ Of[t] \notin hungup
    /\ CancelRequest(t)
    /\ UNCHANGED <<histories, listener>>

\* The handler goes on: by itself, with a lock, or with a backend's answer.
Advance(t) ==
    /\ Handle(t) \/ InStore(t)
    /\ UNCHANGED <<histories, listener>>
------------------------------------------------------------------------------
(* Listener, workers and clients *)

Working(c) == \E t \in Task : Of[t] = c /\ stage[t] # "none"

Client(c) ==
    /\ L!ClientConnects(c) \/ L!ClientHangsUp(c)
    /\ UNCHANGED navVars

Initialize(c) == L!WorkerInitializes(c) /\ UNCHANGED navVars

\* serve() returns: its input has ended, and so have its handlers.
WorkerEnds(c) == L!WorkerEnds(c) /\ ~Working(c) /\ UNCHANGED navVars

Accept(c) == (L!Accept(c) \/ L!AcceptFails(c)) /\ UNCHANGED navVars

\* When main returns the runtime drops every future, and the store is gone.
Outcome ==
    IF running' THEN UNCHANGED navVars ELSE Wipe /\ UNCHANGED <<files, histories>>

HandleEvent == L!HandleEvent /\ Outcome
IdleTimeoutFires == L!IdleTimeoutFires /\ Outcome
Tick == L!Tick /\ UNCHANGED navVars
Rest == L!Rest /\ UNCHANGED navVars
------------------------------------------------------------------------------
ProcessNext ==
    \/ \E t \in Task : ReadRequest(t) \/ ClientCancels(t) \/ Advance(t)
    \/ \E c \in Conns : Client(c) \/ Initialize(c) \/ WorkerEnds(c) \/ Accept(c)
    \/ HandleEvent \/ IdleTimeoutFires \/ Tick \/ Rest

\* The handler waits for the answer of a backend that may never come.
HeldUp(t) ==
    \/ stage[t] = "walk" /\ answer[t].client \in Silent
    \/ at[t] = "discover" /\ arg[t].config \in Silent
    \/ at[t] = "build" /\ context[arg[t].ctx].client \in Silent

\* The fairness of both parts, but for the end of a worker, which is now up to its
\* handlers.  A handler gets on by files it reads, locks it is handed in its turn
\* (SF) and backends that are not Silent.
ProcessFairness ==
    /\ \A t \in Task : SF_procVars(Advance(t) /\ ~HeldUp(t))
    /\ \A c \in Conns : WF_procVars(Accept(c)) /\ WF_procVars(WorkerEnds(c))
    /\ WF_procVars(HandleEvent)
    /\ WF_procVars(IdleTimeoutFires)
    /\ WF_procVars(Tick)

ProcessSpec == ProcessInit /\ [][ProcessNext]_procVars /\ ProcessFairness
------------------------------------------------------------------------------
(* Properties *)

\* main never leaves its loop while a handler is at work: neither the idle timeout
\* nor the end of another connection cuts a request off.
NoRequestCutOff ==
    [][running /\ ~running' => \A t \in Task : stage[t] = "none"]_procVars

\* A process all clients have left goes too.  Nothing times a backend out
\* (ContextError::BuildTimeout is never raised), so a silent one can keep it; but
\* nothing else does.
AbandonedProcessLeaves ==
    L!Abandoned ~> (~running \/ L!Wanted \/ \E t \in Task : HeldUp(t))

\* A request ends, its client there or not, unless its own backend is silent:
\* whoever held the locks it needs has ended, failed, been cancelled or hung up.
EveryRequestEnds ==
    \A t \in Task :
       (stage[t] # "none" /\ destinationFile[request[t].id] \notin Silent)
          ~> stage[t] = "none"
==============================================================================
