------------------------- MODULE ConnectionLifecycle -------------------------
(***************************************************************************)
(* The TCP listener of src/src/main.rs together with ConnectionLifecycle   *)
(* of src/src/lifecycle.rs: the tokio::select! loop over accept, worker    *)
(* events and the idle timeout, and the workers that feed its channel.     *)
(*                                                                         *)
(* Each connection is used once (a reconnect is another element of Conns). *)
(* Events carry their sender only so that properties can speak about it:   *)
(* OnEvent looks at the kind alone, as the code does.  A deadline is kept  *)
(* as the ticks left until it, so Instant::now() + idle_timeout is         *)
(* IdleTimeout and a passed deadline is 0.                                 *)
(***************************************************************************)
EXTENDS Integers, Sequences, FiniteSets

CONSTANTS Conns,        \* the transports clients may open
          IdleTimeout   \* idle_timeout of a daemon, in ticks

ASSUME LifecycleAssumption ==
    /\ IsFiniteSet(Conns)
    /\ IdleTimeout \in Nat

VARIABLES
    \* struct ConnectionLifecycle
    active_connections, has_accepted_connection, idle_deadline, daemon,
    running,            \* main has not left its loop
    connection_rx,      \* the unbounded mpsc channel of ConnectionEvent
    \* the transports and the worker tasks behind them
    phase,              \* how far each transport has come
    bound,              \* workers whose initialize succeeded
    hungup              \* transports the client closed (or sent `exit` on)

lifecycle == <<active_connections, has_accepted_connection, idle_deadline, daemon>>
vars == <<lifecycle, running, connection_rx, phase, bound, hungup>>

NoDeadline == -1

\* absent   not opened yet             backlog  connected, not yet accepted
\* serving  LspServer::serve runs      closed   TransportClosed sent
\* gone     TransportClosed applied    refused  accept() returned an error
Phases == {"absent", "backlog", "serving", "closed", "gone", "refused"}
Event == [kind : {"Initialized", "TransportClosed"}, from : Conns]

TypeOK ==
    /\ active_connections \in Nat
    /\ has_accepted_connection \in BOOLEAN
    /\ idle_deadline \in {NoDeadline} \cup 0..IdleTimeout
    /\ daemon \in BOOLEAN
    /\ running \in BOOLEAN
    /\ connection_rx \in Seq(Event)
    /\ phase \in [Conns -> Phases]
    /\ bound \in SUBSET Conns
    /\ hungup \in SUBSET Conns

Init ==
    /\ daemon \in BOOLEAN
    /\ active_connections = 0
    /\ has_accepted_connection = FALSE
    /\ idle_deadline = IF daemon THEN IdleTimeout ELSE NoDeadline
    /\ running = TRUE
    /\ connection_rx = <<>>
    /\ phase = [c \in Conns |-> "absent"]
    /\ bound = {}
    /\ hungup = {}

Send(k, c) == connection_rx' = Append(connection_rx, [kind |-> k, from |-> c])
------------------------------------------------------------------------------
(* ConnectionLifecycle *)

\* Mutant: an accepted transport puts the deadline off instead of clearing it.
ConnectedPostpones ==
    /\ active_connections' = active_connections + 1
    /\ has_accepted_connection' = TRUE
    /\ idle_deadline' = IF idle_deadline = NoDeadline THEN NoDeadline
                        ELSE idle_deadline + IdleTimeout
    /\ UNCHANGED daemon

\* Mutant: an accepted transport leaves the daemon's deadline armed.
ConnectedKeepsDeadline ==
    /\ active_connections' = active_connections + 1
    /\ has_accepted_connection' = TRUE
    /\ UNCHANGED <<idle_deadline, daemon>>

Connected ==
    /\ active_connections' = active_connections + 1
    /\ has_accepted_connection' = TRUE
    /\ idle_deadline' = NoDeadline
    /\ UNCHANGED daemon

SaturatingPred(n) == IF n = 0 THEN 0 ELSE n - 1

\* Mutant: every disconnect of a daemon arms the deadline, not only the last.
DisconnectedAlwaysArms ==
    /\ active_connections' = SaturatingPred(active_connections)
    /\ idle_deadline' = IF daemon THEN IdleTimeout ELSE idle_deadline
    /\ UNCHANGED <<has_accepted_connection, daemon>>

\* Mutant: the test reads the count from before the decrement.
DisconnectedTestsOldCount ==
    /\ active_connections' = SaturatingPred(active_connections)
    /\ idle_deadline' = IF daemon /\ active_connections = 0
                        THEN IdleTimeout ELSE idle_deadline
    /\ UNCHANGED <<has_accepted_connection, daemon>>

Disconnected ==
    /\ active_connections' = SaturatingPred(active_connections)
    /\ idle_deadline' = IF daemon /\ active_connections' = 0
                        THEN IdleTimeout ELSE idle_deadline
    /\ UNCHANGED <<has_accepted_connection, daemon>>

OnEvent(k) ==
    \/ /\ k = "Initialized"
       /\ idle_deadline' = NoDeadline
       /\ UNCHANGED <<active_connections, has_accepted_connection, daemon>>
    \/ /\ k = "TransportClosed"
       /\ Disconnected

\* Evaluated on the lifecycle as OnEvent left it.
ShouldExit == ~daemon' /\ has_accepted_connection' /\ active_connections' = 0
------------------------------------------------------------------------------
(* Clients, outside the process *)

ClientConnects(c) ==
    /\ running
    /\ phase[c] = "absent"
    /\ phase' = [phase EXCEPT ![c] = "backlog"]
    /\ UNCHANGED <<lifecycle, running, connection_rx, bound, hungup>>

ClientHangsUp(c) ==
    /\ running
    /\ phase[c] \in {"backlog", "serving"}
    /\ c \notin hungup
    /\ hungup' = hungup \cup {c}
    /\ UNCHANGED <<lifecycle, running, connection_rx, phase, bound>>
------------------------------------------------------------------------------
(* Worker tasks *)

\* Server::initialize reports at most once per connection: its OnceLocks refuse
\* a second success.  A request already read may still finish after a hangup.
WorkerInitializes(c) ==
    /\ running
    /\ phase[c] = "serving"
    /\ c \notin bound
    /\ bound' = bound \cup {c}
    /\ Send("Initialized", c)
    /\ UNCHANGED <<lifecycle, running, phase, hungup>>

\* LspServer::serve returned.
WorkerEnds(c) ==
    /\ running
    /\ phase[c] = "serving"
    /\ c \in hungup
    /\ phase' = [phase EXCEPT ![c] = "closed"]
    /\ Send("TransportClosed", c)
    /\ UNCHANGED <<lifecycle, running, bound, hungup>>
------------------------------------------------------------------------------
(* The select! loop of main: any ready branch may be taken *)

Accept(c) ==
    /\ running
    /\ phase[c] = "backlog"
    /\ Connected
    /\ phase' = [phase EXCEPT ![c] = "serving"]
    /\ UNCHANGED <<running, connection_rx, bound, hungup>>

\* Mutant: connected() is called before the result of accept() is looked at.
AcceptFailsCounted(c) ==
    /\ running
    /\ phase[c] = "backlog"
    /\ c \in hungup
    /\ Connected
    /\ phase' = [phase EXCEPT ![c] = "refused"]
    /\ UNCHANGED <<running, connection_rx, bound, hungup>>

\* accept() fails on a transport aborted while it waited; the loop goes on.
AcceptFails(c) ==
    /\ running
    /\ phase[c] = "backlog"
    /\ c \in hungup
    /\ phase' = [phase EXCEPT ![c] = "refused"]
    /\ UNCHANGED <<lifecycle, running, connection_rx, bound, hungup>>

HandleEvent ==
    /\ running
    /\ connection_rx # <<>>
    /\ LET e == Head(connection_rx) IN
       /\ OnEvent(e.kind)
       /\ phase' = IF e.kind = "TransportClosed"
                   THEN [phase EXCEPT ![e.from] = "gone"] ELSE phase
    /\ connection_rx' = Tail(connection_rx)
    /\ running' = ~ShouldExit
    /\ UNCHANGED <<bound, hungup>>

IdleTimeoutFires ==
    /\ running
    /\ idle_deadline = 0
    /\ running' = FALSE
    /\ UNCHANGED <<lifecycle, connection_rx, phase, bound, hungup>>

\* Time passes; it shows only while a deadline is armed.
Tick ==
    /\ running
    /\ idle_deadline > 0
    /\ idle_deadline' = idle_deadline - 1
    /\ UNCHANGED <<active_connections, has_accepted_connection, daemon,
                   running, connection_rx, phase, bound, hungup>>

\* The process has exited, or is a regular one still waiting for the first
\* client it could accept; TLC checks that nothing else ever gets stuck.
Rest ==
    /\ ~running \/ (~daemon /\ ~has_accepted_connection)
    /\ UNCHANGED vars
------------------------------------------------------------------------------
Next ==
    \/ \E c \in Conns :
          \/ ClientConnects(c) \/ ClientHangsUp(c)
          \/ WorkerInitializes(c) \/ WorkerEnds(c)
          \/ Accept(c) \/ AcceptFails(c)
    \/ HandleEvent
    \/ IdleTimeoutFires
    \/ Tick
    \/ Rest

Spec == Init /\ [][Next]_vars

\* select! picks among ready branches at random, the executor runs ready tasks,
\* and time passes.  Nothing obliges a client to connect, speak or hang up.
Fairness ==
    /\ \A c \in Conns : WF_vars(Accept(c) \/ AcceptFails(c)) /\ WF_vars(WorkerEnds(c))
    /\ WF_vars(HandleEvent)
    /\ WF_vars(IdleTimeoutFires)
    /\ WF_vars(Tick)

FairSpec == Spec /\ Fairness
------------------------------------------------------------------------------
(* Properties *)

\* The transports the lifecycle must count: accepted, TransportClosed unhandled.
Counted == {c \in Conns : phase[c] \in {"serving", "closed"}}

\* The counter never drifts from the transports it stands for, whatever order
\* accepts and closes are handled in: in particular saturating_sub, which would
\* hide a second decrement, never saturates.
ActiveCountExact == active_connections = Cardinality(Counted)

\* A daemon's idle deadline is armed exactly while it holds no transport: an
\* Initialized event still queued when its connection goes can never disarm it
\* for good (the daemon would live forever), and no late close can arm it while
\* another client is connected.
DeadlineIffUnused == (idle_deadline # NoDeadline) <=> (daemon /\ Counted = {})

\* The loop is never left while an accepted transport is served or its close
\* is still unhandled: every worker's lifetime ends before the runtime's.
NoExitWhileServing == ~running => Counted = {}

\* The process keeps the promise of ProcessLifetime.
Lifetime == INSTANCE ProcessLifetime WITH
    clients <- Counted,
    idleFor <- IF idle_deadline = NoDeadline THEN 0 ELSE IdleTimeout - idle_deadline,
    alive   <- running
KeepsLifetime == Lifetime!Spec

\* Nobody is connected, now or waiting, who has not hung up; and a regular
\* process has had its first client.
Abandoned ==
    /\ running
    /\ daemon \/ has_accepted_connection
    /\ \A c \in Conns : phase[c] \in {"backlog", "serving"} => c \in hungup
Wanted == \E c \in Conns : phase[c] \in {"backlog", "serving"} /\ c \notin hungup

\* An abandoned process does not linger: it exits unless a client comes.
AbandonedProcessExits == Abandoned ~> (~running \/ Wanted)

\* README.md: "The server will not shut down while any clients are connected
\* to it."  A client is connected from the moment its connect() succeeds, which
\* the kernel grants before the listener accepts.
NoExitWhileConnected ==
    [][running /\ ~running' => ~Wanted]_vars
==============================================================================
