--------------------------- MODULE ProcessLifetime ---------------------------
(***************************************************************************)
(* What the listener process promises about its own lifetime, stated over  *)
(* the set of clients whose transport it holds open (the doc comments of   *)
(* src/src/lifecycle.rs and src/src/main.rs).  A regular process waits for *)
(* its first client and ends with its last one; a daemon ends only after   *)
(* an uninterrupted stretch of IdleTimeout ticks without any client.       *)
(***************************************************************************)
EXTENDS Naturals

CONSTANTS Conns,        \* the transports clients may open
          IdleTimeout   \* ticks a daemon stays up without clients

VARIABLES daemon,       \* launched with --daemon
          clients,      \* transports held open
          idleFor,      \* ticks since a daemon last held a transport
          alive         \* the process has not exited

vars == <<daemon, clients, idleFor, alive>>

Init ==
    /\ daemon \in BOOLEAN
    /\ clients = {}
    /\ idleFor = 0
    /\ alive = TRUE

Arrive(c) ==
    /\ alive
    /\ c \notin clients
    /\ clients' = clients \cup {c}
    /\ idleFor' = 0
    /\ UNCHANGED <<daemon, alive>>

\* A regular process exits in the very step that loses its last client.
Leave(c) ==
    /\ alive
    /\ c \in clients
    /\ clients' = clients \ {c}
    /\ alive' = (daemon \/ clients' # {})
    /\ UNCHANGED <<daemon, idleFor>>

Elapse ==
    /\ alive /\ daemon
    /\ clients = {}
    /\ idleFor < IdleTimeout
    /\ idleFor' = idleFor + 1
    /\ UNCHANGED <<daemon, clients, alive>>

IdleExit ==
    /\ alive /\ daemon
    /\ clients = {}
    /\ idleFor = IdleTimeout
    /\ alive' = FALSE
    /\ UNCHANGED <<daemon, clients, idleFor>>

Next ==
    \/ \E c \in Conns : Arrive(c) \/ Leave(c)
    \/ Elapse
    \/ IdleExit

Spec == Init /\ [][Next]_vars
==============================================================================
