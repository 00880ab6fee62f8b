---------------------- MODULE ConnectionLifecycleProofs ----------------------
(***************************************************************************)
(* The safety properties of ConnectionLifecycle, for every finite set of   *)
(* transports and every idle timeout, and the refinement of                *)
(* ProcessLifetime.  Everything rests on one inductive invariant, IInv: it *)
(* adds to the checked invariants what is true of the events still queued  *)
(* (EventsOK), because DeadlineIffUnused survives an Initialized event     *)
(* only if the connection that sent it is still counted.                   *)
(***************************************************************************)
EXTENDS ConnectionLifecycle, FiniteSetTheorems, SequenceTheorems, TLAPS

\* Queued events come from counted transports; a transport with a queued
\* TransportClosed has stopped being served, and sent nothing after it.
EventsOK ==
    /\ \A i \in DOMAIN connection_rx :
          /\ phase[connection_rx[i].from] \in {"serving", "closed"}
          /\ connection_rx[i].kind = "TransportClosed"
                => phase[connection_rx[i].from] = "closed"
    /\ \A i, j \in DOMAIN connection_rx :
          (i < j /\ connection_rx[i].kind = "TransportClosed")
             => connection_rx[j].from # connection_rx[i].from

AcceptedIfCounted == Counted # {} => has_accepted_connection

IInv ==
    /\ TypeOK
    /\ ActiveCountExact
    /\ DeadlineIffUnused
    /\ NoExitWhileServing
    /\ EventsOK
    /\ AcceptedIfCounted
------------------------------------------------------------------------------
(* Counted as the transports move on *)

\* Counted is finite, so its cardinality is a number, zero only when empty.
LEMMA CountedFinite ==
    /\ IsFiniteSet(Counted)
    /\ Cardinality(Counted) \in Nat
    /\ Cardinality(Counted) = 0 <=> Counted = {}
<1>1. Counted \in SUBSET Conns
  BY DEF Counted
<1>2. IsFiniteSet(Counted)
  BY <1>1, FS_Subset, LifecycleAssumption DEF LifecycleAssumption
<1> QED
  BY <1>2, FS_CardinalityType, FS_EmptySet

\* An accept adds the transport to what is counted, a handled close removes it.
LEMMA CountedGains ==
    ASSUME NEW c \in Conns, TypeOK, phase[c] \notin {"serving", "closed"},
           phase' = [phase EXCEPT ![c] = "serving"]
    PROVE  /\ Counted' = Counted \cup {c}
           /\ Cardinality(Counted') = Cardinality(Counted) + 1
<1>1. Counted' = Counted \cup {c}
  BY DEF Counted, TypeOK
<1>2. c \notin Counted
  BY DEF Counted
<1> QED
  BY <1>1, <1>2, CountedFinite, FS_AddElement

\* What is removed was counted, so disconnected() finds a count above zero.
LEMMA CountedLoses ==
    ASSUME NEW c \in Conns, TypeOK, phase[c] \in {"serving", "closed"},
           phase' = [phase EXCEPT ![c] = "gone"]
    PROVE  /\ Counted' = Counted \ {c}
           /\ Cardinality(Counted') = Cardinality(Counted) - 1
           /\ Cardinality(Counted) > 0
<1>1. Counted' = Counted \ {c}
  BY DEF Counted, TypeOK
<1>2. c \in Counted
  BY DEF Counted
<1> QED
  BY <1>1, <1>2, CountedFinite, FS_RemoveElement
------------------------------------------------------------------------------
(* The event channel *)

\* Appending an event of a transport that sent no TransportClosed yet.
LEMMA SendKeepsEventsOK ==
    ASSUME NEW c \in Conns, NEW k \in {"Initialized", "TransportClosed"},
           TypeOK, EventsOK, phase[c] = "serving", Send(k, c),
           \/ phase' = phase /\ k = "Initialized"
           \/ phase' = [phase EXCEPT ![c] = "closed"]
    PROVE  EventsOK' /\ connection_rx' \in Seq(Event)
<1> DEFINE e == [kind |-> k, from |-> c]
<1>1. /\ e \in Event
      /\ connection_rx \in Seq(Event)
  BY DEF Event, TypeOK
<1>2. /\ connection_rx' \in Seq(Event)
      /\ Len(connection_rx') = Len(connection_rx) + 1
      /\ \A i \in 1..Len(connection_rx) : connection_rx'[i] = connection_rx[i]
      /\ connection_rx'[Len(connection_rx) + 1] = e
  BY <1>1, AppendProperties DEF Send
<1>3. /\ DOMAIN connection_rx = 1..Len(connection_rx)
      /\ DOMAIN connection_rx' = 1..(Len(connection_rx) + 1)
      /\ Len(connection_rx) \in Nat
  BY <1>1, <1>2, LenProperties
<1>4. \A i \in DOMAIN connection_rx :
         connection_rx[i].kind = "TransportClosed" => connection_rx[i].from # c
  BY DEF EventsOK
<1>5. \A i \in DOMAIN connection_rx : connection_rx[i].from \in Conns
  <2>1. \A i \in 1..Len(connection_rx) : connection_rx[i] \in Event
    BY <1>1, ElementOfSeq
  <2> QED
    BY <2>1, <1>3 DEF Event
<1>6. \A i \in DOMAIN connection_rx' :
         /\ phase'[connection_rx'[i].from] \in {"serving", "closed"}
         /\ connection_rx'[i].kind = "TransportClosed"
               => phase'[connection_rx'[i].from] = "closed"
  <2> SUFFICES ASSUME NEW i \in DOMAIN connection_rx'
               PROVE  /\ phase'[connection_rx'[i].from] \in {"serving", "closed"}
                      /\ connection_rx'[i].kind = "TransportClosed"
                            => phase'[connection_rx'[i].from] = "closed"
    OBVIOUS
  <2>1. CASE i \in DOMAIN connection_rx
    <3>1. connection_rx'[i] = connection_rx[i]
      BY <2>1, <1>2, <1>3
    <3> QED
      BY <2>1, <3>1, <1>4, <1>5 DEF EventsOK, TypeOK
  <2>2. CASE i = Len(connection_rx) + 1
    BY <2>2, <1>2 DEF TypeOK
  <2> QED
    BY <2>1, <2>2, <1>3
<1>7. \A i, j \in DOMAIN connection_rx' :
         (i < j /\ connection_rx'[i].kind = "TransportClosed")
            => connection_rx'[j].from # connection_rx'[i].from
  <2> SUFFICES ASSUME NEW i \in DOMAIN connection_rx', NEW j \in DOMAIN connection_rx',
                      i < j, connection_rx'[i].kind = "TransportClosed"
               PROVE  connection_rx'[j].from # connection_rx'[i].from
    OBVIOUS
  <2>1. i \in DOMAIN connection_rx /\ connection_rx'[i] = connection_rx[i]
    BY <1>2, <1>3
  <2>2. CASE j \in DOMAIN connection_rx
    BY <2>1, <2>2, <1>2, <1>3 DEF EventsOK
  <2>3. CASE j = Len(connection_rx) + 1
    BY <2>1, <2>3, <1>2, <1>4
  <2> QED
    BY <2>2, <2>3, <1>3
<1> QED
  BY <1>2, <1>6, <1>7 DEF EventsOK

\* Dropping the first event; ch is what the transports' phases become.
LEMMA TailKeepsEventsOK ==
    ASSUME TypeOK, EventsOK, connection_rx # <<>>,
           connection_rx' = Tail(connection_rx),
           phase' = IF Head(connection_rx).kind = "TransportClosed"
                    THEN [phase EXCEPT ![Head(connection_rx).from] = "gone"] ELSE phase
    PROVE  EventsOK' /\ connection_rx' \in Seq(Event)
<1>1. /\ connection_rx \in Seq(Event)
      /\ Len(connection_rx) \in Nat \ {0}
      /\ Head(connection_rx) = connection_rx[1]
      /\ DOMAIN connection_rx = 1..Len(connection_rx)
  BY EmptySeq, LenProperties DEF TypeOK
<1>2. /\ connection_rx' \in Seq(Event)
      /\ Len(connection_rx') = Len(connection_rx) - 1
      /\ \A i \in 1..Len(connection_rx') : connection_rx'[i] = connection_rx[i + 1]
      /\ DOMAIN connection_rx' = 1..(Len(connection_rx) - 1)
  BY <1>1, HeadTailProperties, LenProperties
<1>3. \A i \in DOMAIN connection_rx' :
         /\ i + 1 \in DOMAIN connection_rx
         /\ connection_rx'[i] = connection_rx[i + 1]
         /\ connection_rx[1].kind = "TransportClosed"
               => connection_rx[i + 1].from # connection_rx[1].from
  BY <1>1, <1>2 DEF EventsOK
<1>4. \A i \in DOMAIN connection_rx' :
         phase'[connection_rx'[i].from] = phase[connection_rx[i + 1].from]
  BY <1>1, <1>3 DEF TypeOK
<1> QED
  BY <1>1, <1>2, <1>3, <1>4 DEF EventsOK
------------------------------------------------------------------------------
(* The inductive invariant *)

\* Nobody is counted at the start, and only a daemon's deadline is armed.
LEMMA InitIInv == Init => IInv
<1> SUFFICES ASSUME Init PROVE IInv
  OBVIOUS
<1>1. Counted = {}
  BY DEF Init, Counted
<1>2. TypeOK
  <2>1. connection_rx \in Seq(Event)
    BY EmptySeq DEF Init
  <2>2. phase \in [Conns -> Phases]
    BY DEF Init, Phases
  <2>3. idle_deadline \in {NoDeadline} \cup 0..IdleTimeout
    BY LifecycleAssumption DEF LifecycleAssumption, Init
  <2> QED
    BY <2>1, <2>2, <2>3 DEF Init, TypeOK
<1>3. ActiveCountExact
  BY <1>1, FS_EmptySet DEF Init, ActiveCountExact
<1>4. DeadlineIffUnused
  BY <1>1, LifecycleAssumption DEF LifecycleAssumption, Init, DeadlineIffUnused, NoDeadline
<1>5. EventsOK
  BY DEF Init, EventsOK
<1> QED
  BY <1>1, <1>2, <1>3, <1>4, <1>5 DEF IInv, NoExitWhileServing, AcceptedIfCounted

\* What the steps have to preserve besides EventsOK, when Counted stays as it is.
LEMMA CountedUnchanged ==
    ASSUME IInv, Counted' = Counted, UNCHANGED lifecycle, running' = running
    PROVE  (ActiveCountExact /\ DeadlineIffUnused /\ NoExitWhileServing
              /\ AcceptedIfCounted)'
BY DEF IInv, ActiveCountExact, DeadlineIffUnused, NoExitWhileServing,
       AcceptedIfCounted, lifecycle

\* Moving one transport between phases that are on the same side of Counted.
LEMMA EventsOKUnchanged ==
    ASSUME NEW c \in Conns, NEW p \in Phases \ {"serving", "closed"}, TypeOK, EventsOK,
           phase[c] \notin {"serving", "closed"},
           phase' = [phase EXCEPT ![c] = p] \/ phase' = [phase EXCEPT ![c] = "serving"],
           connection_rx' = connection_rx
    PROVE  EventsOK'
<1>1. connection_rx \in Seq(Event) /\ DOMAIN connection_rx = 1..Len(connection_rx)
  BY LenProperties DEF TypeOK
<1>2. \A i \in DOMAIN connection_rx : connection_rx[i] \in Event
  BY <1>1, ElementOfSeq
<1>3. \A i \in DOMAIN connection_rx :
         connection_rx[i].from \in Conns /\ connection_rx[i].from # c
  BY <1>2 DEF Event, EventsOK
<1>4. \A i \in DOMAIN connection_rx :
         phase'[connection_rx[i].from] = phase[connection_rx[i].from]
  BY <1>3 DEF TypeOK
<1> QED
  BY <1>4 DEF EventsOK

\* Handling either event keeps the inductive invariant.
LEMMA HandleEventIInv ==
    ASSUME IInv, HandleEvent
    PROVE  IInv'
<1> DEFINE e == Head(connection_rx)
<1>0. TypeOK /\ EventsOK
  BY DEF IInv
<1>1. /\ e \in Event
      /\ e = connection_rx[1]
      /\ 1 \in DOMAIN connection_rx
      /\ connection_rx \in Seq(Event)
  BY <1>0, EmptySeq, LenProperties, HeadTailProperties DEF HandleEvent, TypeOK
<1>2. e.from \in Conns /\ e.from \in Counted
  BY <1>0, <1>1 DEF Event, EventsOK, Counted
<1>3. /\ active_connections = Cardinality(Counted)
      /\ active_connections \in Nat \ {0}
      /\ idle_deadline = NoDeadline
      /\ has_accepted_connection
  BY <1>2, CountedFinite DEF IInv, ActiveCountExact, DeadlineIffUnused, AcceptedIfCounted
<1>4. EventsOK' /\ connection_rx' \in Seq(Event)
  BY <1>0, TailKeepsEventsOK DEF HandleEvent
<1>5. CASE e.kind = "Initialized"
  <2>1. /\ phase' = phase
        /\ idle_deadline' = NoDeadline
        /\ running
        /\ UNCHANGED <<active_connections, has_accepted_connection, daemon, bound, hungup>>
    BY <1>5 DEF HandleEvent, OnEvent
  <2>2. Counted' = Counted
    BY <2>1 DEF Counted
  <2>3. running'
    BY <2>1, <1>3 DEF HandleEvent, ShouldExit
  <2>4. TypeOK'
    BY <1>0, <1>4, <2>1, <2>3 DEF TypeOK
  <2> QED
    BY <1>2, <1>3, <1>4, <2>1, <2>2, <2>3, <2>4
    DEF IInv, ActiveCountExact, DeadlineIffUnused, NoExitWhileServing, AcceptedIfCounted
<1>6. CASE e.kind = "TransportClosed"
  <2>1. /\ phase' = [phase EXCEPT ![e.from] = "gone"]
        /\ Disconnected
        /\ UNCHANGED <<bound, hungup>>
    BY <1>6 DEF HandleEvent, OnEvent
  <2>2. /\ Counted' = Counted \ {e.from}
        /\ Cardinality(Counted') = active_connections - 1
    BY <1>0, <1>2, <1>3, <2>1, CountedLoses DEF Counted
  <2>3. active_connections' = Cardinality(Counted') /\ active_connections' \in Nat
    BY <1>3, <2>1, <2>2 DEF Disconnected, SaturatingPred
  <2>4. active_connections' = 0 <=> Counted' = {}
    <3>1. IsFiniteSet(Counted')
      BY <2>2, CountedFinite, FS_RemoveElement
    <3> QED
      BY <3>1, <2>3, FS_EmptySet
  <2>5. /\ idle_deadline' = IF daemon /\ Counted' = {} THEN IdleTimeout ELSE NoDeadline
        /\ has_accepted_connection' = has_accepted_connection
        /\ daemon' = daemon
    BY <1>3, <2>1, <2>4 DEF Disconnected
  <2>6. DeadlineIffUnused'
    BY <2>5, LifecycleAssumption DEF LifecycleAssumption, DeadlineIffUnused, NoDeadline
  <2>7. NoExitWhileServing'
    BY <2>4 DEF HandleEvent, ShouldExit, NoExitWhileServing
  <2>8. TypeOK'
    <3>1. running' \in BOOLEAN
      BY DEF HandleEvent
    <3>2. idle_deadline' \in {NoDeadline} \cup 0..IdleTimeout
      BY <2>5, LifecycleAssumption DEF LifecycleAssumption
    <3>3. phase' \in [Conns -> Phases]
      BY <1>0, <2>1 DEF TypeOK, Phases
    <3> QED
      BY <1>0, <1>4, <2>1, <2>3, <2>5, <3>1, <3>2, <3>3 DEF TypeOK
  <2> QED
    BY <1>3, <1>4, <2>3, <2>5, <2>6, <2>7, <2>8 DEF IInv, ActiveCountExact, AcceptedIfCounted
<1> QED
  BY <1>1, <1>5, <1>6 DEF Event

\* No step of the loop, a worker or a client breaks the inductive invariant.
LEMMA NextIInv == IInv /\ [Next]_vars => IInv'
<1> SUFFICES ASSUME IInv, [Next]_vars PROVE IInv'
  OBVIOUS
<1>0. TypeOK /\ EventsOK
  BY DEF IInv
<1>1. ASSUME NEW c \in Conns, ClientConnects(c) PROVE IInv'
  <2>1. EventsOK'
    BY <1>0, <1>1, EventsOKUnchanged DEF ClientConnects, Phases
  <2>2. Counted' = Counted
    BY <1>0, <1>1 DEF ClientConnects, Counted, TypeOK
  <2>3. TypeOK'
    BY <1>0, <1>1 DEF ClientConnects, TypeOK, lifecycle, Phases
  <2> QED
    BY <1>1, <2>1, <2>2, <2>3, CountedUnchanged DEF IInv, ClientConnects
<1>2. ASSUME NEW c \in Conns, ClientHangsUp(c) PROVE IInv'
  <2>1. EventsOK' /\ Counted' = Counted
    BY <1>0, <1>2 DEF ClientHangsUp, EventsOK, Counted
  <2>2. TypeOK'
    BY <1>0, <1>2 DEF ClientHangsUp, TypeOK, lifecycle
  <2> QED
    BY <1>2, <2>1, <2>2, CountedUnchanged DEF IInv, ClientHangsUp
<1>3. ASSUME NEW c \in Conns, WorkerInitializes(c) PROVE IInv'
  <2>1. EventsOK' /\ connection_rx' \in Seq(Event)
    BY <1>0, <1>3, SendKeepsEventsOK DEF WorkerInitializes
  <2>2. Counted' = Counted
    BY <1>3 DEF WorkerInitializes, Counted
  <2>3. TypeOK'
    BY <1>0, <1>3, <2>1 DEF WorkerInitializes, TypeOK, lifecycle
  <2> QED
    BY <1>3, <2>1, <2>2, <2>3, CountedUnchanged DEF IInv, WorkerInitializes
<1>4. ASSUME NEW c \in Conns, WorkerEnds(c) PROVE IInv'
  <2>1. EventsOK' /\ connection_rx' \in Seq(Event)
    BY <1>0, <1>4, SendKeepsEventsOK DEF WorkerEnds
  <2>2. Counted' = Counted
    BY <1>0, <1>4 DEF WorkerEnds, Counted, TypeOK
  <2>3. TypeOK'
    BY <1>0, <1>4, <2>1 DEF WorkerEnds, TypeOK, lifecycle, Phases
  <2> QED
    BY <1>4, <2>1, <2>2, <2>3, CountedUnchanged DEF IInv, WorkerEnds
<1>5. ASSUME NEW c \in Conns, Accept(c) PROVE IInv'
  <2>1. EventsOK'
    BY <1>0, <1>5, EventsOKUnchanged DEF Accept, Phases
  <2>2. /\ Counted' = Counted \cup {c}
        /\ Cardinality(Counted') = Cardinality(Counted) + 1
    BY <1>0, <1>5, CountedGains DEF Accept
  <2>3. TypeOK'
    BY <1>0, <1>5 DEF Accept, Connected, TypeOK, Phases
  <2> QED
    BY <1>5, <2>1, <2>2, <2>3
    DEF IInv, Accept, Connected, ActiveCountExact, DeadlineIffUnused,
        NoExitWhileServing, AcceptedIfCounted
<1>6. ASSUME NEW c \in Conns, AcceptFails(c) PROVE IInv'
  <2>1. EventsOK'
    BY <1>0, <1>6, EventsOKUnchanged DEF AcceptFails, Phases
  <2>2. Counted' = Counted
    BY <1>0, <1>6 DEF AcceptFails, Counted, TypeOK
  <2>3. TypeOK'
    BY <1>0, <1>6 DEF AcceptFails, TypeOK, lifecycle, Phases
  <2> QED
    BY <1>6, <2>1, <2>2, <2>3, CountedUnchanged DEF IInv, AcceptFails
<1>7. CASE HandleEvent
  BY <1>7, HandleEventIInv
<1>8. CASE IdleTimeoutFires
  <2>1. EventsOK' /\ Counted' = Counted
    BY <1>0, <1>8 DEF IdleTimeoutFires, EventsOK, Counted
  <2>2. TypeOK'
    BY <1>0, <1>8 DEF IdleTimeoutFires, TypeOK, lifecycle
  <2>3. Counted = {}
    BY <1>8 DEF IdleTimeoutFires, IInv, DeadlineIffUnused, NoDeadline
  <2> QED
    BY <1>8, <2>1, <2>2, <2>3
    DEF IInv, IdleTimeoutFires, lifecycle, ActiveCountExact, DeadlineIffUnused,
        NoExitWhileServing, AcceptedIfCounted
<1>9. CASE Tick
  <2>1. EventsOK' /\ Counted' = Counted
    BY <1>0, <1>9 DEF Tick, EventsOK, Counted
  <2>2. /\ idle_deadline \in 1..IdleTimeout
        /\ idle_deadline' \in 0..IdleTimeout
    BY <1>0, <1>9, LifecycleAssumption DEF LifecycleAssumption, Tick, TypeOK, NoDeadline
  <2>3. TypeOK'
    BY <1>0, <1>9, <2>2 DEF Tick, TypeOK
  <2>4. DeadlineIffUnused'
    BY <1>9, <2>1, <2>2, LifecycleAssumption
    DEF LifecycleAssumption, Tick, IInv, DeadlineIffUnused, NoDeadline
  <2> QED
    BY <1>9, <2>1, <2>3, <2>4
    DEF IInv, Tick, ActiveCountExact, NoExitWhileServing, AcceptedIfCounted
<1>10. CASE UNCHANGED vars
  <2>1. EventsOK' /\ Counted' = Counted
    BY <1>0, <1>10 DEF vars, EventsOK, Counted
  <2>2. TypeOK'
    BY <1>0, <1>10 DEF vars, TypeOK, lifecycle
  <2> QED
    BY <1>10, <2>1, <2>2, CountedUnchanged DEF IInv, vars
<1> QED
  BY <1>1, <1>2, <1>3, <1>4, <1>5, <1>6, <1>7, <1>8, <1>9, <1>10 DEF Next, Rest

\* The listener keeps the inductive invariant for ever.
LEMMA AlwaysIInv == Spec => []IInv
BY InitIInv, NextIInv, PTL DEF Spec

\* Every variable keeps its type, for all clients and timeouts.
THEOREM TypeCorrect == Spec => []TypeOK
BY AlwaysIInv, PTL DEF IInv

\* disconnected() never decrements a count already at zero and connected() never
\* counts a transport twice (src/src/lifecycle.rs).
THEOREM CountStaysExact == Spec => []ActiveCountExact
BY AlwaysIInv, PTL DEF IInv

\* A late Initialized never disarms a daemon's deadline, a late close never arms
\* it under a connected client.
THEOREM DeadlineTracksUse == Spec => []DeadlineIffUnused
BY AlwaysIInv, PTL DEF IInv

\* main leaves its loop only when no accepted transport is left to serve.
THEOREM ServesToTheEnd == Spec => []NoExitWhileServing
BY AlwaysIInv, PTL DEF IInv
------------------------------------------------------------------------------
(* The listener implements ProcessLifetime *)

\* The listener starts as the abstract process does: alive, without clients.
LEMMA LifetimeInit == Init => Lifetime!Init
<1> SUFFICES ASSUME Init PROVE Lifetime!Init
  OBVIOUS
<1>1. Counted = {}
  BY DEF Init, Counted
<1>2. (IF idle_deadline = NoDeadline THEN 0 ELSE IdleTimeout - idle_deadline) = 0
  BY LifecycleAssumption DEF LifecycleAssumption, Init
<1> QED
  BY <1>1, <1>2 DEF Init, Lifetime!Init

\* Every step of the listener is a step of ProcessLifetime or stutters.
LEMMA LifetimeStep == IInv /\ IInv' /\ [Next]_vars => [Lifetime!Next]_Lifetime!vars
<1> DEFINE idleFor == IF idle_deadline = NoDeadline THEN 0 ELSE IdleTimeout - idle_deadline
<1> SUFFICES ASSUME IInv, IInv', [Next]_vars PROVE [Lifetime!Next]_Lifetime!vars
  OBVIOUS
<1>0. TypeOK /\ TypeOK' /\ LifecycleAssumption
  BY LifecycleAssumption DEF IInv
<1>st. ASSUME Counted' = Counted, UNCHANGED lifecycle, running' = running
       PROVE  UNCHANGED Lifetime!vars
  BY <1>st DEF Lifetime!vars, lifecycle
<1>1. ASSUME NEW c \in Conns,
             ClientConnects(c) \/ ClientHangsUp(c) \/ WorkerInitializes(c)
               \/ WorkerEnds(c) \/ AcceptFails(c)
      PROVE  UNCHANGED Lifetime!vars
  <2>1. Counted' = Counted
    BY <1>0, <1>1 DEF Counted, TypeOK, ClientConnects, ClientHangsUp, WorkerInitializes,
                      WorkerEnds, AcceptFails
  <2>2. UNCHANGED lifecycle /\ running' = running
    BY <1>1 DEF ClientConnects, ClientHangsUp, WorkerInitializes, WorkerEnds, AcceptFails
  <2> QED
    BY <1>st, <2>1, <2>2
<1>2. ASSUME NEW c \in Conns, Accept(c) PROVE Lifetime!Arrive(c)
  <2>1. Counted' = Counted \cup {c} /\ c \notin Counted
    BY <1>0, <1>2, CountedGains DEF Accept, Counted
  <2>2. idleFor' = 0
    BY <1>2 DEF Accept, Connected
  <2> QED
    BY <1>2, <2>1, <2>2 DEF Lifetime!Arrive, Accept, Connected
<1>3. ASSUME HandleEvent PROVE [Lifetime!Next]_Lifetime!vars
  <2> DEFINE e == Head(connection_rx)
  <2>1. /\ e \in Event
        /\ e = connection_rx[1]
        /\ 1 \in DOMAIN connection_rx
    BY <1>0, <1>3, EmptySeq, LenProperties, HeadTailProperties DEF HandleEvent, TypeOK
  <2>2. e.from \in Conns /\ e.from \in Counted
    BY <2>1 DEF Event, IInv, EventsOK, Counted
  <2>3. idle_deadline = NoDeadline /\ has_accepted_connection
    BY <2>2 DEF IInv, DeadlineIffUnused, AcceptedIfCounted
  <2>4. CASE e.kind = "Initialized"
    <3>1. Counted' = Counted
      BY <1>3, <2>4 DEF HandleEvent, Counted
    <3>2. UNCHANGED lifecycle
      BY <1>3, <2>3, <2>4 DEF HandleEvent, OnEvent, lifecycle
    <3>3. active_connections' # 0
      BY <2>2, <3>1, <3>2, CountedFinite DEF IInv, ActiveCountExact, lifecycle
    <3>4. running' = running
      BY <1>3, <3>3, <1>0 DEF HandleEvent, ShouldExit, TypeOK
    <3> QED
      BY <1>st, <3>1, <3>2, <3>4
  <2>5. CASE e.kind = "TransportClosed"
    <3>1. Disconnected /\ phase' = [phase EXCEPT ![e.from] = "gone"]
      BY <1>3, <2>5 DEF HandleEvent, OnEvent
    <3>2. Counted' = Counted \ {e.from}
      BY <1>0, <2>2, <3>1, CountedLoses DEF Counted
    <3>3. active_connections' = 0 <=> Counted' = {}
      <4>1. IsFiniteSet(Counted')
        BY <3>2, CountedFinite, FS_RemoveElement
      <4> QED
        BY <4>1, FS_EmptySet DEF IInv, ActiveCountExact
    <3>4. running' = (daemon \/ Counted' # {})
      BY <1>0, <1>3, <2>3, <3>1, <3>3 DEF HandleEvent, ShouldExit, Disconnected, TypeOK
    <3>5. idleFor' = idleFor
      BY <1>0, <2>3, <3>1 DEF Disconnected, LifecycleAssumption, NoDeadline
    <3>6. Lifetime!Leave(e.from)
      BY <1>3, <2>2, <3>1, <3>2, <3>4, <3>5 DEF Lifetime!Leave, HandleEvent, Disconnected
    <3> QED
      BY <2>2, <3>6 DEF Lifetime!Next
  <2> QED
    BY <2>1, <2>4, <2>5 DEF Event
<1>4. ASSUME IdleTimeoutFires PROVE Lifetime!IdleExit
  <2>1. /\ daemon /\ Counted = {} /\ Counted' = Counted
        /\ idleFor = IdleTimeout /\ idleFor' = idleFor
    BY <1>0, <1>4 DEF IdleTimeoutFires, IInv, DeadlineIffUnused, NoDeadline, Counted,
                      lifecycle, LifecycleAssumption
  <2> QED
    BY <1>4, <2>1 DEF Lifetime!IdleExit, IdleTimeoutFires, lifecycle
<1>5. ASSUME Tick PROVE Lifetime!Elapse
  <2>1. daemon /\ Counted = {} /\ Counted' = Counted
    BY <1>0, <1>5 DEF Tick, IInv, DeadlineIffUnused, NoDeadline, Counted
  <2>2. idleFor' = idleFor + 1 /\ idleFor < IdleTimeout
    BY <1>0, <1>5 DEF Tick, TypeOK, NoDeadline, LifecycleAssumption
  <2> QED
    BY <1>5, <2>1, <2>2 DEF Lifetime!Elapse, Tick
<1>6. ASSUME UNCHANGED vars PROVE UNCHANGED Lifetime!vars
  BY <1>6, <1>st DEF vars, Counted
<1> QED
  BY <1>1, <1>2, <1>3, <1>4, <1>5, <1>6 DEF Next, Rest, Lifetime!Next

\* The process ends when ProcessLifetime says it may, and only then.
THEOREM ImplementsLifetime == Spec => KeepsLifetime
BY LifetimeInit, LifetimeStep, AlwaysIInv, PTL DEF Spec, KeepsLifetime, Lifetime!Spec
==============================================================================
