-------------------------- MODULE ServerProcessProofs --------------------------
(***************************************************************************)
(* The process never leaves its loop with a handler at work, for any sets  *)
(* of connections, tasks, destinations and projects.  The listener's steps *)
(* are those of ConnectionLifecycle, so its inductive invariant holds here *)
(* too; HandlersServed ties every handler to a transport it counts.        *)
(***************************************************************************)
EXTENDS ServerProcess, NavigationProofs

P == INSTANCE ConnectionLifecycleProofs

\* A handler's transport is accepted and its worker has not ended.
HandlersServed ==
    /\ stage \in [Task -> Stages]
    /\ \A t \in Task : stage[t] # "none" => running /\ phase[Of[t]] = "serving"

PInv == P!IInv /\ HandlersServed

\* What ConnectionLifecycle assumes of its constants is assumed here.
LEMMA ListenerAssumed == P!IsFiniteSet(Conns) /\ IdleTimeout \in Nat
BY ProcessAssumption DEF ProcessAssumption, P!IsFiniteSet, IsFiniteSet

\* To the listener, whatever handlers do is a stutter.
LEMMA ListenerStep == [ProcessNext]_procVars => [P!Next]_(P!vars)
<1> SUFFICES ASSUME [ProcessNext]_procVars PROVE [P!Next]_(P!vars)
  OBVIOUS
<1>1. ASSUME UNCHANGED listener PROVE UNCHANGED P!vars
  BY <1>1 DEF listener, P!vars, P!lifecycle
<1>2. ASSUME NEW t \in Task, ReadRequest(t) \/ ClientCancels(t) \/ Advance(t)
      PROVE  UNCHANGED P!vars
  BY <1>1, <1>2 DEF ReadRequest, ClientCancels, Advance
<1>3. ASSUME NEW c \in Conns, Client(c) \/ Initialize(c) PROVE P!Next
  BY <1>3 DEF Client, Initialize, L!ClientConnects, P!ClientConnects, L!ClientHangsUp,
              P!ClientHangsUp, L!WorkerInitializes, P!WorkerInitializes, L!Send, P!Send,
              L!lifecycle, P!lifecycle, P!Next
<1>4. ASSUME NEW c \in Conns, WorkerEnds(c) PROVE P!Next
  BY <1>4 DEF WorkerEnds, L!WorkerEnds, P!WorkerEnds, L!Send, P!Send, L!lifecycle,
              P!lifecycle, P!Next
<1>5. ASSUME NEW c \in Conns, Accept(c) PROVE P!Next
  BY <1>5 DEF Accept, L!Accept, P!Accept, L!AcceptFails, P!AcceptFails, L!Connected,
              P!Connected, L!NoDeadline, P!NoDeadline, L!lifecycle, P!lifecycle, P!Next
<1>6. ASSUME HandleEvent PROVE P!HandleEvent
  BY <1>6 DEF HandleEvent, L!HandleEvent, P!HandleEvent, L!OnEvent, P!OnEvent,
              L!Disconnected, P!Disconnected, L!SaturatingPred, P!SaturatingPred,
              L!ShouldExit, P!ShouldExit, L!NoDeadline, P!NoDeadline
<1>7. ASSUME IdleTimeoutFires \/ Tick \/ Rest PROVE P!Next \/ UNCHANGED P!vars
  BY <1>7 DEF IdleTimeoutFires, L!IdleTimeoutFires, P!IdleTimeoutFires, Tick, L!Tick,
              P!Tick, Rest, L!Rest, P!Rest, L!lifecycle, P!lifecycle, L!vars, P!vars, P!Next
<1>8. ASSUME UNCHANGED procVars PROVE UNCHANGED P!vars
  BY <1>1, <1>8 DEF procVars
<1> QED
  BY <1>2, <1>3, <1>4, <1>5, <1>6, <1>7, <1>8 DEF ProcessNext, P!Next

\* Steps of the handlers keep to transports that are served.
LEMMA RequestKeepsServed ==
    ASSUME HandlersServed, NEW t \in Task,
           ReadRequest(t) \/ ClientCancels(t) \/ Advance(t)
    PROVE  HandlersServed'
<1>1. running' = running /\ phase' = phase
  BY DEF ReadRequest, ClientCancels, Advance, listener
<1>2. /\ \A u \in Task : u # t => stage'[u] = stage[u]
      /\ stage' \in [Task -> Stages]
  <2>1. \A w : stage' = [stage EXCEPT ![t] = w] =>
                  \A u \in Task : u # t => stage'[u] = stage[u]
    BY DEF HandlersServed
  <2>2. CASE ReadRequest(t)
    BY <2>2 DEF ReadRequest, ReadDirectory, HandlersServed, Stages, Loading
  <2>3. CASE ClientCancels(t)
    BY <2>3 DEF ClientCancels, CancelRequest, Finish, HandlersServed, Stages
  <2>4. CASE Advance(t)
    BY <2>4 DEF Advance, Handle, InStore, GotContext, GotView, ReadProject, ReadUser,
                ReadDestination, Upserted, UpsertedView, Walk, RespondError, Goto, Finish,
                HandlersServed, Stages, Loading
  <2> QED
    BY <2>2, <2>3, <2>4
<1>3. stage'[t] # "none" => running /\ phase[Of[t]] = "serving"
  <2>1. CASE ReadRequest(t)
    BY <2>1 DEF ReadRequest
  <2>2. CASE ClientCancels(t)
    BY <2>2 DEF ClientCancels, CancelRequest, Finish, HandlersServed
  <2>3. CASE Advance(t)
    BY <2>3 DEF Advance, Handle, InStore, GotContext, GotView, ReadProject, ReadUser,
                ReadDestination, Upserted, UpsertedView, Walk, RespondError, HandlersServed
  <2> QED
    BY <2>1, <2>2, <2>3
<1> QED
  BY <1>1, <1>2, <1>3 DEF HandlersServed

\* An event that ends a transport is one of a worker that has ended.
LEMMA EventSparesServing ==
    ASSUME P!IInv, HandleEvent, NEW c \in Conns, phase[c] = "serving"
    PROVE  phase'[c] = "serving"
<1>1. connection_rx # <<>> /\ connection_rx \in Seq(P!Event) /\ phase \in [Conns -> P!Phases]
  BY DEF P!IInv, P!TypeOK, HandleEvent, L!HandleEvent
<1>2. 1 \in DOMAIN connection_rx /\ Head(connection_rx) = connection_rx[1]
  BY <1>1
<1>3. Head(connection_rx).kind = "TransportClosed" => Head(connection_rx).from # c
  BY <1>2 DEF P!IInv, P!EventsOK
<1> QED
  BY <1>1, <1>3 DEF HandleEvent, L!HandleEvent

\* When main leaves its loop no handler is at work.
LEMMA LeavesIdle ==
    ASSUME PInv, P!IInv', HandleEvent \/ IdleTimeoutFires, ~running', NEW t \in Task
    PROVE  stage[t] = "none"
<1> SUFFICES ASSUME stage[t] # "none" PROVE FALSE
  OBVIOUS
<1>1. Of[t] \in Conns /\ phase[Of[t]] = "serving"
  BY ProcessAssumption DEF ProcessAssumption, PInv, HandlersServed
<1>2. phase'[Of[t]] = "serving"
  BY <1>1, EventSparesServing DEF PInv, IdleTimeoutFires, L!IdleTimeoutFires
<1> QED
  BY <1>1, <1>2 DEF P!IInv, P!NoExitWhileServing, P!Counted

\* The listener's steps leave the handlers of served transports alone.
LEMMA ListenerKeepsServed ==
    ASSUME PInv, P!IInv',
           \/ \E c \in Conns : Client(c) \/ Initialize(c) \/ WorkerEnds(c) \/ Accept(c)
           \/ HandleEvent \/ IdleTimeoutFires \/ Tick \/ Rest
    PROVE  HandlersServed'
<1>0. HandlersServed /\ P!TypeOK /\ phase \in [Conns -> P!Phases]
  BY DEF PInv, P!IInv, P!TypeOK
<1>1. \A t \in Task : Of[t] \in Conns
  BY ProcessAssumption DEF ProcessAssumption
<1>2. ASSUME NEW c \in Conns, Client(c) \/ Initialize(c) \/ Accept(c) PROVE HandlersServed'
  <2>1. stage' = stage /\ running' = running
    BY <1>2 DEF Client, Initialize, Accept, L!ClientConnects, L!ClientHangsUp,
                L!WorkerInitializes, L!Accept, L!AcceptFails, navVars
  <2>2. \A e \in Conns : phase[e] = "serving" => phase'[e] = "serving"
    BY <1>0, <1>2 DEF Client, Initialize, Accept, L!ClientConnects, L!ClientHangsUp,
                      L!WorkerInitializes, L!Accept, L!AcceptFails
  <2> QED
    BY <1>0, <1>1, <2>1, <2>2 DEF HandlersServed
<1>3. ASSUME NEW c \in Conns, WorkerEnds(c) PROVE HandlersServed'
  <2>1. /\ stage' = stage /\ running' = running
        /\ phase' = [phase EXCEPT ![c] = "closed"]
        /\ \A t \in Task : Of[t] = c => stage[t] = "none"
    BY <1>3 DEF WorkerEnds, L!WorkerEnds, Working, navVars
  <2> QED
    BY <1>0, <1>1, <2>1 DEF HandlersServed
<1>4. ASSUME HandleEvent \/ IdleTimeoutFires PROVE HandlersServed'
  <2>1. CASE ~running'
    BY <1>4, <2>1 DEF HandleEvent, IdleTimeoutFires, Outcome, Wipe, HandlersServed, Stages
  <2>2. CASE running'
    <3>1. stage' = stage /\ HandleEvent
      BY <1>4, <2>2 DEF HandleEvent, IdleTimeoutFires, L!IdleTimeoutFires, Outcome, navVars
    <3>2. \A c \in Conns : phase[c] = "serving" => phase'[c] = "serving"
      BY <3>1, EventSparesServing DEF PInv
    <3> QED
      BY <1>0, <1>1, <2>2, <3>1, <3>2 DEF HandlersServed
  <2> QED
    BY <2>1, <2>2
<1>5. ASSUME Tick \/ Rest PROVE HandlersServed'
  BY <1>0, <1>5 DEF Tick, L!Tick, Rest, L!Rest, L!vars, navVars, HandlersServed
<1> QED
  BY <1>2, <1>3, <1>4, <1>5

\* No step of the process takes a handler's transport from it.
LEMMA PInvStep == PInv /\ [ProcessNext]_procVars => PInv'
<1> SUFFICES ASSUME PInv, [ProcessNext]_procVars PROVE PInv'
  OBVIOUS
<1>1. P!IInv'
  BY ListenerStep, ListenerAssumed, P!NextIInv DEF PInv
<1>2. ASSUME UNCHANGED procVars PROVE HandlersServed'
  BY <1>2 DEF procVars, navVars, listener, PInv, HandlersServed
<1>3. HandlersServed'
  BY <1>1, <1>2, RequestKeepsServed, ListenerKeepsServed DEF ProcessNext, PInv
<1> QED
  BY <1>1, <1>3 DEF PInv

\* A process begins with nobody connected and nothing asked.
LEMMA InitPInv == ProcessInit => PInv
<1> SUFFICES ASSUME ProcessInit PROVE PInv
  OBVIOUS
<1>1. P!Init
  BY DEF ProcessInit, L!Init, P!Init, L!NoDeadline, P!NoDeadline
<1>2. P!IInv
  BY <1>1, ListenerAssumed, P!InitIInv
<1>3. HandlersServed
  BY DEF ProcessInit, NavInit, HandlersServed, Stages
<1> QED
  BY <1>2, <1>3 DEF PInv
------------------------------------------------------------------------------
\* No request is cut off: neither the idle timeout nor the end of another
\* connection ends the process while a handler works.
THEOREM RequestsAreNotCutOff == ProcessSpec => NoRequestCutOff
<1>1. PInv /\ PInv' /\ [ProcessNext]_procVars
         => [running /\ ~running' => \A t \in Task : stage[t] = "none"]_procVars
  <2> SUFFICES ASSUME PInv, PInv', ProcessNext, running, ~running', NEW t \in Task
               PROVE  stage[t] = "none"
    OBVIOUS
  <2>1. HandleEvent \/ IdleTimeoutFires
    BY DEF ProcessNext, ReadRequest, ClientCancels, Advance, listener, Client, Initialize,
           WorkerEnds, Accept, Tick, Rest, L!ClientConnects, L!ClientHangsUp,
           L!WorkerInitializes, L!WorkerEnds, L!Accept, L!AcceptFails, L!Tick, L!Rest, L!vars
  <2> QED
    BY <2>1, LeavesIdle DEF PInv
<1>2. ProcessSpec => []PInv
  BY InitPInv, PInvStep, PTL DEF ProcessSpec
<1> QED
  BY <1>1, <1>2, PTL DEF ProcessSpec, NoRequestCutOff
------------------------------------------------------------------------------
(* The parts keep their promises in the whole *)

\* Whatever its handlers do, the process is a listener: it lives and dies as
\* ProcessLifetime promises.
THEOREM ProcessLivesAsPromised == ProcessSpec => P!KeepsLifetime
<1>1. ProcessInit => P!Init
  BY DEF ProcessInit, L!Init, P!Init, L!NoDeadline, P!NoDeadline
<1>2. ProcessSpec => P!Spec
  BY <1>1, ListenerStep, PTL DEF ProcessSpec, P!Spec
<1>3. P!Spec => P!KeepsLifetime
  BY P!ImplementsLifetime, ListenerAssumed
<1> QED
  BY <1>2, <1>3, PTL

\* To navigation, the listener's steps are stutters, or the end of it all.
LEMMA NavigationStep ==
    [ProcessNext]_procVars => Step \/ UNCHANGED <<store, files, stage, request>>
<1> SUFFICES ASSUME [ProcessNext]_procVars
             PROVE  Step \/ UNCHANGED <<store, files, stage, request>>
  OBVIOUS
<1>1. UNCHANGED navVars => UNCHANGED <<store, files, stage, request>>
  BY DEF navVars
<1>2. ASSUME NEW t \in Task, ReadRequest(t) \/ ClientCancels(t) \/ Advance(t) PROVE Step
  BY <1>2 DEF ReadRequest, ClientCancels, Advance, Step
<1>3. ASSUME HandleEvent \/ IdleTimeoutFires PROVE Step \/ UNCHANGED navVars
  BY <1>3 DEF HandleEvent, IdleTimeoutFires, Outcome, Step
<1>4. ASSUME NEW c \in Conns, Client(c) \/ Initialize(c) \/ WorkerEnds(c) \/ Accept(c)
      PROVE  UNCHANGED navVars
  BY <1>4 DEF Client, Initialize, WorkerEnds, Accept
<1>5. ASSUME Tick \/ Rest \/ UNCHANGED procVars PROVE UNCHANGED navVars
  BY <1>5 DEF Tick, Rest, procVars
<1> QED
  BY <1>1, <1>2, <1>3, <1>4, <1>5 DEF ProcessNext

\* Core holds in the whole process too.
THEOREM ProcessKeepsCore == ProcessSpec => []Core
<1>1. ProcessInit => Core
  BY InitCore DEF ProcessInit
<1>2. Core /\ [ProcessNext]_procVars => Core'
  BY NavigationStep, StepKeepsCore
<1> QED
  BY <1>1, <1>2, PTL DEF ProcessSpec

\* However connections come and go, the handlers of all of them share a store that
\* fills a slot once at a time, only with what is missing, and never mixes up the
\* clients of views.
THEOREM ProcessKeepsStoreSafe ==
    ProcessSpec => [](/\ NavTypeOK
                      /\ OneBuilderPerSlot /\ UpsertViewHonoursMounts
                      /\ ViewsUseOwnClient /\ NothingBuiltTwice)
<1>1. Core => /\ NavTypeOK
              /\ OneBuilderPerSlot /\ UpsertViewHonoursMounts
              /\ ViewsUseOwnClient /\ NothingBuiltTwice
  BY CoreIsSafe
<1> QED
  BY <1>1, ProcessKeepsCore, PTL

\* And a view that agrees with the files is lost only as navigation alone loses it.
THEOREM ProcessKeepsCurrent == ProcessSpec => CurrentStaysCurrent
<1>1. Core /\ [ProcessNext]_procVars => [KeepsCurrent]_navVars
  BY NavigationStep, StepIsCurrent
<1> QED
  BY <1>1, ProcessKeepsCore, PTL DEF ProcessSpec, CurrentStaysCurrent, KeepsCurrent

\* In the whole process, with any number of connections coming and going, a request
\* still walks mounts of its own project with a client for its own destination.
THEOREM ProcessWalksOwn == ProcessSpec => []WalksOwnView
<1>1. ProcessInit => OwnOK
  BY InitOwn DEF ProcessInit
<1>2. Core /\ OwnOK /\ [ProcessNext]_procVars => OwnOK'
  BY NavigationStep, OwnStep
<1>3. Core /\ OwnOK => WalksOwnView
  BY OwnIsWalked
<1> QED
  BY <1>1, <1>2, <1>3, ProcessKeepsCore, PTL DEF ProcessSpec
==============================================================================
