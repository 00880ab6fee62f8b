---------------------------- MODULE SessionProofs ----------------------------
(***************************************************************************)
(* The safety properties of Session, for any number of initialize requests *)
(* and handlers.  BoundAsAWhole alone is not inductive: Bind must know     *)
(* that a request past its first check has a root, and that binding a      *)
(* second time would need both OnceLocks empty.                            *)
(***************************************************************************)
EXTENDS Session, TLAPS

\* A request waits for canonicalize only with a root to resolve.
WaitingHasRoot ==
    \A r \in Request : initialize[r].at = "canonicalize" => initialize[r].root # None

IInv ==
    /\ TypeOK
    /\ WaitingHasRoot
    /\ BoundAsAWhole
    /\ RefusedOnlyWhenBound
    /\ HandlersShareBinding

\* The two OnceLocks are empty or full together: what a second initialize, or
\* a handler between two initializes, would have to contradict.
LEMMA LocksAgree ==
    ASSUME IInv PROVE project_root = None <=> options = None
<1>1. None \notin Options /\ Default \in Options
  BY SessionAssumption DEF SessionAssumption
<1>2. ASSUME project_root # None PROVE options # None
  <2>1. PICK r \in Request :
           options = IF initialize[r].given = None THEN Default ELSE initialize[r].given
    BY <1>2 DEF IInv, BoundAsAWhole
  <2> QED
    BY <1>1, <2>1
<1> QED
  BY <1>2 DEF IInv, BoundAsAWhole

\* client_project_root yields a workspace directory or nothing.
LEMMA RequestedRootFits ==
    ASSUME NEW folders \in Folders, NEW rootUri \in ProjectRoot \cup {None}
    PROVE  RequestedRoot(folders, rootUri) \in ProjectRoot \cup {None}
<1>1. CASE folders = <<>>
  BY <1>1 DEF RequestedRoot
<1>2. ASSUME NEW p \in ProjectRoot, folders = <<p>>
      PROVE  RequestedRoot(folders, rootUri) \in ProjectRoot \cup {None}
  BY <1>2 DEF RequestedRoot
<1>3. ASSUME NEW p \in ProjectRoot, NEW q \in ProjectRoot, folders = <<p, q>>
      PROVE  RequestedRoot(folders, rootUri) \in ProjectRoot \cup {None}
  BY <1>3 DEF RequestedRoot
<1> QED
  BY <1>1, <1>2, <1>3 DEF Folders

\* A request that has not succeeded binds nothing: what is bound does not
\* depend on it, so whatever it turns into but "refused" keeps the invariant.
LEMMA RequestMoves ==
    ASSUME IInv, NEW r \in Request, NEW new \in Initialize,
           initialize[r].at # "ok",
           new.at # "refused", new.at # "ok",
           new.at = "canonicalize" => new.root # None,
           initialize' = [initialize EXCEPT ![r] = new],
           UNCHANGED <<options, project_root, sent, handler>>
    PROVE  IInv'
<1> USE DEF IInv
<1>1. TypeOK'
  BY DEF TypeOK
<1>2. WaitingHasRoot'
  BY DEF TypeOK, WaitingHasRoot
<1>3. BoundAsAWhole'
  BY DEF TypeOK, BoundAsAWhole
<1>4. RefusedOnlyWhenBound'
  BY DEF TypeOK, RefusedOnlyWhenBound
<1>5. HandlersShareBinding'
  BY DEF HandlersShareBinding
<1> QED
  BY <1>1, <1>2, <1>3, <1>4, <1>5

\* The first initialize to reach the OnceLocks fills both.
LEMMA BindKeepsIInv == ASSUME IInv, NEW r \in Request, Bind(r) PROVE IInv'
<1> DEFINE chosen == IF initialize[r].given = None THEN Default ELSE initialize[r].given
<1> USE DEF IInv, Bind, Outcome
<1>1. /\ None \notin ProjectRoot /\ Default \in Options
      /\ initialize[r].root \in ProjectRoot /\ chosen \in Options
      /\ sent = 0
  BY SessionAssumption
     DEF SessionAssumption, TypeOK, Initialize, Given, WaitingHasRoot, BoundAsAWhole
<1>2. /\ initialize' \in [Request -> Initialize]
      /\ initialize'[r] = [initialize[r] EXCEPT !.at = "ok"]
      /\ \A q \in Request \ {r} : initialize'[q] = initialize[q]
  BY DEF TypeOK, Initialize
<1>3. /\ initialize'[r].at = "ok" /\ initialize'[r].root = initialize[r].root
      /\ initialize'[r].given = initialize[r].given
  BY <1>2 DEF TypeOK, Initialize
<1>4. TypeOK'
  BY <1>1, <1>2 DEF TypeOK
<1>5. WaitingHasRoot'
  BY <1>2, <1>3 DEF WaitingHasRoot
<1>6. BoundAsAWhole'
  BY <1>1, <1>3 DEF BoundAsAWhole
<1>7. RefusedOnlyWhenBound'
  BY <1>1 DEF RefusedOnlyWhenBound
<1>8. HandlersShareBinding'
  BY DEF HandlersShareBinding
<1> QED
  BY <1>4, <1>5, <1>6, <1>7, <1>8

\* A later initialize is refused by options.set and changes nothing bound.
LEMMA BindRefusedKeepsIInv == ASSUME IInv, NEW r \in Request, BindRefused(r) PROVE IInv'
<1> USE DEF IInv, BindRefused, Outcome
<1>1. options # None /\ project_root # None /\ options' = options
  BY LocksAgree
<1>2. /\ initialize' \in [Request -> Initialize]
      /\ initialize'[r].at = "refused"
      /\ \A q \in Request \ {r} : initialize'[q] = initialize[q]
  BY DEF TypeOK, Initialize
<1>3. TypeOK'
  BY <1>1, <1>2 DEF TypeOK
<1>4. WaitingHasRoot'
  BY <1>2 DEF WaitingHasRoot
<1>5. BoundAsAWhole'
  BY <1>1, <1>2 DEF BoundAsAWhole
<1>6. RefusedOnlyWhenBound'
  BY <1>1 DEF RefusedOnlyWhenBound
<1>7. HandlersShareBinding'
  BY DEF HandlersShareBinding
<1> QED
  BY <1>3, <1>4, <1>5, <1>6, <1>7

\* A handler that holds the bound root, or none, keeps the invariant.
LEMMA HandlerMoves ==
    ASSUME IInv, NEW h \in Handler, NEW state, NEW root \in ProjectRoot \cup {None},
           state \in {"running", "rooted", "ok", "invalid"},
           root # None => root = project_root /\ state # "invalid",
           Move(h, state, root),
           UNCHANGED <<options, project_root, sent, initialize>>
    PROVE  IInv'
<1> USE DEF IInv, Move
<1>1. TypeOK'
  BY DEF TypeOK, Handling
<1>2. WaitingHasRoot' /\ BoundAsAWhole' /\ RefusedOnlyWhenBound'
  BY DEF WaitingHasRoot, BoundAsAWhole, RefusedOnlyWhenBound
<1>3. HandlersShareBinding'
  BY DEF TypeOK, HandlersShareBinding
<1> QED
  BY <1>1, <1>2, <1>3

\* No step of a request keeps a connection half bound.
LEMMA RequestStep ==
    ASSUME IInv, NEW r \in Request,
           \/ \E folders \in Folders, rootUri \in ProjectRoot \cup {None}, given \in Given :
                 InitializeBegins(r, folders, rootUri, given)
           \/ CanonicalizeFails(r) \/ OptionsMalformed(r) \/ Bind(r) \/ BindRefused(r)
    PROVE  IInv'
<1>1. ASSUME NEW folders \in Folders, NEW rootUri \in ProjectRoot \cup {None},
             NEW given \in Given, InitializeBegins(r, folders, rootUri, given)
      PROVE  IInv'
  <2> DEFINE root == RequestedRoot(folders, rootUri)
             new == [at |-> IF root = None THEN "invalid" ELSE "canonicalize",
                     root |-> root, given |-> given]
  <2>1. new \in Initialize
    BY RequestedRootFits DEF Initialize
  <2>2. /\ initialize' = [initialize EXCEPT ![r] = new] /\ initialize[r].at = "none"
        /\ UNCHANGED <<options, project_root, sent, handler>>
    BY <1>1 DEF InitializeBegins
  <2>3. /\ new.at # "refused" /\ new.at # "ok"
        /\ new.at = "canonicalize" => new.root # None
    OBVIOUS
  <2> HIDE DEF new
  <2> QED
    BY <2>1, <2>2, <2>3, RequestMoves
<1>2. CASE CanonicalizeFails(r) \/ OptionsMalformed(r)
  <2> DEFINE new == [initialize[r] EXCEPT !.at = "invalid"]
  <2>1. new \in Initialize /\ new.at = "invalid" /\ initialize[r].at = "canonicalize"
    BY <1>2 DEF IInv, TypeOK, Initialize, CanonicalizeFails, OptionsMalformed
  <2>2. /\ initialize' = [initialize EXCEPT ![r] = new]
        /\ UNCHANGED <<options, project_root, sent, handler>>
    BY <1>2 DEF CanonicalizeFails, OptionsMalformed, Outcome, IInv, TypeOK, Initialize
  <2> HIDE DEF new
  <2> QED
    BY <2>1, <2>2, RequestMoves
<1> QED
  BY <1>1, <1>2, BindKeepsIInv, BindRefusedKeepsIInv

\* No step of a handler changes what is bound, or what it works in.
LEMMA HandlerStep ==
    ASSUME IInv, NEW h \in Handler,
           HandlerBegins(h) \/ HandlerTakesRoot(h) \/ HandlerTakesOptions(h) \/ HandlerEnds(h)
    PROVE  IInv'
<1>1. CASE HandlerBegins(h)
  BY <1>1, HandlerMoves DEF HandlerBegins
<1>2. CASE HandlerTakesRoot(h)
  <2>1. project_root \in ProjectRoot \cup {None}
    BY DEF IInv, TypeOK
  <2> QED
    BY <1>2, <2>1, HandlerMoves DEF HandlerTakesRoot
<1>3. CASE HandlerTakesOptions(h) \/ HandlerEnds(h)
  <2>1. /\ handler[h].root \in ProjectRoot \cup {None}
        /\ handler[h].root # None => handler[h].root = project_root
    BY DEF IInv, TypeOK, Handling, HandlersShareBinding
  <2>2. handler[h].root # None => options # None
    BY <2>1, LocksAgree
  <2> QED
    BY <1>3, <2>1, <2>2, HandlerMoves DEF HandlerTakesOptions, HandlerEnds
<1> QED
  BY <1>1, <1>2, <1>3

\* The connection keeps the inductive invariant for ever.
THEOREM AlwaysIInv == Spec => []IInv
<1>1. Init => IInv
  BY SessionAssumption
     DEF SessionAssumption, Init, IInv, TypeOK, Initialize, Handling, Given, WaitingHasRoot,
         BoundAsAWhole, RefusedOnlyWhenBound, HandlersShareBinding
<1>2. IInv /\ [Next]_vars => IInv'
  <2> SUFFICES ASSUME IInv, [Next]_vars PROVE IInv'
    OBVIOUS
  <2>1. CASE UNCHANGED vars
    BY <2>1 DEF vars, IInv, TypeOK, WaitingHasRoot, BoundAsAWhole,
                RefusedOnlyWhenBound, HandlersShareBinding
  <2> QED
    BY <2>1, RequestStep, HandlerStep DEF Next, Done
<1> QED
  BY <1>1, <1>2, PTL DEF Spec

\* Requests, handlers and the two OnceLocks keep their types.
THEOREM TypeCorrect == Spec => []TypeOK
<1>1. IInv => TypeOK
  BY DEF IInv
<1> QED
  BY <1>1, AlwaysIInv, PTL

\* initialize binds root and options together, once, and tells the listener once.
THEOREM BindingIsWhole == Spec => []BoundAsAWhole
<1>1. IInv => BoundAsAWhole
  BY DEF IInv
<1> QED
  BY <1>1, AlwaysIInv, PTL

\* No failed initialize uses up the connection.
THEOREM RefusalHasCause == Spec => []RefusedOnlyWhenBound
<1>1. IInv => RefusedOnlyWhenBound
  BY DEF IInv
<1> QED
  BY <1>1, AlwaysIInv, PTL

\* All handlers of a connection work in its one project.
THEOREM BindingIsShared == Spec => []HandlersShareBinding
<1>1. IInv => HandlersShareBinding
  BY DEF IInv
<1> QED
  BY <1>1, AlwaysIInv, PTL
==============================================================================
