-------------------------------- MODULE Session --------------------------------
(***************************************************************************)
(* One connection's Server of src/src/server.rs: initialize binds it to a  *)
(* project root and to presentation options, and the custom handlers use   *)
(* both.  initialize suspends while it canonicalizes the root, so several  *)
(* of them, and handlers, can be in flight at once.  tower-lsp admits one  *)
(* initialize at a time and no handler before the first success; nothing   *)
(* here relies on it, only the two OnceLocks guard the binding.            *)
(***************************************************************************)
EXTENDS Naturals, Sequences

CONSTANTS Request,       \* initialize requests of the connection
          Handler,       \* its custom requests: project_systems, read_directory
          ProjectRoot,   \* canonical project directories
          Options,       \* well-formed initializationOptions
          Default,       \* the options of a client that sends none
          None

ASSUME SessionAssumption ==
    /\ None \notin ProjectRoot \cup Options
    /\ Default \in Options

VARIABLES
    options, project_root,  \* the OnceLocks
    sent,                   \* Initialized events sent to the listener
    initialize,             \* per request: its parameters and how far it is
    handler                 \* per handler: where it is and what it works with

vars == <<options, project_root, sent, initialize, handler>>

\* malformed stands for options serde refuses.
Given == Options \cup {None, "malformed"}
Folders == {<<>>} \cup {<<p>> : p \in ProjectRoot} \cup {<<p, q>> : p, q \in ProjectRoot}
Initialize ==
    [at : {"none", "canonicalize", "ok", "invalid", "refused"},
     root : ProjectRoot \cup {None}, given : Given]
Handling == [at : {"none", "running", "rooted", "ok", "invalid"},
             root : ProjectRoot \cup {None}]

TypeOK ==
    /\ options \in Options \cup {None}
    /\ project_root \in ProjectRoot \cup {None}
    /\ sent \in Nat
    /\ initialize \in [Request -> Initialize]
    /\ handler \in [Handler -> Handling]

Init ==
    /\ options = None
    /\ project_root = None
    /\ sent = 0
    /\ initialize = [r \in Request |-> [at |-> "none", root |-> None, given |-> None]]
    /\ handler = [h \in Handler |-> [at |-> "none", root |-> None]]
------------------------------------------------------------------------------
(* initialize *)

\* client_project_root: one workspace folder, or none and a rootUri.
RequestedRoot(folders, rootUri) ==
    CASE Len(folders) = 1 -> folders[1]
      [] Len(folders) = 0 -> rootUri
      [] OTHER -> None

\* Mutant: the options are kept before the root is known to be good.
InitializeBeginsWithOptions(r, folders, rootUri, given) ==
    LET root == RequestedRoot(folders, rootUri) IN
    /\ initialize[r].at = "none"
    /\ options' = IF options = None /\ given \in Options THEN given ELSE options
    /\ initialize' = [initialize EXCEPT ![r] =
          [at |-> IF root = None THEN "invalid" ELSE "canonicalize",
           root |-> root, given |-> given]]
    /\ UNCHANGED <<project_root, sent, handler>>

\* The request arrives; without exactly one root it is refused at once.
InitializeBegins(r, folders, rootUri, given) ==
    LET root == RequestedRoot(folders, rootUri) IN
    /\ initialize[r].at = "none"
    /\ initialize' = [initialize EXCEPT ![r] =
          [at |-> IF root = None THEN "invalid" ELSE "canonicalize",
           root |-> root, given |-> given]]
    /\ UNCHANGED <<options, project_root, sent, handler>>

Outcome(r, at) == initialize' = [initialize EXCEPT ![r].at = at]

\* The root does not resolve, or is not a directory.
CanonicalizeFails(r) ==
    /\ initialize[r].at = "canonicalize"
    /\ Outcome(r, "invalid")
    /\ UNCHANGED <<options, project_root, sent, handler>>

OptionsMalformed(r) ==
    /\ initialize[r].at = "canonicalize"
    /\ initialize[r].given = "malformed"
    /\ Outcome(r, "invalid")
    /\ UNCHANGED <<options, project_root, sent, handler>>

\* Mutant: a later initialize replaces the binding.
Rebind(r) ==
    /\ initialize[r].at = "canonicalize"
    /\ initialize[r].given # "malformed"
    /\ options' = IF initialize[r].given = None THEN Default ELSE initialize[r].given
    /\ project_root' = initialize[r].root
    /\ sent' = sent + 1
    /\ Outcome(r, "ok")
    /\ UNCHANGED handler

\* Mutant: options serde refuses are kept as they came.
BindUnchecked(r) ==
    /\ initialize[r].at = "canonicalize"
    /\ options = None /\ project_root = None
    /\ options' = IF initialize[r].given = None THEN Default ELSE initialize[r].given
    /\ project_root' = initialize[r].root
    /\ sent' = sent + 1
    /\ Outcome(r, "ok")
    /\ UNCHANGED handler

\* Both OnceLocks are set without an await in between.
Bind(r) ==
    /\ initialize[r].at = "canonicalize"
    /\ initialize[r].given # "malformed"
    /\ options = None /\ project_root = None
    /\ options' = IF initialize[r].given = None THEN Default ELSE initialize[r].given
    /\ project_root' = initialize[r].root
    /\ sent' = sent + 1
    /\ Outcome(r, "ok")
    /\ UNCHANGED handler

\* options.set or project_root.set returned an error; the other one keeps what
\* it was set to.
BindRefused(r) ==
    /\ initialize[r].at = "canonicalize"
    /\ initialize[r].given # "malformed"
    /\ options # None \/ project_root # None
    /\ options' = IF options # None THEN options
                  ELSE IF initialize[r].given = None THEN Default ELSE initialize[r].given
    /\ Outcome(r, "refused")
    /\ UNCHANGED <<project_root, sent, handler>>
------------------------------------------------------------------------------
(* Handlers *)

Move(h, at, root) == handler' = [handler EXCEPT ![h] = [at |-> at, root |-> root]]

HandlerBegins(h) ==
    /\ handler[h].at = "none"
    /\ Move(h, "running", None)
    /\ UNCHANGED <<options, project_root, sent, initialize>>

\* Server::project_root
HandlerTakesRoot(h) ==
    /\ handler[h].at = "running"
    /\ Move(h, IF project_root = None THEN "invalid" ELSE "rooted", project_root)
    /\ UNCHANGED <<options, project_root, sent, initialize>>

\* read_directory looks at the options only after its last await.
HandlerTakesOptions(h) ==
    /\ handler[h].at = "rooted"
    /\ Move(h, IF options = None THEN "invalid" ELSE "ok", handler[h].root)
    /\ UNCHANGED <<options, project_root, sent, initialize>>

\* project_systems needs no options; any awaited call may fail.
HandlerEnds(h) ==
    /\ handler[h].at = "rooted"
    /\ Move(h, "ok", handler[h].root)
    /\ UNCHANGED <<options, project_root, sent, initialize>>
------------------------------------------------------------------------------
Done ==
    /\ \A r \in Request : initialize[r].at \notin {"none", "canonicalize"}
    /\ \A h \in Handler : handler[h].at \in {"ok", "invalid"}
    /\ UNCHANGED vars

Next ==
    \/ \E r \in Request :
          \/ \E folders \in Folders, rootUri \in ProjectRoot \cup {None}, given \in Given :
                InitializeBegins(r, folders, rootUri, given)
          \/ CanonicalizeFails(r) \/ OptionsMalformed(r) \/ Bind(r) \/ BindRefused(r)
    \/ \E h \in Handler :
          HandlerBegins(h) \/ HandlerTakesRoot(h) \/ HandlerTakesOptions(h) \/ HandlerEnds(h)
    \/ Done

Spec == Init /\ [][Next]_vars
------------------------------------------------------------------------------
(* Properties *)

\* The connection is bound as a whole or not at all: root and options come from
\* one initialize, which alone reported Initialized to the listener.  A failed
\* initialize leaves nothing behind.
BoundAsAWhole ==
    IF project_root = None THEN options = None /\ sent = 0
    ELSE /\ sent = 1
         /\ \E r \in Request :
               /\ initialize[r].at = "ok"
               /\ initialize[r].root = project_root
               /\ options = IF initialize[r].given = None THEN Default
                            ELSE initialize[r].given

\* A valid initialize is refused only after another one succeeded: failed
\* attempts, also those still in flight, never use up the connection.
RefusedOnlyWhenBound ==
    \A r \in Request : initialize[r].at = "refused" => project_root # None

\* Every handler of a connection works in the same project, whatever initialize
\* requests come later, and one that has its root never misses the options.
HandlersShareBinding ==
    \A h \in Handler :
       handler[h].root # None => /\ handler[h].root = project_root
                                 /\ handler[h].at # "invalid"
==============================================================================
