----------------------------- MODULE Configuration -----------------------------
(***************************************************************************)
(* load_system_configuration of src/src/config for one destination, and    *)
(* the mounts upsert_view then builds from it.  main settles the path of   *)
(* the user file before it listens.  A load then reads three files, at     *)
(* three awaits: each read finds any file the user may have put there by   *)
(* then.  A file is what serde makes of it, version the one written, if    *)
(* any; empty names the fields of the destination that are empty strings.  *)
(* A path is the sequence of its components, the first "/" if absolute.    *)
(***************************************************************************)
EXTENDS Integers, SequencesExt

CONSTANTS MountConfigs,  \* what ziege.toml may list: sequences of MountConfig
          Environments,  \* what the variables may hold when the process starts
          None

VARIABLES environment,   \* what they hold
          userPath,      \* the path of the user file, None before it is settled
          stage,         \* the next step of the start or the load
          project, user, destinations,  \* the files read, None before
          built,         \* the labels of the mounts of the view
          error          \* why the start or the load ended, Ok if it did not

read == <<project, user, destinations>>
vars == <<environment, userPath, stage, read, built, error>>

CONFIG_VERSION == 1
Versions == {1, 2}
FieldOrder == <<"url", "client", "language", "username", "password">>
Fields == {FieldOrder[i] : i \in DOMAIN FieldOrder}

\* systems: the mounts of the destination's entry, or None without an entry.
ProjectFile == [status : {"ok"}, version : Versions, systems : MountConfigs \cup {None}]
UserFile == [status : {"ok"}, version : Versions \cup {None}]
DestinationsFile ==
    [status : {"ok"}, version : Versions, known : {TRUE}, empty : SUBSET Fields]
    \cup [status : {"ok"}, version : Versions, known : {FALSE}, empty : {{}}]
Unreadable == [status : {"absent", "malformed"}]

Err(kind, about) == [kind |-> kind, about |-> about]
Ok == Err("Ok", None)

\* Mounts are listed and paths are sequences; None stands for what is not there.
ASSUME ConfigurationAssumption ==
    /\ \A mounts \in MountConfigs : mounts \in Seq({mounts[i] : i \in DOMAIN mounts})
    /\ \A env \in Environments :
          \A variable \in {"ZIEGE_CONFIG", "XDG_CONFIG_HOME", "HOME"} :
             \/ env[variable] = None
             \/ env[variable] \in Seq({env[variable][i] : i \in DOMAIN env[variable]})
    /\ None \notin Versions \cup ProjectFile \cup UserFile \cup DestinationsFile \cup Unreadable

Init ==
    /\ environment \in Environments
    /\ userPath = None
    /\ stage = "start"
    /\ project = None /\ user = None /\ destinations = None
    /\ built = <<>>
    /\ error = Ok

\* The load goes on, or ends with the error.
Proceed(fault, next) ==
    /\ error' = fault
    /\ stage' = IF fault = Ok THEN next ELSE "failed"
------------------------------------------------------------------------------
(* user_config_path *)

IsAbsolute(path) == path # <<>> /\ path[1] = "/"

\* Mutant: a relative or empty XDG_CONFIG_HOME counts too.
ResolveAnyXdg(env) ==
    IF env.ZIEGE_CONFIG # None THEN env.ZIEGE_CONFIG
    ELSE IF env.XDG_CONFIG_HOME # None
    THEN env.XDG_CONFIG_HOME \o <<"ziege", "config.toml">>
    ELSE IF env.HOME # None THEN env.HOME \o <<".config", "ziege", "config.toml">>
    ELSE None

\* An override is taken as it is, even if it is empty or relative.
ResolveUserConfigPath(env) ==
    IF env.ZIEGE_CONFIG # None THEN env.ZIEGE_CONFIG
    ELSE IF env.XDG_CONFIG_HOME # None /\ IsAbsolute(env.XDG_CONFIG_HOME)
    THEN env.XDG_CONFIG_HOME \o <<"ziege", "config.toml">>
    ELSE IF env.HOME # None THEN env.HOME \o <<".config", "ziege", "config.toml">>
    ELSE None

\* Without a path main returns the error and the process has ended.
Start ==
    /\ stage = "start"
    /\ userPath' = ResolveUserConfigPath(environment)
    /\ IF userPath' = None
       THEN error' = Err("MissingEnvironment", "HOME") /\ stage' = "exited"
       ELSE stage' = "project" /\ UNCHANGED error
    /\ UNCHANGED <<environment, read, built>>

\* An override may be empty, or name a directory by its last component.
NamesFile(path) == path # <<>> /\ Last(path) \notin {"/", ".", ".."}

\* The files, by kind: ziege.toml in the project's root, and the user's two.
PathOf(kind) ==
    CASE kind = "project" -> <<"ziege.toml">>
      [] kind = "user" -> userPath
      [] kind = "destinations" ->
           (IF NamesFile(userPath) THEN Front(userPath) ELSE userPath) \o <<"destinations.toml">>
------------------------------------------------------------------------------
(* read_config and the version check that follows every call of it *)

\* Only a user file may leave its version out, which serde then takes for 1.
FileFault(file, kind) ==
    IF file.status = "absent" THEN Err("Read", PathOf(kind))
    ELSE IF file.status = "malformed" THEN Err("Parse", PathOf(kind))
    ELSE IF file.version \notin {CONFIG_VERSION, None} THEN Err("UnsupportedVersion", kind)
    ELSE Ok

\* What a read may find: there is no file where the path names none.
FoundAt(kind, files) ==
    IF NamesFile(PathOf(kind)) THEN files \cup Unreadable ELSE [status : {"absent"}]

\* load_local_project, then systems.remove(id)
LoadProject ==
    /\ stage = "project"
    /\ \E file \in FoundAt("project", ProjectFile) :
          LET fault == FileFault(file, "project") IN
          /\ project' = file
          /\ Proceed(IF fault = Ok /\ file.systems = None
                     THEN Err("UnknownDestination", PathOf("project")) ELSE fault, "user")
    /\ UNCHANGED <<environment, userPath, user, destinations, built>>

\* load_user_configuration
LoadUser ==
    /\ stage = "user"
    /\ \E file \in FoundAt("user", UserFile) :
          /\ user' = file
          /\ Proceed(FileFault(file, "user"), "destinations")
    /\ UNCHANGED <<environment, userPath, project, destinations, built>>

\* Mutant: the loop forgets the language, which has a default.
EmptyFieldsLoosely(file) == {i \in DOMAIN FieldOrder : FieldOrder[i] \in file.empty \ {"language"}}

\* The loop over the fields of the destination returns at the first empty one.
EmptyFields(file) == {i \in DOMAIN FieldOrder : FieldOrder[i] \in file.empty}

DestinationFault(file) ==
    LET fault == FileFault(file, "destinations") IN
    IF fault # Ok THEN fault
    ELSE IF ~file.known THEN Err("UnknownDestination", PathOf("destinations"))
    ELSE IF EmptyFields(file) # {} THEN Err("EmptyField", FieldOrder[Min(EmptyFields(file))])
    ELSE Ok

\* load_destination
LoadDestination ==
    /\ stage = "destinations"
    /\ \E file \in FoundAt("destinations", DestinationsFile) :
          /\ destinations' = file
          /\ Proceed(DestinationFault(file), "mounts")
    /\ UNCHANGED <<environment, userPath, project, user, built>>
------------------------------------------------------------------------------
(* MountConfig::build *)

SystemLibrary == "System Library"
Unnamed == ""

\* A package without a label is shown under its own name.
MountLabel(mount) ==
    IF mount.kind = "package" /\ mount.label = None THEN mount.package ELSE mount.label

\* Mutant: a selection is accepted when its first filter has a value.
MountFaultOfFirst(mount) ==
    IF mount.filters # <<>> /\ mount.filters[1] = <<>> THEN Err("EmptyFilter", mount.label)
    ELSE IF MountLabel(mount) = Unnamed THEN Err("EmptyMountLabel", None)
    ELSE Ok

\* filters has the values each filter selects; only a selection has any, and it may
\* have none.  An error says the label of the mount at fault, or nothing about it.
MountFault(mount) ==
    IF \E i \in DOMAIN mount.filters : mount.filters[i] = <<>>
    THEN Err("EmptyFilter", mount.label)
    ELSE IF MountLabel(mount) = Unnamed THEN Err("EmptyMountLabel", None)
    ELSE Ok

\* Without any mount the System Library is mounted; the first mount that cannot
\* be built ends the load.
BuildMounts ==
    LET mounts == project.systems IN
    /\ stage = "mounts"
    /\ \/ /\ \A i \in DOMAIN mounts : MountFault(mounts[i]) = Ok
          /\ Proceed(Ok, "loaded")
          /\ built' = IF mounts = <<>> THEN <<SystemLibrary>>
                      ELSE [i \in DOMAIN mounts |-> MountLabel(mounts[i])]
       \/ \E i \in DOMAIN mounts :
             /\ \A j \in 1..(i - 1) : MountFault(mounts[j]) = Ok
             /\ MountFault(mounts[i]) # Ok
             /\ Proceed(MountFault(mounts[i]), "loaded")
             /\ UNCHANGED built
    /\ UNCHANGED <<environment, userPath, read>>

\* The request is answered; the next one that loads reads the files anew.
LoadAgain ==
    /\ stage \in {"loaded", "failed"}
    /\ stage' = "project"
    /\ project' = None /\ user' = None /\ destinations' = None
    /\ built' = <<>>
    /\ error' = Ok
    /\ UNCHANGED <<environment, userPath>>

Rest == stage = "exited" /\ UNCHANGED vars

Next ==
    Start \/ LoadProject \/ LoadUser \/ LoadDestination \/ BuildMounts \/ LoadAgain \/ Rest

Spec == Init /\ [][Next]_vars
------------------------------------------------------------------------------
(* Properties *)

Readable(file) == file.status = "ok" /\ file.version = CONFIG_VERSION
SoundUserFile(file) == file.status = "ok" /\ file.version \in {CONFIG_VERSION, None}
SoundProject == project # None /\ Readable(project) /\ project.systems # None
SoundUser == user # None /\ SoundUserFile(user)
HasDestination == destinations # None /\ Readable(destinations) /\ destinations.known
SoundDestination == HasDestination /\ destinations.empty = {}
FiltersFilled(mount) == <<>> \notin {mount.filters[i] : i \in DOMAIN mount.filters}

\* A view is only ever built from three sound files, with a destination that has
\* all its fields, and with every mount that is listed: in the order of the list,
\* under a name that is not empty, and with a value for each filter it lists.
LoadedIsSound ==
    stage = "loaded" =>
       /\ SoundProject /\ SoundUser /\ SoundDestination
       /\ built # <<>> /\ \A i \in DOMAIN built : built[i] # Unnamed
       /\ \A i \in DOMAIN project.systems :
             /\ FiltersFilled(project.systems[i])
             /\ built[i] = MountLabel(project.systems[i])

\* src/src/config/mod.rs:86-89: "package mount names must not be empty", "selection
\* mount `{label}` requires at least one filter value".  A view that is built has no
\* mount that breaks either rule.
MountsSelectSomething ==
    stage = "loaded" =>
       \A i \in DOMAIN project.systems :
          LET mount == project.systems[i] IN
          /\ mount.kind = "package" => mount.package # Unnamed
          /\ mount.kind = "selection" =>
                \E j \in DOMAIN mount.filters : mount.filters[j] # <<>>

\* src/src/config/user.rs:3-4: "`ZIEGE_CONFIG`, then an absolute `XDG_CONFIG_HOME`,
\* falling back to `~/.config/ziege/config.toml`".
Precedence == <<"ZIEGE_CONFIG", "XDG_CONFIG_HOME", "HOME">>
Beneath == [ZIEGE_CONFIG |-> <<>>,
            XDG_CONFIG_HOME |-> <<"ziege", "config.toml">>,
            HOME |-> <<".config", "ziege", "config.toml">>]
Usable(variable) ==
    /\ environment[variable] # None
    /\ variable = "XDG_CONFIG_HOME" => IsAbsolute(environment[variable])

\* A request is only ever served with the user's file of the first of these places
\* that can be used; without any, nobody is served.
ReadsDocumentedPlace ==
    stage \notin {"start", "exited"} =>
       \E i \in DOMAIN Precedence :
          /\ Usable(Precedence[i])
          /\ \A j \in 1..(i - 1) : ~Usable(Precedence[j])
          /\ PathOf("user") = environment[Precedence[i]] \o Beneath[Precedence[i]]

\* The first mount of the list that has a fault is the one at i.
FirstFaulty(i) ==
    \A j \in 1..(i - 1) :
       FiltersFilled(project.systems[j]) /\ MountLabel(project.systems[j]) # Unnamed

Kinds == {"project", "user", "destinations"}

\* The file of this kind is at fault; those read before it are not.
FirstFaultIn(kind) ==
    CASE kind = "project" -> ~SoundProject /\ user = None /\ destinations = None
      [] kind = "user" -> SoundProject /\ ~SoundUser /\ destinations = None
      [] kind = "destinations" -> SoundProject /\ SoundUser /\ ~HasDestination

\* The error a client gets is about the first thing that is wrong: all that is read
\* before it is sound, and nothing is read, let alone connected to, after it.  It
\* names a file or a field; of a mount it only says what is wrong with it and, for a
\* filter, the label, which another mount may share.  A fault of the user file counts,
\* though README.md:60 calls it currently unused: the code reads it all the same.
FirstFaultReported ==
    stage = "failed" =>
       CASE error.kind = "EmptyFilter" ->
              /\ SoundDestination
              /\ \E i \in DOMAIN project.systems :
                    /\ FirstFaulty(i) /\ ~FiltersFilled(project.systems[i])
                    /\ error.about = project.systems[i].label
         [] error.kind = "EmptyMountLabel" ->
              /\ SoundDestination
              /\ \E i \in DOMAIN project.systems :
                    /\ FirstFaulty(i) /\ FiltersFilled(project.systems[i])
                    /\ MountLabel(project.systems[i]) = Unnamed
         [] error.kind = "EmptyField" ->
              /\ SoundProject /\ SoundUser /\ HasDestination
              /\ \E i \in DOMAIN FieldOrder :
                    /\ error.about = FieldOrder[i] /\ FieldOrder[i] \in destinations.empty
                    /\ \A j \in 1..(i - 1) : FieldOrder[j] \notin destinations.empty
         [] error.kind = "UnsupportedVersion" -> FirstFaultIn(error.about)
         [] OTHER -> \E kind \in Kinds : error.about = PathOf(kind) /\ FirstFaultIn(kind)
==============================================================================
