-------------------------- MODULE ConfigurationProofs --------------------------
(***************************************************************************)
(* Proofs that a load of the configuration ends as Configuration promises: *)
(* from the documented place, with three sound files, or with the first    *)
(* fault there is.                                                         *)
(***************************************************************************)
EXTENDS Configuration, TLAPS

\* What a load has established when it comes to each of its stages.
Started == stage # "start" => userPath = ResolveUserConfigPath(environment)
Served == stage \notin {"start", "exited"} => userPath # None

AtProject == project = None /\ user = None /\ destinations = None
AtUser == SoundProject /\ user = None /\ destinations = None
AtDestinations == SoundProject /\ SoundUser /\ destinations = None
AtMounts == SoundProject /\ SoundUser /\ SoundDestination /\ project \in ProjectFile

Progress ==
    /\ environment \in Environments
    /\ Started /\ Served
    /\ stage \in {"start", "project"} => AtProject /\ built = <<>>
    /\ stage = "user" => AtUser /\ project \in ProjectFile /\ built = <<>>
    /\ stage = "destinations" => AtDestinations /\ project \in ProjectFile /\ built = <<>>
    /\ stage = "mounts" => AtMounts /\ built = <<>>

Inv == Progress /\ LoadedIsSound /\ FirstFaultReported
------------------------------------------------------------------------------
(* What the helpers of the load return *)

\* A fault is never taken for none.
LEMMA FaultIsNotOk == \A kind, about : Err(kind, about) = Ok => kind = "Ok"
  BY DEF Err, Ok

\* read_config and the version check let only a readable file of version 1 pass,
\* or of none; what they refuse they refuse by its place or its kind.
LEMMA FileFaultMeans ==
    ASSUME NEW file, NEW kind
    PROVE  /\ FileFault(file, kind) = Ok =>
                  /\ file.status \notin {"absent", "malformed"}
                  /\ file.version \in {CONFIG_VERSION, None}
           /\ FileFault(file, kind) # Ok =>
                  /\ ~SoundUserFile(file) /\ ~Readable(file)
                  /\ \/ FileFault(file, kind) = Err("UnsupportedVersion", kind)
                     \/ FileFault(file, kind) = Err("Read", PathOf(kind))
                     \/ FileFault(file, kind) = Err("Parse", PathOf(kind))
<1>1. /\ Err("Read", PathOf(kind)) # Ok
      /\ Err("Parse", PathOf(kind)) # Ok
      /\ Err("UnsupportedVersion", kind) # Ok
  BY FaultIsNotOk
<1> QED
  BY <1>1 DEF FileFault, SoundUserFile, Readable

\* What a read finds is a file of its kind or one that cannot be read.
LEMMA FoundMeans ==
    ASSUME NEW kind, NEW files, NEW file \in FoundAt(kind, files)
    PROVE  file \in files \cup Unreadable
  BY DEF FoundAt, Unreadable

LEMMA UnreadableMeans ==
    ASSUME NEW file \in Unreadable
    PROVE  file.status \in {"absent", "malformed"}
  BY DEF Unreadable

\* What is read is there.
LEMMA ReadIsThere ==
    \A file \in ProjectFile \cup UserFile \cup DestinationsFile \cup Unreadable : file # None
  BY ConfigurationAssumption

\* A project file without a fault is of version 1.
LEMMA ProjectFileMeans ==
    ASSUME NEW file \in ProjectFile \cup Unreadable, FileFault(file, "project") = Ok
    PROVE  file \in ProjectFile /\ Readable(file)
<1>1. file.status \notin {"absent", "malformed"} /\ file.version \in {CONFIG_VERSION, None}
  BY FileFaultMeans
<1>2. file \in ProjectFile
  BY <1>1, UnreadableMeans
<1>3. file.status = "ok" /\ file.version \in Versions
  BY <1>2 DEF ProjectFile
<1>4. file.version = CONFIG_VERSION
  BY <1>1, <1>3, ConfigurationAssumption
<1> QED
  BY <1>2, <1>3, <1>4 DEF Readable

LEMMA UserFileMeans ==
    ASSUME NEW file \in UserFile \cup Unreadable, FileFault(file, "user") = Ok
    PROVE  SoundUserFile(file)
<1>1. file.status \notin {"absent", "malformed"} /\ file.version \in {CONFIG_VERSION, None}
  BY FileFaultMeans
<1>2. file \in UserFile
  BY <1>1, UnreadableMeans
<1> QED
  BY <1>1, <1>2 DEF UserFile, SoundUserFile

LEMMA DestinationsFileMeans ==
    ASSUME NEW file \in DestinationsFile \cup Unreadable,
           FileFault(file, "destinations") = Ok
    PROVE  file \in DestinationsFile /\ Readable(file)
<1>1. file.status \notin {"absent", "malformed"} /\ file.version \in {CONFIG_VERSION, None}
  BY FileFaultMeans
<1>2. file \in DestinationsFile
  BY <1>1, UnreadableMeans
<1>3. file.status = "ok" /\ file.version \in Versions
  BY <1>2 DEF DestinationsFile
<1>4. file.version = CONFIG_VERSION
  BY <1>1, <1>3, ConfigurationAssumption
<1> QED
  BY <1>2, <1>3, <1>4 DEF Readable

\* The loop of load_destination finds an empty field if there is one, and the
\* first one.
LEMMA FirstEmptyField ==
    ASSUME NEW file, EmptyFields(file) # {}
    PROVE  /\ Min(EmptyFields(file)) \in EmptyFields(file)
           /\ \A j \in EmptyFields(file) : Min(EmptyFields(file)) <= j
<1>1. EmptyFields(file) \subseteq 1..5
  BY DEF EmptyFields, FieldOrder
<1>2. \E i \in EmptyFields(file) : \A j \in EmptyFields(file) : i <= j
  <2>1. \E i \in 1..5 : i \in EmptyFields(file)
    BY <1>1
  <2>2. CASE 1 \in EmptyFields(file)
    BY <1>1, <2>2
  <2>3. CASE 1 \notin EmptyFields(file) /\ 2 \in EmptyFields(file)
    BY <1>1, <2>3
  <2>4. CASE {1, 2} \cap EmptyFields(file) = {} /\ 3 \in EmptyFields(file)
    BY <1>1, <2>4
  <2>5. CASE {1, 2, 3} \cap EmptyFields(file) = {} /\ 4 \in EmptyFields(file)
    BY <1>1, <2>5
  <2>6. CASE {1, 2, 3, 4} \cap EmptyFields(file) = {}
    BY <1>1, <2>1, <2>6
  <2> QED
    BY <2>2, <2>3, <2>4, <2>5, <2>6
<1> QED
  BY <1>2 DEF Min

LEMMA NoEmptyField ==
    ASSUME NEW file \in DestinationsFile, EmptyFields(file) = {}
    PROVE  file.empty = {}
<1>1. file.empty \subseteq Fields
  BY DEF DestinationsFile
<1> QED
  BY <1>1 DEF EmptyFields, Fields

\* A mount without a fault has a name and values for its filters; a fault says which
\* of the two is missing.
LEMMA MountFaultMeans ==
    ASSUME NEW mount
    PROVE  /\ MountFault(mount) = Ok => FiltersFilled(mount) /\ MountLabel(mount) # Unnamed
           /\ MountFault(mount) # Ok =>
                 \/ /\ MountFault(mount) = Err("EmptyFilter", mount.label)
                    /\ ~FiltersFilled(mount)
                 \/ /\ MountFault(mount) = Err("EmptyMountLabel", None)
                    /\ FiltersFilled(mount) /\ MountLabel(mount) = Unnamed
<1>1. Err("EmptyFilter", mount.label) # Ok /\ Err("EmptyMountLabel", None) # Ok
  BY FaultIsNotOk
<1> QED
  BY <1>1 DEF MountFault, FiltersFilled
------------------------------------------------------------------------------
(* Every step keeps what the load has established *)

\* An error that names the place or the kind of the first file at fault is the
\* one to report.
LEMMA FaultReported ==
    ASSUME NEW kind \in Kinds, FirstFaultIn(kind)', UNCHANGED userPath,
           \/ error' = Err("UnsupportedVersion", kind)
           \/ error' = Err("Read", PathOf(kind))
           \/ error' = Err("Parse", PathOf(kind))
           \/ error' = Err("UnknownDestination", PathOf(kind))
    PROVE  FirstFaultReported'
<1>1. PathOf(kind)' = PathOf(kind)
  BY DEF PathOf
<1>2. CASE error' = Err("UnsupportedVersion", kind)
  BY <1>2 DEF FirstFaultReported, Err
<1>3. CASE error' # Err("UnsupportedVersion", kind)
  <2>1. /\ error.kind' \in {"Read", "Parse", "UnknownDestination"}
        /\ error.about' = PathOf(kind)'
    BY <1>1, <1>3 DEF Err
  <2>2. \E k \in Kinds : error.about' = PathOf(k)' /\ FirstFaultIn(k)'
    BY <2>1
  <2> QED
    BY <2>1, <2>2 DEF FirstFaultReported
<1> QED
  BY <1>2, <1>3

\* main settles the path of the user file, or exits.
LEMMA StartStep == Inv /\ Start => Inv'
<1> SUFFICES ASSUME Inv, Start
             PROVE  Inv'
  OBVIOUS
<1>1. CASE userPath' = None
  <2>1. stage' = "exited" /\ UNCHANGED environment
    BY <1>1 DEF Start
  <2> QED
    BY <2>1 DEF Inv, Progress, Start, Started, Served, LoadedIsSound, FirstFaultReported
<1>2. CASE userPath' # None
  <2>1. stage' = "project" /\ UNCHANGED <<environment, project, user, destinations, built>>
    BY <1>2 DEF Start, read
  <2> QED
    BY <1>2, <2>1 DEF Inv, Progress, Start, Started, Served, AtProject, LoadedIsSound, FirstFaultReported
<1> QED
  BY <1>1, <1>2

\* load_local_project, and the entry of the destination
LEMMA ProjectStep == Inv /\ LoadProject => Inv'
<1> SUFFICES ASSUME Inv, LoadProject
             PROVE  Inv'
  OBVIOUS
<1> DEFINE Fault(file) ==
              IF FileFault(file, "project") = Ok /\ file.systems = None
              THEN Err("UnknownDestination", PathOf("project"))
              ELSE FileFault(file, "project")
<1>1. PICK file \in FoundAt("project", ProjectFile) :
         project' = file /\ Proceed(Fault(file), "user")
  BY DEF LoadProject
<1>2. file \in ProjectFile \cup Unreadable /\ file # None
  BY FoundMeans, ReadIsThere
<1>3. /\ stage = "project" /\ AtProject /\ built = <<>>
      /\ UNCHANGED <<environment, userPath, user, destinations, built>>
  BY DEF LoadProject, Inv, Progress
<1>4. CASE Fault(file) = Ok
  <2>1. stage' = "user"
    BY <1>1, <1>4 DEF Proceed
  <2>2. FileFault(file, "project") = Ok /\ file.systems # None
    BY <1>4, FaultIsNotOk
  <2>3. AtUser' /\ (project \in ProjectFile)'
    BY <1>1, <1>2, <1>3, <2>2, ProjectFileMeans DEF AtProject, AtUser, SoundProject, Readable
  <2> QED
    BY <1>3, <2>1, <2>3
       DEF Inv, Progress, Started, Served, LoadedIsSound, FirstFaultReported
<1>5. CASE Fault(file) # Ok
  <2>1. stage' = "failed" /\ error' = Fault(file)
    BY <1>1, <1>5 DEF Proceed
  <2>2. FirstFaultIn("project")'
    <3>1. ~(Readable(file) /\ file.systems # None)
      BY <1>5, FileFaultMeans
    <3> QED
      BY <1>1, <1>3, <3>1 DEF FirstFaultIn, AtProject, SoundProject, Readable
  <2>3. FirstFaultReported'
    <3>1. \/ error' = Err("UnknownDestination", PathOf("project"))
          \/ error' = Err("UnsupportedVersion", "project")
          \/ error' = Err("Read", PathOf("project"))
          \/ error' = Err("Parse", PathOf("project"))
      BY <1>5, <2>1, FileFaultMeans
    <3> QED
      BY <1>3, <2>2, <3>1, FaultReported DEF Kinds
  <2> QED
    BY <1>3, <2>1, <2>3 DEF Inv, Progress, Started, Served, LoadedIsSound
<1> QED
  BY <1>4, <1>5

\* load_user_configuration
LEMMA UserStep == Inv /\ LoadUser => Inv'
<1> SUFFICES ASSUME Inv, LoadUser
             PROVE  Inv'
  OBVIOUS
<1>1. PICK file \in FoundAt("user", UserFile) :
         user' = file /\ Proceed(FileFault(file, "user"), "destinations")
  BY DEF LoadUser
<1>2. file \in UserFile \cup Unreadable /\ file # None
  BY FoundMeans, ReadIsThere
<1>3. /\ stage = "user" /\ AtUser /\ project \in ProjectFile /\ built = <<>>
      /\ UNCHANGED <<environment, userPath, project, destinations, built>>
  BY DEF LoadUser, Inv, Progress
<1>4. CASE FileFault(file, "user") = Ok
  <2>1. stage' = "destinations"
    BY <1>1, <1>4 DEF Proceed
  <2>2. AtDestinations'
    BY <1>1, <1>2, <1>3, <1>4, UserFileMeans
       DEF AtUser, AtDestinations, SoundProject, SoundUser, SoundUserFile, Readable
  <2> QED
    BY <1>3, <2>1, <2>2
       DEF Inv, Progress, Started, Served, LoadedIsSound, FirstFaultReported
<1>5. CASE FileFault(file, "user") # Ok
  <2>1. stage' = "failed" /\ error' = FileFault(file, "user")
    BY <1>1, <1>5 DEF Proceed
  <2>2. FirstFaultIn("user")'
    <3>1. ~SoundUserFile(file)
      BY <1>5, FileFaultMeans
    <3> QED
      BY <1>1, <1>3, <3>1
         DEF FirstFaultIn, AtUser, SoundProject, SoundUser, SoundUserFile, Readable
  <2>3. FirstFaultReported'
    BY <1>3, <1>5, <2>1, <2>2, FileFaultMeans, FaultReported DEF Kinds
  <2> QED
    BY <1>3, <2>1, <2>3 DEF Inv, Progress, Started, Served, LoadedIsSound
<1> QED
  BY <1>4, <1>5

\* load_destination
LEMMA DestinationStep == Inv /\ LoadDestination => Inv'
<1> SUFFICES ASSUME Inv, LoadDestination
             PROVE  Inv'
  OBVIOUS
<1>1. PICK file \in FoundAt("destinations", DestinationsFile) :
         destinations' = file /\ Proceed(DestinationFault(file), "mounts")
  BY DEF LoadDestination
<1>2. file \in DestinationsFile \cup Unreadable /\ file # None
  BY FoundMeans, ReadIsThere
<1>3. /\ stage = "destinations" /\ AtDestinations /\ project \in ProjectFile /\ built = <<>>
      /\ UNCHANGED <<environment, userPath, project, user, built>>
  BY DEF LoadDestination, Inv, Progress
<1>4. SoundProject' /\ SoundUser'
  BY <1>3 DEF AtDestinations, SoundProject, SoundUser, SoundUserFile, Readable
<1>5. CASE DestinationFault(file) = Ok
  <2>1. stage' = "mounts"
    BY <1>1, <1>5 DEF Proceed
  <2>2. FileFault(file, "destinations") = Ok /\ file.known /\ EmptyFields(file) = {}
    BY <1>5, FaultIsNotOk DEF DestinationFault
  <2>3. Readable(file) /\ file.empty = {}
    BY <1>2, <2>2, DestinationsFileMeans, NoEmptyField
  <2>4. AtMounts'
    BY <1>1, <1>2, <1>3, <1>4, <2>2, <2>3
       DEF AtMounts, SoundDestination, HasDestination, Readable
  <2> QED
    BY <1>3, <2>1, <2>4
       DEF Inv, Progress, Started, Served, LoadedIsSound, FirstFaultReported
<1>6. CASE DestinationFault(file) # Ok
  <2>1. stage' = "failed" /\ error' = DestinationFault(file)
    BY <1>1, <1>6 DEF Proceed
  <2>2. CASE FileFault(file, "destinations") # Ok \/ ~file.known
    <3>1. FirstFaultIn("destinations")'
      <4>1. ~(Readable(file) /\ file.known)
        BY <2>2, FileFaultMeans
      <4> QED
        BY <1>1, <1>4, <4>1 DEF FirstFaultIn, HasDestination, Readable
    <3>2. \/ error' = Err("UnknownDestination", PathOf("destinations"))
          \/ error' = Err("UnsupportedVersion", "destinations")
          \/ error' = Err("Read", PathOf("destinations"))
          \/ error' = Err("Parse", PathOf("destinations"))
      BY <2>1, <2>2, FileFaultMeans DEF DestinationFault
    <3>3. FirstFaultReported'
      BY <1>3, <3>1, <3>2, FaultReported DEF Kinds
    <3> QED
      BY <1>3, <2>1, <3>3 DEF Inv, Progress, Started, Served, LoadedIsSound
  <2>3. CASE FileFault(file, "destinations") = Ok /\ file.known
    <3>1. EmptyFields(file) # {}
      BY <1>6, <2>3 DEF DestinationFault
    <3> DEFINE first == Min(EmptyFields(file))
    <3>2. error' = Err("EmptyField", FieldOrder[first])
      BY <2>1, <2>3, <3>1 DEF DestinationFault
    <3>3. Readable(file)
      BY <1>2, <2>3, DestinationsFileMeans
    <3>4. HasDestination'
      BY <1>1, <1>2, <2>3, <3>3 DEF HasDestination, Readable
    <3>5. /\ first \in DOMAIN FieldOrder /\ FieldOrder[first] \in destinations'.empty
          /\ \A j \in 1..(first - 1) : FieldOrder[j] \notin destinations'.empty
      <4> HIDE DEF first
      <4>1. first \in EmptyFields(file) /\ \A j \in EmptyFields(file) : first <= j
        BY <3>1, FirstEmptyField DEF first
      <4>2. DOMAIN FieldOrder = 1..5
        BY DEF FieldOrder
      <4>3. first \in 1..5 /\ FieldOrder[first] \in file.empty
        BY <4>1, <4>2 DEF EmptyFields
      <4>4. \A j \in 1..(first - 1) : FieldOrder[j] \notin file.empty
        BY <4>1, <4>2, <4>3 DEF EmptyFields
      <4> QED
        BY <1>1, <4>2, <4>3, <4>4
    <3>6. FirstFaultReported'
      <4> HIDE DEF first
      <4>1. error'.kind = "EmptyField" /\ error'.about = FieldOrder[first]
        BY <3>2 DEF Err
      <4> QED
        BY <1>4, <3>4, <3>5, <4>1 DEF FirstFaultReported
    <3> QED
      BY <1>3, <2>1, <3>6 DEF Inv, Progress, Started, Served, LoadedIsSound
  <2> QED
    BY <2>2, <2>3
<1> QED
  BY <1>5, <1>6

\* upsert_view builds the mounts.
LEMMA MountsStep == Inv /\ BuildMounts => Inv'
<1> SUFFICES ASSUME Inv, BuildMounts
             PROVE  Inv'
  OBVIOUS
<1> DEFINE mounts == project.systems
<1>1. /\ stage = "mounts" /\ AtMounts /\ built = <<>>
      /\ UNCHANGED <<environment, userPath, project, user, destinations>>
  BY DEF BuildMounts, Inv, Progress, read
<1>2. SoundProject' /\ SoundUser' /\ SoundDestination'
  BY <1>1 DEF AtMounts, SoundProject, SoundUser, SoundUserFile, SoundDestination,
              HasDestination, Readable
<1>3. mounts \in Seq({mounts[i] : i \in DOMAIN mounts})
  <2>1. mounts \in MountConfigs
    BY <1>1 DEF AtMounts, SoundProject, ProjectFile
  <2> QED
    BY <2>1, ConfigurationAssumption
<1>4. CASE /\ \A i \in DOMAIN mounts : MountFault(mounts[i]) = Ok
           /\ Proceed(Ok, "loaded")
           /\ built' = IF mounts = <<>> THEN <<SystemLibrary>>
                       ELSE [i \in DOMAIN mounts |-> MountLabel(mounts[i])]
  <2>1. stage' = "loaded"
    BY <1>4 DEF Proceed
  <2>2. \A i \in DOMAIN mounts : FiltersFilled(mounts[i]) /\ MountLabel(mounts[i]) # Unnamed
    BY <1>4, MountFaultMeans
  <2>3. built' # <<>> /\ \A i \in DOMAIN built' : built'[i] # Unnamed
    <3>1. CASE mounts = <<>>
      <4>1. built' = <<SystemLibrary>>
        BY <1>4, <3>1
      <4>2. built' # <<>> /\ \A i \in DOMAIN built' : built'[i] = SystemLibrary
        BY <4>1
      <4> QED
        BY <4>2 DEF SystemLibrary, Unnamed
    <3>2. CASE mounts # <<>>
      <4>1. built' = [i \in DOMAIN mounts |-> MountLabel(mounts[i])]
        BY <1>4, <3>2
      <4>2. DOMAIN built' = DOMAIN mounts /\ DOMAIN mounts # {}
        BY <1>3, <3>2, <4>1
      <4>3. \A i \in DOMAIN mounts : built'[i] = MountLabel(mounts[i])
        BY <4>1
      <4> HIDE DEF mounts
      <4> QED
        BY <2>2, <4>2, <4>3
    <3> QED
      BY <3>1, <3>2
  <2>4. \A i \in DOMAIN mounts : built'[i] = MountLabel(mounts[i])
    BY <1>4
  <2>5. LoadedIsSound'
    BY <1>1, <1>2, <2>2, <2>3, <2>4 DEF LoadedIsSound, FiltersFilled, MountLabel
  <2> QED
    BY <1>1, <2>1, <2>5 DEF Inv, Progress, Started, Served, FirstFaultReported
<1>5. CASE \E i \in DOMAIN mounts :
              /\ \A j \in 1..(i - 1) : MountFault(mounts[j]) = Ok
              /\ MountFault(mounts[i]) # Ok
              /\ Proceed(MountFault(mounts[i]), "loaded")
              /\ UNCHANGED built
  <2>1. PICK i \in DOMAIN mounts :
              /\ \A j \in 1..(i - 1) : MountFault(mounts[j]) = Ok
              /\ MountFault(mounts[i]) # Ok
              /\ Proceed(MountFault(mounts[i]), "loaded")
    BY <1>5
  <2>2. stage' = "failed" /\ error' = MountFault(mounts[i])
    BY <2>1 DEF Proceed
  <2>3. FirstFaulty(i)'
    BY <1>1, <2>1, MountFaultMeans DEF FirstFaulty, FiltersFilled, MountLabel
  <2>4. \/ /\ error'.kind = "EmptyFilter" /\ error'.about = mounts[i].label
           /\ ~FiltersFilled(mounts[i])
        \/ /\ error'.kind = "EmptyMountLabel"
           /\ FiltersFilled(mounts[i]) /\ MountLabel(mounts[i]) = Unnamed
    <3>1. \/ /\ error' = Err("EmptyFilter", mounts[i].label)
             /\ ~FiltersFilled(mounts[i])
          \/ /\ error' = Err("EmptyMountLabel", None)
             /\ FiltersFilled(mounts[i]) /\ MountLabel(mounts[i]) = Unnamed
      BY <2>1, <2>2, MountFaultMeans
    <3> QED
      BY <3>1 DEF Err
  <2>5. FirstFaultReported'
    BY <1>1, <1>2, <2>3, <2>4 DEF FirstFaultReported, FiltersFilled, MountLabel
  <2> QED
    BY <1>1, <2>2, <2>5 DEF Inv, Progress, Started, Served, LoadedIsSound
<1> QED
  BY <1>4, <1>5 DEF BuildMounts

\* The next request reads the files anew.
LEMMA AgainStep == Inv /\ LoadAgain => Inv'
  BY DEF Inv, Progress, LoadAgain, Started, Served, AtProject, LoadedIsSound,
         FirstFaultReported

LEMMA StutterStep == Inv /\ UNCHANGED vars => Inv'
<1> SUFFICES ASSUME Inv, UNCHANGED vars
             PROVE  Inv'
  OBVIOUS
<1>1. UNCHANGED <<environment, userPath, stage, project, user, destinations, built, error>>
  BY DEF vars, read
<1>2. /\ SoundProject' = SoundProject /\ SoundUser' = SoundUser
      /\ SoundDestination' = SoundDestination /\ HasDestination' = HasDestination
  BY <1>1 DEF SoundProject, SoundUser, SoundUserFile, SoundDestination, HasDestination,
              Readable
<1>3. Progress'
  BY <1>1, <1>2 DEF Inv, Progress, Started, Served, AtProject, AtUser, AtDestinations, AtMounts
<1>4. LoadedIsSound'
  BY <1>1, <1>2 DEF Inv, LoadedIsSound
<1>5. FirstFaultReported'
  <2>1. \A kind \in Kinds :
           PathOf(kind)' = PathOf(kind) /\ FirstFaultIn(kind)' = FirstFaultIn(kind)
    BY <1>1, <1>2 DEF PathOf, FirstFaultIn
  <2>2. \A i : FirstFaulty(i)' = FirstFaulty(i)
    BY <1>1 DEF FirstFaulty, FiltersFilled, MountLabel
  <2>3. FirstFaultIn(error.about)' = FirstFaultIn(error.about)
    BY <1>1, <1>2 DEF FirstFaultIn
  <2> QED
    BY <1>1, <1>2, <2>1, <2>2, <2>3 DEF Inv, FirstFaultReported, FiltersFilled, MountLabel
<1> QED
  BY <1>3, <1>4, <1>5 DEF Inv

LEMMA InvHolds == Spec => []Inv
<1>1. Init => Inv
  BY DEF Init, Inv, Progress, Started, Served, AtProject, LoadedIsSound, FirstFaultReported
<1>2. Inv /\ [Next]_vars => Inv'
  BY StartStep, ProjectStep, UserStep, DestinationStep, MountsStep, AgainStep, StutterStep
     DEF Next, Rest
<1> QED
  BY <1>1, <1>2, PTL DEF Spec
------------------------------------------------------------------------------
(* The theorems *)

\* A view is only built from three sound files and with every mount that is listed,
\* under a name and with a value for each of its filters: for every list of mounts a
\* project can have, whatever the user writes between the reads.
THEOREM LoadsAreSound == Spec => []LoadedIsSound
  BY InvHolds, PTL DEF Inv

\* A load that fails does so for the first fault there is in the order of the reads,
\* of the fields and of the mounts, and says what kind of fault that is.
THEOREM FirstFaultComesFirst == Spec => []FirstFaultReported
  BY InvHolds, PTL DEF Inv

\* resolve_user_config_path takes the first place that can be used.
LEMMA ResolveTakesFirst ==
    ASSUME environment \in Environments, ResolveUserConfigPath(environment) # None
    PROVE  \E i \in DOMAIN Precedence :
              /\ Usable(Precedence[i])
              /\ \A j \in 1..(i - 1) : ~Usable(Precedence[j])
              /\ ResolveUserConfigPath(environment) =
                    environment[Precedence[i]] \o Beneath[Precedence[i]]
<1> DEFINE path == ResolveUserConfigPath(environment)
           Place(variable) == environment[variable] \o Beneath[variable]
<1> SUFFICES \E i \in DOMAIN Precedence :
               /\ Usable(Precedence[i])
               /\ \A j \in 1..(i - 1) : ~Usable(Precedence[j])
               /\ path = Place(Precedence[i])
  OBVIOUS
<1>1. /\ DOMAIN Precedence = 1..3
      /\ Precedence[1] = "ZIEGE_CONFIG" /\ Precedence[2] = "XDG_CONFIG_HOME"
      /\ Precedence[3] = "HOME"
  BY DEF Precedence
<1>2. /\ Beneath["ZIEGE_CONFIG"] = <<>>
      /\ Beneath["XDG_CONFIG_HOME"] = <<"ziege", "config.toml">>
      /\ Beneath["HOME"] = <<".config", "ziege", "config.toml">>
  BY DEF Beneath
<1>3. CASE Usable("ZIEGE_CONFIG")
  <2>1. path = environment["ZIEGE_CONFIG"] /\ environment["ZIEGE_CONFIG"] # None
    BY <1>3 DEF Usable, ResolveUserConfigPath
  <2>2. environment["ZIEGE_CONFIG"] \in
           Seq({environment["ZIEGE_CONFIG"][i] : i \in DOMAIN environment["ZIEGE_CONFIG"]})
    BY <2>1, ConfigurationAssumption
  <2>3. environment["ZIEGE_CONFIG"] \o <<>> = environment["ZIEGE_CONFIG"]
    BY <2>2
  <2>4. path = Place("ZIEGE_CONFIG")
    BY <1>2, <2>1, <2>3
  <2> HIDE DEF path, Place
  <2> QED
    BY <1>1, <1>3, <2>4
<1>4. CASE ~Usable("ZIEGE_CONFIG") /\ Usable("XDG_CONFIG_HOME")
  <2>1. path = environment["XDG_CONFIG_HOME"] \o <<"ziege", "config.toml">>
    BY <1>4 DEF Usable, ResolveUserConfigPath
  <2>2. path = Place("XDG_CONFIG_HOME")
    BY <1>2, <2>1
  <2> HIDE DEF path, Place
  <2> QED
    BY <1>1, <1>4, <2>2
<1>5. CASE ~Usable("ZIEGE_CONFIG") /\ ~Usable("XDG_CONFIG_HOME")
  <2>1. /\ path = environment["HOME"] \o <<".config", "ziege", "config.toml">>
        /\ environment["HOME"] # None
    BY <1>5 DEF Usable, ResolveUserConfigPath
  <2>2. Usable("HOME")
    BY <2>1 DEF Usable
  <2>3. path = Place("HOME")
    BY <1>2, <2>1
  <2> HIDE DEF path, Place
  <2> QED
    BY <1>1, <1>5, <2>2, <2>3
<1> QED
  BY <1>3, <1>4, <1>5

\* A request is only served with the user's file of the documented place, whatever
\* the variables hold; and never without one.
THEOREM PlaceIsDocumented == Spec => []ReadsDocumentedPlace
<1>1. Inv => ReadsDocumentedPlace
  <2> SUFFICES ASSUME Inv, stage \notin {"start", "exited"}
               PROVE  ReadsDocumentedPlace
    BY DEF ReadsDocumentedPlace
  <2>1. /\ environment \in Environments
        /\ userPath = ResolveUserConfigPath(environment) /\ userPath # None
    BY DEF Inv, Progress, Started, Served
  <2>2. PathOf("user") = ResolveUserConfigPath(environment)
    BY <2>1 DEF PathOf
  <2> QED
    BY <2>1, <2>2, ResolveTakesFirst DEF ReadsDocumentedPlace
<1> QED
  BY <1>1, InvHolds, PTL
==============================================================================
