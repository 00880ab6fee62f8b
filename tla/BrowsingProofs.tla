---------------------------- MODULE BrowsingProofs ----------------------------
(***************************************************************************)
(* A client that browses by the URIs it is given is always understood, at  *)
(* any depth, as long as no system or label is empty or holds a control    *)
(* character, which decode_component refuses.                              *)
(***************************************************************************)
EXTENDS Browsing, ResourceUriProofs

\* The systems, labels and names that decode_component accepts.  No document is
\* called "vfs", as documents are called after their object and its type.
Spellable ==
    /\ System \subseteq Component
    /\ Label \subseteq Component
    /\ Name \subseteq Component \ {<<"vfs">>}

Resources ==
    {Vfs(system, path) : system \in System, path \in Seq(Label)}
    \cup {Document(system, name) : system \in System, name \in Name}

\* The URI handed out last is the one of the resource it was handed out for.
Inv == named \in Resources /\ uri = Display(named)

\* Whatever has a URI is read back from it.
LEMMA ResourcesRoundTrip ==
    ASSUME Spellable, NEW resource \in Resources
    PROVE  Parse(Display(resource)) = resource
<1>1. CASE resource \in {Vfs(system, path) : system \in System, path \in Seq(Label)}
  <2>1. PICK system \in System, path \in Seq(Label) : resource = Vfs(system, path)
    BY <1>1
  <2>2. system \in Component /\ path \in Seq(Component)
    BY DEF Spellable
  <2> QED
    BY <2>1, <2>2, DirectoryRoundTrip
<1>2. CASE resource \in {Document(system, name) : system \in System, name \in Name}
  <2>1. PICK system \in System, name \in Name : resource = Document(system, name)
    BY <1>2
  <2>2. system \in Component /\ name \in Component \ {<<"vfs">>}
    BY DEF Spellable
  <2> QED
    BY <2>1, <2>2, DocumentRoundTrip
<1> QED
  BY <1>1, <1>2 DEF Resources

LEMMA DirectoriesAreResources ==
    ASSUME NEW system \in System, NEW path \in Seq(Label)
    PROVE  Vfs(system, path) \in Resources
  BY DEF Resources

LEMMA DocumentsAreResources ==
    ASSUME NEW system \in System, NEW name \in Name
    PROVE  Document(system, name) \in Resources
  BY DEF Resources

\* A directory among the resources has a path of labels.
LEMMA DirectoryMeans ==
    ASSUME NEW resource \in Resources, resource.kind = "Vfs"
    PROVE  \E system \in System, path \in Seq(Label) : resource = Vfs(system, path)
<1>1. \A system \in System, name \in Name : Document(system, name).kind = "Document"
  BY DEF Document
<1> QED
  BY <1>1 DEF Resources

LEMMA InvHolds ==
    ASSUME Spellable
    PROVE  Spec => []Inv
<1>1. Init => Inv
  <2> SUFFICES ASSUME Init
               PROVE  Inv
    OBVIOUS
  <2>1. PICK system \in System : named = Vfs(system, <<>>) /\ uri = Display(Vfs(system, <<>>))
    BY DEF Init
  <2>2. <<>> \in Seq(Label)
    OBVIOUS
  <2> QED
    BY <2>1, <2>2, DirectoriesAreResources DEF Inv
<1>2. Inv /\ [Next]_vars => Inv'
  <2> SUFFICES ASSUME Inv, [Next]_vars
               PROVE  Inv'
    OBVIOUS
  <2>1. CASE ListPortals
    <3>1. PICK system \in System : HandOut(Vfs(system, <<>>))
      BY <2>1 DEF ListPortals
    <3>2. <<>> \in Seq(Label)
      OBVIOUS
    <3> QED
      BY <3>1, <3>2, DirectoriesAreResources DEF Inv, HandOut
  <2>2. CASE OpenDirectory
    <3>1. Parse(uri) = named /\ named \in Resources
      BY ResourcesRoundTrip DEF Inv
    <3>2. CASE /\ Parse(uri).kind = "Vfs"
               /\ \E label \in Label : HandOut(Assemble(Parse(uri), label))
      <4>1. PICK system \in System, path \in Seq(Label) : named = Vfs(system, path)
        BY <3>1, <3>2, DirectoryMeans
      <4>2. PICK label \in Label : HandOut(Assemble(named, label))
        BY <3>1, <3>2
      <4>3. Assemble(named, label) = Vfs(system, Append(path, label))
        BY <4>1 DEF Assemble, Vfs
      <4>4. Append(path, label) \in Seq(Label)
        OBVIOUS
      <4> QED
        BY <4>2, <4>3, <4>4, DirectoriesAreResources DEF Inv, HandOut
    <3>3. CASE UNCHANGED <<uri, named>>
      BY <3>3 DEF Inv
    <3> QED
      BY <2>2, <3>2, <3>3 DEF OpenDirectory
  <2>3. CASE NameDocument
    <3>1. PICK system \in System, name \in Name : HandOut(Document(system, name))
      BY <2>3 DEF NameDocument
    <3> QED
      BY <3>1, DocumentsAreResources DEF Inv, HandOut
  <2>4. CASE UNCHANGED vars
    BY <2>4 DEF Inv, vars
  <2> QED
    BY <2>1, <2>2, <2>3, <2>4 DEF Next
<1> QED
  BY <1>1, <1>2, PTL DEF Spec

\* What the server hands out it takes back, at every depth, for every label that
\* decode_component accepts.
THEOREM UrisNameTheirResources ==
    ASSUME Spellable
    PROVE  Spec => []UriNamesResource
<1>1. Inv => UriNamesResource
  BY ResourcesRoundTrip DEF Inv, UriNamesResource
<1> QED
  BY <1>1, InvHolds, PTL

\* No URI of a directory has a segment that URL parsers remove.
THEOREM DirectoriesHaveNoDots ==
    ASSUME Spellable
    PROVE  Spec => []NoDotSegments
<1>1. Inv => NoDotSegments
  <2> SUFFICES ASSUME Inv, NEW i \in DOMAIN Segments(uri), i > 1, named.kind = "Vfs",
                      NEW dots \in DotSegments
               PROVE  Segments(uri)[i] # Encode(dots, {})
    BY DEF NoDotSegments
  <2>1. PICK system \in System, path \in Seq(Label) : named = Vfs(system, path)
    BY DirectoryMeans DEF Inv
  <2>2. system \in Component /\ path \in Seq(Component)
    BY DEF Spellable
  <2> DEFINE n == Len(path)
             o == Over(system, path, n)
  <2>3. Segments(uri) = Append(o, <<>>) /\ n \in Nat
    BY <2>1, <2>2, DirectorySegments DEF Inv
  <2>4. /\ DOMAIN o = 1..(n + 2) /\ o = [j \in 1..(n + 2) |-> o[j]] /\ o[2] = <<VfsToken>>
        /\ \A j \in 3..(n + 2) : o[j] = EncodeSegment(path[j - 2])
    BY <2>3 DEF Over
  <2> HIDE DEF o
  <2>5. o \in Seq({o[j] : j \in 1..(n + 2)}) /\ Len(o) = n + 2
    BY <2>3, <2>4
  <2>6. /\ DOMAIN Segments(uri) = 1..(n + 3) /\ Segments(uri)[n + 3] = <<>>
        /\ \A j \in 1..(n + 2) : Segments(uri)[j] = o[j]
    BY <2>3, <2>5
  <2>7. 1 \in DOMAIN Encode(dots, {}) /\ Encode(dots, {})[1].ch = "."
    BY DEF DotSegments, Encode
  <2>8. CASE i = 2
    <3>1. i \in 1..(n + 2)
      BY <2>8
    <3>2. Segments(uri)[i] = o[i]
      BY <2>6, <3>1
    <3>3. Segments(uri)[i] = <<VfsToken>>
      BY <2>4, <2>8, <3>2
    <3>4. <<VfsToken>>[1].ch = "vfs"
      BY DEF VfsToken
    <3> QED
      BY <2>7, <3>3, <3>4
  <2>9. CASE i \in 3..(n + 2)
    <3>1. i \in 1..(n + 2) /\ i - 2 \in 1..n
      BY <2>9
    <3>2. Segments(uri)[i] = o[i]
      BY <2>6, <3>1
    <3>3. Segments(uri)[i] = EncodeSegment(path[i - 2])
      BY <2>4, <2>9, <3>2
    <3>4. path[i - 2] \in Component
      BY <2>2, <3>1
    <3> QED
      BY <3>3, <3>4, NoDotsWritten
  <2>10. CASE i = n + 3
    BY <2>6, <2>7, <2>10
  <2> QED
    BY <2>3, <2>6, <2>8, <2>9, <2>10
<1> QED
  BY <1>1, InvHolds, PTL

\* README.md's promise that a returned URI can be opened holds where systems and
\* labels are not empty and hold no control character.  The code accepts both
\* from a ziege.toml, and either breaks it.
THEOREM ReturnedUrisOpen ==
    ASSUME Spellable
    PROVE  Spec => ReturnedUriOpens
<1>1. Inv /\ [Next]_vars => [named.kind = "Vfs" => reply' # "error"]_vars
  <2> SUFFICES ASSUME Inv, Next, named.kind = "Vfs"
               PROVE  reply' # "error"
    OBVIOUS
  <2>1. Parse(uri) = named
    BY ResourcesRoundTrip DEF Inv
  <2> QED
    BY <2>1 DEF Next, ListPortals, OpenDirectory, NameDocument
<1> QED
  BY <1>1, InvHolds, PTL DEF Spec, ReturnedUriOpens
==============================================================================
