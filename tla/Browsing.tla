------------------------------- MODULE Browsing -------------------------------
(***************************************************************************)
(* A client browsing by the URIs it is given: project_systems hands out a  *)
(* portal for each system of ziege.toml, and read_directory parses the URI *)
(* it is sent and hands out one per entry, its own path with the entry's   *)
(* label appended (src/src/handlers/navigation.rs).                        *)
(***************************************************************************)
EXTENDS ResourceUri

CONSTANTS System,  \* the keys of the systems table
          Label,   \* the labels of repository nodes
          Name,    \* the names of projected documents
          Depth    \* how deep the client browses

VARIABLES uri,     \* the text the server handed out last
          named,   \* history: the resource it handed it out for
          reply    \* what the server made of the URI the client sent last

vars == <<uri, named, reply>>

HandOut(resource) == named' = resource /\ uri' = Display(resource)

Init ==
    /\ \E system \in System :
          named = Vfs(system, <<>>) /\ uri = Display(Vfs(system, <<>>))
    /\ reply = "entries"

\* project_systems
ListPortals ==
    /\ \E system \in System : HandOut(Vfs(system, <<>>))
    /\ reply' = "entries"

\* DirectoryEntry::assemble
Assemble(parent, label) == Vfs(parent.system, Append(parent.path, label))

\* read_directory on the last URI.
OpenDirectory ==
    LET parsed == Parse(uri) IN
    \/ /\ parsed.kind = "Vfs"
       /\ Len(parsed.path) < Depth
       /\ \E label \in Label : HandOut(Assemble(parsed, label))
       /\ reply' = "entries"
    \/ /\ parsed.kind # "Vfs"
       /\ reply' = "error"
       /\ UNCHANGED <<uri, named>>

\* A document under its own address.  No handler hands one out yet: it is the
\* address Display writes and from_str reads for an open object.
NameDocument ==
    /\ \E system \in System, name \in Name : HandOut(Document(system, name))
    /\ reply' = "entries"

Next == ListPortals \/ OpenDirectory \/ NameDocument

Spec == Init /\ [][Next]_vars
------------------------------------------------------------------------------
(* Properties *)

\* What the server hands out it takes back: the URI of any node, at any depth, is
\* read as exactly that node, if its labels are not empty and hold no control
\* character; with slashes, percent signs and dots, or called vfs.
UriNamesResource == Parse(uri) = named

\* No segment of a directory's URI reads "." or "..": general URL parsers, which
\* remove dot segments, leave it alone.  The dots of a document are never encoded.
NoDotSegments ==
    \A i \in DOMAIN Segments(uri) :
       i > 1 /\ named.kind = "Vfs" => Segments(uri)[i] \notin
          {Encode(segment, {}) : segment \in DotSegments}

\* README.md: "Open the returned `uri` when entering a directory."
ReturnedUriOpens == [][named.kind = "Vfs" => reply' # "error"]_vars
==============================================================================
