------------------------------ MODULE ResourceUri ------------------------------
(***************************************************************************)
(* The addresses of src/src/uri.rs: Display writes a ResourceUri, from_str *)
(* reads one.  A label is a sequence of characters, of which only the      *)
(* class matters; a URI is the sequence of its tokens after "abap://", a   *)
(* token being a character written as it is or percent-encoded (enc).      *)
(***************************************************************************)
EXTENDS Integers, Sequences, SequencesExt

\* a    stands for what is never encoded: letters, digits, - _ ~
\* vfs  the three letters in a row
\* /  % stand for the characters a component must encode to keep
\* ctl  a control character
Char == {"a", "vfs", ".", "/", "%", "ctl"}

CHARSET == {"/", "%", "ctl"}
DOT_CHARSET == CHARSET \cup {"."}
Unreserved == {"a", "vfs", "."}

Vfs(system, path) == [system |-> system, kind |-> "Vfs", path |-> path]
Document(system, name) == [system |-> system, kind |-> "Document", path |-> <<name>>]

Separator == [ch |-> "/", enc |-> FALSE]
VfsToken == [ch |-> "vfs", enc |-> FALSE]
DotSegments == {<<".">>, <<".", ".">>}
------------------------------------------------------------------------------
(* impl Display for ResourceUri *)

Encode(label, set) == [i \in DOMAIN label |-> [ch |-> label[i], enc |-> label[i] \in set]]

\* Mutant: dots are never encoded.
EncodeSegmentPlainly(segment) == Encode(segment, CHARSET)

\* Mutant: a slash in a label is written as it is.
EncodeSegmentWithSlash(segment) == Encode(segment, CHARSET \ {"/"})

EncodeSegment(segment) ==
    Encode(segment, IF segment \in DotSegments THEN DOT_CHARSET ELSE CHARSET)

\* What is written after the first n segments of the path.
Written(uri) ==
    LET text[n \in 0..Len(uri.path)] ==
            IF n = 0
            THEN Encode(uri.system, CHARSET) \o <<Separator, VfsToken, Separator>>
            ELSE Append(text[n - 1] \o EncodeSegment(uri.path[n]), Separator)
    IN  text

Display(uri) ==
    IF uri.kind = "Vfs" THEN Written(uri)[Len(uri.path)]
    ELSE Encode(uri.system, CHARSET) \o <<Separator>> \o Encode(uri.path[1], CHARSET)
------------------------------------------------------------------------------
(* impl FromStr for ResourceUri *)

\* split('/') after the first n tokens: the segments that are over, and the last.
Split(text) ==
    LET cut[n \in 0..Len(text)] ==
            IF n = 0 THEN [over |-> <<>>, last |-> <<>>]
            ELSE IF text[n] = Separator
            THEN [over |-> Append(cut[n - 1].over, cut[n - 1].last), last |-> <<>>]
            ELSE [over |-> cut[n - 1].over, last |-> Append(cut[n - 1].last, text[n])]
    IN  cut

Segments(text) ==
    LET cut == Split(text)[Len(text)] IN Append(cut.over, cut.last)

Decodable(component) ==
    /\ component # <<>>
    /\ \A i \in DOMAIN component :
          /\ component[i].enc \/ component[i].ch \in Unreserved
          /\ component[i].ch # "ctl"

Decode(component) == [i \in DOMAIN component |-> component[i].ch]

Invalid == [kind |-> "Invalid"]

\* Split before decoding; one trailing slash belongs to no segment.
Parse(text) ==
    LET all == Segments(text)
        rest == Tail(all)
        directory == text # <<>> /\ Last(text) = Separator
        parts == IF directory /\ Len(rest) > 1 THEN Front(rest) ELSE rest
        labels == [i \in DOMAIN parts |-> Decode(parts[i])]
    IN  IF Len(all) < 2 \/ ~Decodable(all[1]) THEN Invalid
        ELSE IF \E i \in DOMAIN parts : ~Decodable(parts[i]) THEN Invalid
        ELSE IF labels[1] = <<"vfs">> THEN Vfs(Decode(all[1]), Tail(labels))
        ELSE IF Len(labels) = 1 /\ ~directory THEN Document(Decode(all[1]), labels[1])
        ELSE Invalid
==============================================================================
