------------------------------ MODULE MCBrowsing ------------------------------
(* Small instances of Browsing for TLC: labels of at most two characters. *)
EXTENDS Browsing

Words(chars) == {<<c>> : c \in chars} \cup {<<c, d>> : c, d \in chars}

Printable == Char \ {"ctl"}
PrintableLabels == Words(Printable)

\* Destination ids are not path segments: a few spellings of them suffice.
Systems == {<<"a">>, <<".">>, <<".", ".">>, <<"/">>, <<"vfs">>}

\* TOML strings may hold control characters; "\t" in a mount label, say.
LabelsFromToml == Words({"a", "ctl"})

\* A document is called after its object and type, never "vfs".
DocumentNames == Words(Printable) \ {<<"vfs">>}
==============================================================================
