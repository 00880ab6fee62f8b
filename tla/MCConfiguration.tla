---------------------------- MODULE MCConfiguration ----------------------------
(* A small instance of Configuration for TLC: up to two mounts of each kind. *)
EXTENDS Configuration

Filters == {<<>>, << <<"v">> >>, << <<>> >>, << <<"v">>, <<>> >>, << <<"v">>, <<"v">> >>}

Mounts ==
    [kind : {"systemLibrary"}, package : {None}, label : {"", "Classes"}, filters : {<<>>}]
    \cup [kind : {"package"}, package : {"", "/DMO/FLIGHT"},
          label : {None, "", "Flight"}, filters : {<<>>}]
    \cup [kind : {"selection"}, package : {None}, label : {"", "Local", "Flight"},
          filters : Filters]

MountLists == {<<>>} \cup {<<m>> : m \in Mounts} \cup {<<m, n>> : m, n \in Mounts}

\* Each variable unset, or a path of each kind the choice tells apart.
StartEnvironments ==
    [ZIEGE_CONFIG : {None, <<>>, <<"/">>, <<"/", "own", "my.toml">>},
     XDG_CONFIG_HOME : {None, <<>>, <<"relative">>, <<"/", "xdg">>},
     HOME : {None, <<"/", "home">>}]
==============================================================================
