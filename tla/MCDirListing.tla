---------------------------- MODULE MCDirListing ----------------------------
(* An instance of DirListing for TLC. *)
EXTENDS DirListing

EplfSymbols == {"LF", "CR", "TAB", "+", ",", "/", "s5"}
FactSymbols == {"LF", ";", "=", " ", "x"}

\* Lines of up to three facts, with keys that come twice and the key "path", and bodies of two.
SomeFacts == {<<"x", "=", "x", ";">>, <<"x", "=", "y", ";">>, <<"path", "=", "y", ";">>,
              <<"y", "=", ";">>, <<"x", ";">>}
SomePaths == {<<>>, <<"x">>, <<SP, "x">>, <<SP, "x", SP, "y">>}
MlsdLines(n) == {FlattenSeq(facts) \o path : facts \in BoundedSeq(SomeFacts, n), path \in SomePaths}
SomeMlsdBodies ==
    BoundedSeq(FactSymbols, 5) \cup MlsdLines(3)
    \cup {l \o <<CR, LF>> \o m : l \in MlsdLines(1), m \in MlsdLines(1)}

\* Names and groups that look like other words of a line.
SomeUnixNames ==
    {<<"x">>, <<"x", SP, "y">>, <<SP, "x">>, <<"x", SP, "->", SP, "y">>, <<"Jan", SP, "8", SP, "1994", SP, "x">>}
SomeVmsNames == {<<"x">>, <<"00readme", ".txt">>, <<".DIR">>, <<"x", ".DIR">>, <<"x", ".DIR", ".txt">>}
SomeMsDosNames == {<<"x">>, <<"x", SP, "y">>, <<"12">>, <<"A", "-", "P">>}
SomeTargets == {<<"y">>, <<"y", SP, "->", SP, "z">>}
SomeGroups == {<<>>, <<"g">>, <<"8">>, <<"g", "h">>, <<"Jan">>}
=============================================================================
