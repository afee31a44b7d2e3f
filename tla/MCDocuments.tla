------------------------------ MODULE MCDocuments ------------------------------
(* An instance of Documents for TLC.                                       *)
EXTENDS Documents

Symmetric == Permutations(Processes)

PAndQ == {<<"p">>, <<"q">>}

Says(name, v) == [name |-> name, value |-> v, live |-> TRUE]
Remark(name, v) == [name |-> name, value |-> v, live |-> FALSE]

Enabled == <<Says("enabled", Bool(TRUE))>>
Host == <<Says("host", Text(<<"a", "/", "/", "\"">>))>>
ListOfP == <<Says("providers", Array(<<Text(<<"p">>), Number(-3), Text(<<>>)>>))>>

\* Ways to enable the relay or not to.
Switches ==
    {<<>>, Enabled, <<Says("enabled", Text(<<"true">>))>>,
     <<Remark("enabled", Bool(TRUE))>>,
     <<Says("enabled", Bool(TRUE)), Says("enabled", Bool(FALSE))>>,
     <<Says("enabled", Bool(FALSE)), Remark("x", Null), Says("enabled", Bool(TRUE))>>}

\* A host with slashes in it is not a comment.
Hosts == {<<>>, <<Says("host", Text(<<>>))>>, Host,
          <<Says("host", Number(1)), Says("port", Number(65536))>>}

Lists ==
    {<<>>, <<Says("providers", Array(<<>>))>>, <<Says("providers", Text(<<"p">>))>>,
     ListOfP,
     <<Remark("providers", Array(<<Text(<<"q">>)>>)),
       Says("providers", Array(<<Text(<<"p">>), Object(<<>>), Text(<<"q">>)>>)),
       Says("max_keys_per_provider", Number(1073741824))>>}

Sheet(under, comma, members) == [under |-> under, comma |-> comma, members |-> members]

\* One thing at a time is typed in another way.
TypedSheets ==
    {Sheet("relay", FALSE, e \o Host \o ListOfP) : e \in Switches}
    \cup {Sheet("relay", FALSE, Enabled \o h \o ListOfP) : h \in Hosts}
    \cup {Sheet("relay", FALSE, l \o Host \o Enabled) : l \in Lists}
    \cup {Sheet(u, c, Enabled \o Host \o ListOfP) : u \in {"relay", "Relay"}, c \in BOOLEAN}

\* Nothing, and one value of each type, with all that has to be escaped.
SavedValues ==
    {<<>>,
     (<<"p/i">> :> <<"I64", -742>>) @@ (<<"p/f">> :> <<"F64", 0>>)
     @@ (<<"p/b">> :> <<"BOOL", 1>>) @@ (<<"p/o">> :> <<"BLOB", <<0, 31, 255>>>>)
     @@ (<<"q/s">> :> <<"STR", <<"\"", "\\", "/", "\n", "NUL", "US", "{", "C3", "A9">>>>)}
=============================================================================
