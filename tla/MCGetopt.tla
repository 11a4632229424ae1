------------------------------ MODULE MCGetopt ------------------------------
(* An instance of Getopt for TLC. *)
EXTENDS Getopt

Option(name, has_arg, flag, short_name) ==
  [name |-> name, has_arg |-> has_arg, flag |-> flag, short_name |-> short_name]

\* The name of the first is the start of the name of the second.
ThreeOptions ==
  <<Option(<<"x">>, "no", TRUE, "a"), Option(<<"x", "y">>, "required", FALSE, "b"),
    Option(<<"z">>, "optional", TRUE, "c")>>

Of(kind, text, eq) == [kind |-> kind, text |-> text, eq |-> eq]

SomeLetters == {"a", "b", "c", "u", "x", "y", "z"}

\* u is no option.
Short == {"a", "b", "c", "u"}

Groups == {<<c>> : c \in Short} \cup (Short \X Short) \cup {<<"a", "u", "b">>}

SomeWords ==
  {Of("operand", <<>>, FALSE), Of("end", <<>>, FALSE), Of("long", <<>>, TRUE)}
    \cup {Of("group", g, FALSE) : g \in Groups}
    \cup {Of("long", n, eq) : n \in {<<"x">>, <<"x", "y">>, <<"z">>, <<"u">>}, eq \in BOOLEAN}
=============================================================================
