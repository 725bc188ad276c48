----------------------------- MODULE MCSettings -----------------------------
(* Settings with texts of up to three characters in which quotes, escapes,   *)
(* commas and comment signs stand where they must not be taken for syntax.   *)
EXTENDS Settings

Characters == {"x", "quote", "backslash", "hash", "comma"}

MCStrings == {<<>>, <<"1", "x", "1">>, <<"x", "comma", "x">>, <<"x", "quote", "hash">>, <<"1", "x", "0">>,
              <<"x", "backslash">>}

\* No flag, any one, or two that may contradict each other.
MCFlagSets ==
    {{}} \cup {{key} : key \in {"viewport", "attach", "profile", "allow_hosts", "headless"}}
         \cup {{"attach", "profile"}, {"profile", "user_data_dir"}}

\* One text of up to two characters, or two texts of up to one.
MCLists ==
    {<<>>} \cup {<<text>> : text \in SeqOf(Characters, 2)}
           \cup {<<left, right>> : left, right \in SeqOf(Characters, 1)}
=============================================================================
