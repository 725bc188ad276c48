---------------------------- MODULE MCLocalFiles ----------------------------
(* LocalFiles without lists, and with every kind of list.                   *)
EXTENDS LocalFiles

MCHost == [apex |-> <<"example", "com">>, www |-> <<"www", "example", "com">>]

MCFilters ==
    {[allow |-> {}, block |-> {}, blockLocal |-> FALSE],
     [allow |-> {<<"*">>}, block |-> {<<"*", "example", "com">>}, blockLocal |-> TRUE]}

MCInside == [dir |-> {"a", "key"}]
=============================================================================
