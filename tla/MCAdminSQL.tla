----------------------------- MODULE MCAdminSQL -----------------------------
EXTENDS AdminSQLProperties

MCTable ==
    <<[user |-> "u1", password |-> "p1"], [user |-> "u2", password |-> "p2"],
      [user |-> "u3", password |-> "p1"]>>

None == [type |-> "none"]

(* The value p2 of the column user is one no row has.                      *)
Compares ==
    [type : {"compare"}, op : {"=", "<>"}, column : Known, value : {"u1", "u2", "p1", "p2"}]

Matches == [type : {"match"}, column : {"user"}, value : {"u1", "u2"}]

Wheres ==
    {None} \cup Compares \cup Matches \cup [type : {"not"}, arg : Compares \cup Matches]
    \cup [type : {"both"}, op : {"and", "or"}, left : Compares \cup Matches, right : Compares \cup Matches]

MCNesting == [e \in Wheres |-> IF e.type \in {"not", "both"} THEN 1 ELSE 0]

MCStatements ==
    [kind : {"select"}, columns : {<<>>, <<"user">>, <<"password", "user">>, <<"user", "other">>},
     values : {<<>>}, where : Wheres]
    \cup [kind : {"delete"}, columns : {<<>>}, values : {<<>>}, where : Wheres]
    \cup [kind : {"update"}, columns : {<<"password">>}, values : {<<"x">>}, where : Wheres]
    \cup [kind : {"update"}, columns : {<<"user", "password">>, <<"password", "user">>, <<"user", "other">>},
          values : {<<"x", "y">>}, where : {None} \cup Compares]
    \cup [kind : {"insert"},
          columns : {<<>>, <<"user">>, <<"user", "password">>, <<"password", "user">>, <<"user", "other">>},
          rows : {<<>>, <<<<"x">>>>, <<<<"x", "y">>>>, <<<<"x">>, <<"y">>>>, <<<<"x", "y", "z">>>>,
                  <<<<"x", "y">>, <<"z", "w">>>>, <<<<"x">>, <<"y", "z", "w">>>>, <<<<"x">>, <<"y", "z">>>>},
          where : {None}]
    \cup [kind : {"other", "broken", "empty"}, columns : {<<>>}, values : {<<>>}, where : {None}]
=============================================================================
