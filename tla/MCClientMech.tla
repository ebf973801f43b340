---------------------------- MODULE MCClientMech ----------------------------
(***************************************************************************)
(* Instances of ClientMech: applications with every kind of callback for   *)
(* the name and for the token, and users who answer or leave a field empty.*)
(***************************************************************************)
EXTENDS ClientMech

Says(code, text) == [code |-> code, text |-> text]

Names == {Says("SASL_OK", <<"u">>), Says("SASL_OK", NULL),
          Says("SASL_FAIL", NULL), Says("SASL_INTERACT", NULL),
          Says("SASL_BADPARAM", NULL)}

Tokens == {Says("SASL_OK", <<"t1">>), Says("SASL_OK", <<"t4">>),
           Says("SASL_FAIL", NULL), Says("SASL_INTERACT", NULL),
           Says("SASL_BADPARAM", NULL)}

MCCallbacks == [authname : Names, pass : Tokens]

MCAnswers == [authname : {<<"v">>, NULL},
              pass : {<<"t1">>, <<"t2">>, <<"t3">>, NULL}]

\* A name, no claim, an empty one, and one that is no string.
MCClaims ==
  [t \in {<<"t1">>, <<"t2">>, <<"t3">>, <<"t4">>} |->
     CASE t = <<"t1">> -> [how |-> "found",     text |-> <<"w">>]
       [] t = <<"t2">> -> [how |-> "absent",    text |-> <<>>]
       [] t = <<"t3">> -> [how |-> "found",     text |-> <<>>]
       [] t = <<"t4">> -> [how |-> "no_string", text |-> <<>>]]
=============================================================================
