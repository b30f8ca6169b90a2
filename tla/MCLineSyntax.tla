----------------------------- MODULE MCLineSyntax -----------------------------
(* A small instance of LineSyntax for TLC: names of up to five characters, *)
(* and options of one or two atoms, an atom being a character outside      *)
(* quotes or a quoted string of up to two pieces.  A quoted string is what *)
(* sshd takes for one: a quote is hidden by the backslash before it, and   *)
(* the string ends at the first that is not.  The options are built from   *)
(* their parts, so where they end is known without parsing them.           *)
EXTENDS LineSyntax

MCNames == UNION {[1..n -> {"plain", "upper", "space", "colon"}] : n \in 0..5}

Pieces == {<<"plain">>, <<"space">>, <<"key">>, <<"hash">>, <<"backslash">>,
           <<"backslash", "quote">>}
Bodies ==
  {body \in {<<>>} \union Pieces \union {a \o b : a, b \in Pieces} :
     body # <<>> => body[Len(body)] # "backslash"}
Atoms == {<<"plain">>, <<"colon">>}
           \union {<<"quote">> \o body \o <<"quote">> : body \in Bodies}

FewOptions ==
  {<<>>, <<"hash">>, <<"hash", "space">>, <<"plain", "space", "space">>} \union
  {<<"plain", "quote">> \o body \o <<"quote", "space">> :
     body \in Bodies \intersect
       (Pieces \union {<<"backslash">> \o piece : piece \in Pieces})}
ManyOptions ==
  {atom \o <<"space">> : atom \in Atoms} \union
  {a \o b \o <<"space">> : a, b \in Atoms}

MCEnrollments ==
  [name : MCNames, options : FewOptions] \union
  [name : {<<"plain", "space", "upper">>}, options : ManyOptions]
MCOthers ==
  [comment : {<<>>, <<"plain">>, <<"plain", "space", "marker", "plain">>,
              <<"quote", "space", "space", "key">>},
   options : FewOptions \union ManyOptions]
MCKeyless == {<<"plain">>, <<"hash", "plain">>, <<"quote", "plain", "colon", "quote">>}
=============================================================================
