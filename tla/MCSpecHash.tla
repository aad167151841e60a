----------------------------- MODULE MCSpecHash -----------------------------
(* Small instances of SpecHash for TLC. *)
EXTENDS SpecHash

X == <<"X">>
Y == <<"Y">>
MCAlphabet == <<",", "1", "2", "=", "X", "Y", "a", "b", "c", "on", "s">>
MCComponents == << <<"a">>, <<"b">> >>
MCArchitectures == {<<"a">>, <<"b">>}
MCNamespace == <<"c">>

MCBase ==
    [source |-> <<"a">>, namespace |-> <<>>, architecture |-> <<>>,
     key |-> <<>>, confirm |-> TRUE, adopt |-> FALSE, skipSignature |-> FALSE,
     plainHTTP |-> FALSE, insecureTLS |-> FALSE, retries |-> None,
     timeout |-> None, components |-> <<>>,
     variables |-> X :> <<"1">> @@ Y :> <<"2">>, features |-> <<>>,
     registrySecretRef |-> None]

VariableChoices == {<<>>, X :> <<"2">>, X :> <<"2">> @@ Y :> <<"1">>}

MCChoices ==
    [source |-> {<<"b">>}, namespace |-> {<<"s">>},
     architecture |-> {<<"a">>}, key |-> {<<"s">>, <<" ", "s">>}, confirm |-> {FALSE},
     adopt |-> {TRUE}, skipSignature |-> {TRUE}, plainHTTP |-> {TRUE},
     insecureTLS |-> {TRUE}, retries |-> {0, 1}, timeout |-> {0, 15},
     components |-> { << <<"a">> >>, << <<"a">>, <<"b">> >>,
                      << <<"b">>, <<"a">> >>, << <<"c">> >> },
     variables |-> VariableChoices,
     features |-> {X :> TRUE, X :> TRUE @@ Y :> FALSE},
     registrySecretRef |-> {[name |-> <<>>, namespace |-> <<>>],
                            [name |-> <<"a">>, namespace |-> <<"s", " ">>]}]

(* Values with the characters that computeSpecHash writes between values. *)
SeparatorChoices ==
    [MCChoices EXCEPT !.variables =
        VariableChoices \cup {X :> <<"1", ",", "Y", "=", "2">>}]

(* The values of the run that finds no missed edit are of the kind for     *)
(* which there is none; those with separators are not.                     *)
ASSUME PlainChoices == FieldValues = MCChoices => PlainValues
ASSUME SeparatorsAreNotPlain == FieldValues = SeparatorChoices => ~PlainValues

============================================================================
