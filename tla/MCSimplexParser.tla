-------------------------- MODULE MCSimplexParser --------------------------
EXTENDS SimplexParser

\* Fields with a space inside, names of full width and shorter, an unknown status.
MCFields ==
    [id : {<<"b", "a">>}, name : {<<"a", SPACE, "b">>, <<"b">>},
     type : {<<"a", SPACE, "b">>}, status : {<<"b", "a">>, <<"?">>}]

Whole == {[text |-> Format(f, g), parts |-> <<[fields |-> f, gap |-> g]>>] :
            f \in MCFields, g \in {<<2, 2, 2, 1>>, <<3, 2, 3, 2>>}}

\* Cut lines: blank ones, the end of a line, one without its end, and five fields.
Cut == {[text |-> s, parts |-> << >>] : s \in
          {<<FINAL, "\n">>, <<SPACE, "a", SPACE, SPACE, "b", FINAL, "\n">>,
           <<"a", SPACE, SPACE, "b", SPACE, SPACE>>}}

MCMessages == Whole \cup Cut
=============================================================================
