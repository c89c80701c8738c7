--------------------------- MODULE MCKconfigParse ---------------------------
(* What the Kconfig files are made of, in several small languages.         *)
EXTENDS KconfigInit

Prompted == <<"type", "bool", <<>>>>
Silent   == <<"type", "bool", <<"no prompt">>>>

\* Ifs and symbols that depend on each other: implicit menus, flattening.
Ifs == {<<"config", "A">>, <<"config", "B">>, Prompted, <<"depends", <<"A">>>>,
        <<"if", <<"A", "||", "B">>>>, <<"if", <<"A">>>>, <<"endif">>}

\* Menus, sourced files and help texts.
Sources == {<<"config", "A">>, <<"menu">>, <<"endmenu">>, <<"source", "F">>, <<"source", "G">>,
            <<"osource", "H">>, <<"help">>, <<"text">>}

\* Properties under menus.
Menus == {<<"config", "A">>, <<"menu">>, <<"endmenu">>, Prompted, <<"visible", <<"B">>>>,
          <<"depends", <<"A", "&&", "(", "A", "||", "B", ")">>>>, <<"select", "A", <<"if", "B">>>>}

\* Choices.
ChoiceLines == {<<"choice", "CH">>, <<"endchoice">>, <<"config", "A">>, <<"config", "B">>, Prompted,
                <<"default", <<"B">>, <<"if", "A">>>>, <<"optional">>}

\* Dependency loops.
Loops == {<<"config", "A">>, <<"config", "B">>, Silent, <<"depends", <<"!", "B">>>>,
          <<"select", "B", <<>>>>, <<"default", <<"A">>, <<>>>>, <<"depends", <<"&&">>>>, <<"source", "H">>}

\* The remaining properties.
Others == {<<"config", "A">>, <<"prompt", "text", <<"if", "B">>>>, <<"menu">>,
           <<"imply", "A", <<"if", "B">>>>, <<"type", "int", <<"no prompt">>>>, <<"default", <<"!", "A">>, <<>>>>,
           <<"range", "A", "B", <<"if", "A">>>>, <<"comment">>, <<"depends", <<"A", "=", "m">>>>}

MCLanguages == {Ifs, Sources, Menus, ChoiceLines, Loops, Others}
=============================================================================
