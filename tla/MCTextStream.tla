---------------------------- MODULE MCTextStream ----------------------------
(***************************************************************************)
(* Small instances of TextStream for TLC.                                  *)
(***************************************************************************)
EXTENDS TextStream

A == <<"a">>
B == <<"b">>
None == <<>>        \* a control token: it has no text
Wide == <<"lead2", "tail">>

\* Pieces of letters, of whole characters and of parts of wide ones; the
\* last may end a stop word and begin a character.
Pieces == {None, A, B, A \o B, B \o A \o A, <<"lead2">>, <<"lead3">>,
           <<"tail">>, <<"lead4", "tail">>, <<"tail", "tail">>, <<"tail", "a">>,
           <<"b", "lead2">>}

\* Stop words that overlap themselves, each other and the pieces; and an empty one.
StopWords == {{}, {A \o B}, {A \o A \o B}, {B \o A, A \o A \o B},
              {Wide, B \o A}, {A \o Wide}, {None, A \o B}}
=============================================================================
