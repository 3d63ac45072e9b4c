----------------------------- MODULE MCDaytime -----------------------------
(* Instances of Daytime for TLC. *)
EXTENDS Daytime

CONSTANTS c1, c2

TwoClients == {c1, c2}

\* A line of this server; one that fills the buffer and one that is longer than
\* the whole array; a line without newline, and one that fills the buffer; an
\* empty line, and nothing at all.
Lines == {<<"a", "CR", "NL">>, <<"a", "b", "c", "NL">>, <<"a", "b", "c", "d", "e", "NL">>,
          <<"a", "b">>, <<"a", "b", "c">>, <<"NL">>, <<>>}
=============================================================================
