------------------------------ MODULE MCNames ------------------------------
(* Values of the constants of Names for TLC. *)
EXTENDS Names

TwoSuffixes == <<<<"a", "m">>, <<"m">>>>

\* M1 and 1M are other names of A.
Nicknames == [a \in {<<"M", "1">>, <<"1", "M">>} |-> <<"A">>]

\* Two decorations of A of one length; two names of A1, one in an extra group; another extra
\* one that comes after it.
Decorated ==
  {<<"A", ".", "m">>, <<"A", "a", "m">>, <<"A", "1", "m">>, <<"A", "1">>, <<"M", " ", "m">>}

Groups == {<<"A", "1">>, <<"M", " ", "m">>}

\* SYMBOL_EXTRA_ALLOWLIST unset.
NoGroup == {}
=============================================================================
