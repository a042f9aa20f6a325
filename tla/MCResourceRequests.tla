------------------------- MODULE MCResourceRequests -------------------------
(* Values of the constants of ResourceRequests.                              *)
EXTENDS ResourceRequests

Alphabet == Words \cup {"a", "|"}

\* Two pairs that have the same key, of which one names no owner, and a plain one.
OneKey == {<<<<"a">>, <<"a">>>>, <<<<"a", "|", "a">>, <<"a">>>>, <<<<"a">>, <<"a", "|", "a">>>>}

\* The words, something else, and one that makes the plain pair's key with it that of
\* the others with another state.
SentStates == {<<word>> : word \in Words} \cup {<<"a">>, <<"a", "|", "open">>}
=============================================================================
