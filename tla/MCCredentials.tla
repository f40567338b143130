--------------------------- MODULE MCCredentials ---------------------------
(* Small instances of Credentials.  A second has 3 ticks and a Duration    *)
(* wraps at 10, so that of the requested validities 2 seconds fit, 5 wrap  *)
(* to a time in the past, and 8 wrap to a second and a third.              *)
EXTENDS Credentials

MCUserIDs == {<<"">>, <<"a">>, <<"a", "b">>, <<"", "">>}
MCRequested == {0, 2, 5, 8}
MCSharedSecret == <<"shared">>
=============================================================================
