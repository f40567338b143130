---------------------------- MODULE MCControlAPI ----------------------------
(* Small instances of ControlAPI.                                          *)
EXTENDS ControlAPI, TLC

MCUserIDs == {<<"">>, <<"a", "b">>}
MCSharedSecret == <<"shared">>
MCRequests == Permutations(Requests)
=============================================================================
