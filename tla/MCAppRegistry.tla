---------------------------- MODULE MCAppRegistry ----------------------------
(* AppRegistry with one command and one mishap. *)
EXTENDS AppRegistry

MCLimit == [commands |-> 1, mishaps |-> 1]
=============================================================================
