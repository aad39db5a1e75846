------------------------------ MODULE MCPlugin ------------------------------
(* Instance of Plugin: days short of, past, and well past what a Duration holds. *)
EXTENDS Plugin

Values == {-1, 0, 10, 171, 342}
=============================================================================
