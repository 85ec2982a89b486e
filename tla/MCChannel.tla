----------------------------- MODULE MCChannel -----------------------------
(* Channel with two senders and two receivers (the main future among      *)
(* them); the usize cursors are Width bits wide.                           *)
EXTENDS Channel

MCSenders == {2, 3}
=============================================================================
