--------------------------- MODULE MCResponseMask ---------------------------
(* Lengths for model checking ResponseMask: a task of two tokens, replies of  *)
(* one to three tokens in a response of three, observations of one or three.  *)
EXTENDS ResponseMask

Replies == {1, 3}
Outputs == {1, 3}

=============================================================================
