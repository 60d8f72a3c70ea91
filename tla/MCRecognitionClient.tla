------------------------ MODULE MCRecognitionClient ------------------------
(***************************************************************************)
(* RecognitionClient on a small instance.                                  *)
(***************************************************************************)
EXTENDS RecognitionClient, TLC

CONSTANTS h1, h2, manager
Connections == {h1, h2}
=============================================================================
