---------------------------- MODULE MCAsrService ----------------------------
(***************************************************************************)
(* AsrService on a small instance: two streams of one session, as when a   *)
(* client comes back under the same call, beside a stream of another.      *)
(***************************************************************************)
EXTENDS AsrService, TLC

CONSTANTS a1, a2, b1, keyA, keyB

KeyOfStream == a1 :> keyA @@ a2 :> keyA @@ b1 :> keyB

(* The frames of one stream may come in any order.                         *)
LastFrame == a1 :> 2 @@ a2 :> 0 @@ b1 :> 0
=============================================================================
