----------------------------- MODULE MCDelivery -----------------------------
(* Delivery with small limits, so that each is reached: three events, two   *)
(* mounts of the room, one request beside that of the queue, one failure.   *)
EXTENDS Delivery

CONSTANT loose1

MCLoose == {loose1}
=============================================================================
