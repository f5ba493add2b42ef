----------------------------- MODULE MCRouteBatch -----------------------------
(* Up to seven requests for up to five workers: chunks of one and more, with a   *)
(* remainder or none, fewer chunks than workers, blocks that do not divide a     *)
(* chunk, more workers than requests, and no worker.                           *)
EXTENDS RouteBatch
===============================================================================
