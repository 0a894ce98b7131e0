-------------------------------- MODULE MCOutput ------------------------------
(* Small instances of Output for TLC. *)
EXTENDS Output

\* In batches of three: one that fills a batch, and one that fits no batch after itself.
SomeChunks == {<<1, 2>>, <<2>>}

===============================================================================
