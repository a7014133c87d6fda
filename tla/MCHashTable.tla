---------------------------- MODULE MCHashTable -----------------------------
(* Four keys, three of them in one bucket, two with a byte above 127. *)
EXTENDS HashTable

SmallKeys == {<<1, 2>>, <<2, 1>>, <<-2, 1>>, <<-1, 3>>}
=============================================================================
