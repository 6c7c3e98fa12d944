------------------------------- MODULE MCVCrypto -------------------------------
(***************************************************************************)
(* VCrypto for TLC, with a permutation of blocks that depends on all bytes *)
(* of a block in order and on the key in place of the rounds of AES.       *)
(***************************************************************************)
EXTENDS VCrypto

MCCipher(key, b)    == [i \in 1 .. 16 |-> (b[17 - i] + key * i) % 256]
MCInvCipher(key, c) == [i \in 1 .. 16 |-> (c[17 - i] - key * (17 - i)) % 256]

MCIvs == {<<49, 52, 57>>, [i \in 1 .. 20 |-> 48 + i]}
================================================================================
