-------------------------------- MODULE Djb2 --------------------------------
(***************************************************************************)
(* hash_function and rabin_func of RabinServer (Server/rabinserver.cc).    *)
(* Bytes are chars, which are signed: -128 .. 127.                         *)
(***************************************************************************)
EXTENDS Integers, SequencesExt

CONSTANTS
  UIntMod,    \* 2^32: unsigned arithmetic is modulo this number
  max_size,   \* blocks.max_size() / 10000, as an unsigned
  max_bytes   \* the largest size of a block

ASSUME Djb2Assumption ==
  /\ UIntMod \in Nat \ {0}
  /\ max_size \in 1 .. UIntMod - 1
  /\ max_bytes \in Nat /\ max_bytes >= 2

\* The string a C function sees in a buffer: the bytes before the first NUL.
CString(buf) ==
  IF \E k \in 1 .. Len(buf) : buf[k] = 0
  THEN SubSeq(buf, 1, SelectInSeq(buf, LAMBDA c : c = 0) - 1)
  ELSE buf

\* djb2 of a block: hash * 33 + c for each byte c, from 5381 on.
HashFunction(buf) ==
  FoldLeft(LAMBDA hash, c : (hash * 33 + c) % UIntMod, 5381 % UIntMod, CString(buf))
    % max_size

\* The window function: 0 is where a block ends.
RabinFunc(b0, b1, b2) == HashFunction(<<b0, b1, b2>>) % (max_bytes \div 2)
=============================================================================
