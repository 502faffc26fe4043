--------------------------- MODULE MCSerialDriver ---------------------------
(* The real frame sizes and command codes of driver_pic16f.h; words that   *)
(* have their first, last, alternate, all and no bits set.                 *)
EXTENDS SerialDriver
BitsOf(v, n) == [k \in 0..(n - 1) |-> (v \div 2^k) % 2]
MCLoads == {BitsOf(v, 6) : v \in {0, 2, 3}}
MCReads == {BitsOf(v, 6) : v \in {4, 5}}
MCSimples == {BitsOf(v, 6) : v \in {1, 6, 7, 8, 9, 11, 23, 24, 31}}
MCWords == {BitsOf(v, 14) : v \in {0, 1, 8192, 10922, 5461, 16383, 8191}}
=============================================================================
