------------------------------ MODULE MCBuffer ------------------------------
(* Instances of Buffer for TLC: the readers' histories and delays.          *)
EXTENDS Buffer

CONSTANTS r1, r2

ReadersDef  == {r1, r2}
OnePreload  == [r \in Readers |-> IF r = r1 THEN 0 ELSE 1]
DelayOfOne  == [r \in Readers |-> IF r = r1 THEN 1 ELSE 0]
DelayOfTwo  == [r \in Readers |-> IF r = r1 THEN 2 ELSE 0]
=============================================================================
