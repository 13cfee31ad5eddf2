------------------------------ MODULE MCValues ------------------------------
EXTENDS Values

\* Texts and blobs of up to two bytes, 0 among them.
ShortBytes == {<<>>} \cup [1..1 -> 0..1] \cup [1..2 -> 0..1]
=============================================================================
