---------------------------- MODULE MCBplusTree ----------------------------
EXTENDS BplusTree

\* Five rows, two pairs of which have the same value in the indexed field
const_Entries == {<<1, 1>>, <<1, 3>>, <<2, 2>>, <<3, 4>>, <<3, 5>>}
=============================================================================
