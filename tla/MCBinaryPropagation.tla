------------------------ MODULE MCBinaryPropagation ------------------------
EXTENDS BinaryPropagation

\* Fixed64 values: zero (left out by proto3) and one with a zero byte.
MCIds == {<<0, 0>>, <<3, 0>>}
MCKeys == {<<7>>}
\* An empty value and one of two bytes.
MCValues == {<<>>, <<5, 6>>}
BufferReader == {"buffer"}

=============================================================================
