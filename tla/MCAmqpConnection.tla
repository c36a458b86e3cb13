--------------------------- MODULE MCAmqpConnection ---------------------------
EXTENDS AmqpConnection

CONSTANTS w1, w2

MCWorkers == {w1, w2}
=============================================================================
