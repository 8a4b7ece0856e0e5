--------------------------- MODULE MCMqttClient ---------------------------
EXTENDS MqttClient, TLC

CONSTANTS c1, c2

ConnSymmetry == Permutations(Conns)
=============================================================================
