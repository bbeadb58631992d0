---------------------------- MODULE MCMqttAdmin -----------------------------
(* Two cars and two devices. *)
EXTENDS MqttAdmin

CONSTANTS c1, c2, d1, d2, r1, r2

=============================================================================
