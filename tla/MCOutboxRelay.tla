---------------------------- MODULE MCOutboxRelay ----------------------------
(* Small instances of OutboxRelay: events are numbered in mint order.      *)
EXTENDS OutboxRelay

MCEvent == 1..3
=============================================================================
