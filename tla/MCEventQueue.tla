---------------------------- MODULE MCEventQueue ----------------------------
(* EventQueue for TLC: LDK delivers a payment and a received payment, the    *)
(* other task reports one event of its own, the application awaits.          *)
EXTENDS EventQueue

MCLdkEvents  == <<"paid", "received">>
MCTaskEvents == <<"melted">>
MCReceived   == {"received"}
MCWaiting    == {[polling |-> FALSE, retry |-> FALSE]}
=============================================================================
