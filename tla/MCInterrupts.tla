---------------------------- MODULE MCInterrupts ----------------------------
(***************************************************************************)
(* A UART-like source and a timer-like one, which always passes the        *)
(* spurious vector (SimpleTimer.cpp:153); control register values of two   *)
(* levels, one of them in two priorities, with and without autovector.     *)
(***************************************************************************)
EXTENDS Interrupts, TLC

Icr(l, p, auto) == [level |-> l, priority |-> p, auto |-> auto]

MCIcrValues == {Icr(1, 0, TRUE), Icr(2, 0, TRUE), Icr(1, 1, FALSE)}
MCVector == 9 :> "spurious" @@ 12 :> "device"
=============================================================================
