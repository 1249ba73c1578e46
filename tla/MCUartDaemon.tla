---------------------------- MODULE MCUartDaemon ----------------------------
(***************************************************************************)
(* Instances of UartDaemon for TLC: the traffic, and the symmetry of the   *)
(* pool's threads for the runs without liveness.                           *)
(***************************************************************************)
EXTENDS UartDaemon, TLC

Nothing == <<>>
OneTime == <<"time">>
TwoTimes == <<"time", "time">>
OneUsb == <<"usb">>
TwoUsb == <<"usb", "usb">>
ToBoth == <<"DUER", "UART">>

Symmetry == Permutations(Workers)
=============================================================================
