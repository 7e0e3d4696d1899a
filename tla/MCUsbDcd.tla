------------------------------- MODULE MCUsbDcd --------------------------------
EXTENDS UsbDcd

(* The two pipes share no state: each is explored beside an idle one.           *)
Pipes == {{"out"}, {"in"}}
================================================================================
