-------------------------------- MODULE MCMenu --------------------------------
(* A small instance of the menus: devices of one and of seven sectors. *)
EXTENDS MenuProperties

Modes(a, b, c, d) == [i \in Devices |-> <<a, b, c, d>>[i + 1]]

\* The default, both sides of autostart and stop action, and modes of three, which
\* cannot be toggled.
SomeConfigs ==
  {[modes |-> Modes(2, 0, 0, 0), autostart |-> FALSE, stop |-> "menu"],
   [modes |-> Modes(1, 3, 3, 2), autostart |-> TRUE, stop |-> "menu"],
   [modes |-> Modes(0, 1, 3, 3), autostart |-> TRUE, stop |-> "off"]}

SmallCapacity == [s \in {"SD", "EMMC"} |-> IF s = "SD" THEN 7 ELSE 1]

\* Numbers of two digits of three values.
SmallWeight == [i \in 0 .. 1 |-> 3 ^ i]

Part(o, n) == [offset |-> o, size |-> n]

\* Tables with more and with fewer partitions than the other device has, of
\* partitions inside their device, reaching past its end, and beginning behind it.
SomeTables ==
  [d \in {SD, GPP} |->
     IF d = SD
     THEN {[kind |-> "MBR", parts |-> <<Part(5, 4), Part(1, 2)>>],
           [kind |-> "GPT", parts |-> <<Part(2, 3), Part(8, 2), Part(6, 1)>>]}
     ELSE {[kind |-> "GPT", parts |-> <<Part(0, 1)>>],
           [kind |-> "GPT", parts |-> <<Part(8, 1)>>]}]
=============================================================================
