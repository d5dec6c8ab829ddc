-------------------------------- MODULE MCUsb --------------------------------
(* A small instance of rings, control endpoint and enumeration. *)
EXTENDS UsbProperties

\* Bound: a behaviour in which the host gave a request up is followed to the end
\* of the enumeration, and the host makes the requests of the enumeration in it.
ShortAfterGivingUp ==
  host.abandoned > 0 => pc = "enum" /\ host.req \in {"none", "configure", "descriptor"}
=============================================================================
