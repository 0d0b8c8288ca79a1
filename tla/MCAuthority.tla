----------------------------- MODULE MCAuthority -----------------------------
(* BrainstemAuthority with a handful of hosts for TLC.                     *)
EXTENDS BrainstemAuthority

\* A motherbrain on the wire, the recovery forebrain and a service tool.
MCRoleOf == [h \in Hellos |-> CASE h = "mb" -> "motherbrain"
                                [] h = "fb" -> "forebrain"
                                [] h = "tool" -> "service_tool"]
MCControlHellos == Hellos \ {"tool"}
MCTransportOf == [h \in Hellos |-> IF h = "fb" THEN "http" ELSE "usb"]
MCPeerOf == [h \in Hellos |-> CASE h = "mb" -> "pi" [] h = "fb" -> "jetson" [] h = "tool" -> "laptop"]
==============================================================================
