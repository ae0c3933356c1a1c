----------------------------- MODULE ScaleConfig -----------------------------
(***************************************************************************)
(* The runtime configuration shared by the WebSocket handlers and the      *)
(* serial reader (internal/config/config.go).  Every method of Config      *)
(* runs under its mutex, so Get and Update are atomic and the module only  *)
(* has to say what Update computes.  Ambiente and Dir never change after   *)
(* New and are left out.                                                   *)
(***************************************************************************)
CONSTANTS
  Ports,         \* serial port names (puerto)
  Brands,        \* scale brands (marca)
  Unset,         \* the empty string in a configuration message
  DefaultPort,   \* Environment.DefaultPort
  DefaultBrand   \* the brand New() starts with

ASSUME ConfigAssumption ==
  /\ DefaultPort \in Ports
  /\ DefaultBrand \in Brands
  /\ Unset \notin Ports \union Brands

\* What Get() returns: the Snapshot fields that can change at run time.
Configs == [puerto : Ports, marca : Brands, modoPrueba : BOOLEAN]

\* The arguments of Update: a client may leave the two names empty.
Requests == [puerto     : Ports \union {Unset},
             marca      : Brands \union {Unset},
             modoPrueba : BOOLEAN]

\* New: both deployment environments start in real mode.
InitialConfig ==
  [puerto |-> DefaultPort, marca |-> DefaultBrand, modoPrueba |-> FALSE]

FillEmpty(value, current) == IF value = Unset THEN current ELSE value

\* The configuration after Update(req) on c.
Updated(c, req) ==
  [puerto     |-> FillEmpty(req.puerto, c.puerto),
   marca      |-> FillEmpty(req.marca, c.marca),
   modoPrueba |-> req.modoPrueba]

\* Mutant of Changed: only the port counts as a change.
ChangedPortOnly(c, req) == Updated(c, req).puerto # c.puerto

\* The result of Update: did any value change?
Changed(c, req) ==
  \/ Updated(c, req).puerto # c.puerto
  \/ Updated(c, req).marca # c.marca
  \/ req.modoPrueba # c.modoPrueba
=============================================================================
