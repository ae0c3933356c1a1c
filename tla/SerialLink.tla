----------------------------- MODULE SerialLink ------------------------------
(***************************************************************************)
(* What the reader promises about the one physical resource it owns, the   *)
(* serial line: it is down or connected to a single port; a connection     *)
(* attempt is for the port that was configured when the attempt was        *)
(* decided, and starts and succeeds only while the line is down, so the    *)
(* line never passes from one port to another without being closed in      *)
(* between.  A configuration change touches the wish, never the line.      *)
(***************************************************************************)
CONSTANTS
  Ports,        \* serial ports
  None,         \* no port
  DefaultPort   \* the port wanted when the service starts

VARIABLES
  link,     \* the port the line is connected to
  wanted,   \* the port the configuration asks for; None in test mode
  target    \* the port an attempt in progress is for

linkVars == <<link, wanted, target>>

LinkTypeOK == {link, wanted, target} \subseteq Ports \union {None}

LinkInit == link = None /\ wanted = DefaultPort /\ target = None

\* The configured port is taken as the target of an attempt.
Decide ==
  /\ link = None /\ target = None /\ wanted # None
  /\ target' = wanted
  /\ UNCHANGED <<link, wanted>>

\* The attempt succeeds ...
Establish ==
  /\ target # None /\ link = None
  /\ link' = target /\ target' = None
  /\ UNCHANGED wanted

\* ... or is given up.
Abandon ==
  /\ target # None
  /\ target' = None
  /\ UNCHANGED <<link, wanted>>

Hangup ==
  /\ link # None
  /\ link' = None
  /\ UNCHANGED <<wanted, target>>

Reconfigure ==
  /\ wanted' \in Ports \union {None}
  /\ UNCHANGED <<link, target>>

LinkNext == Decide \/ Establish \/ Abandon \/ Hangup \/ Reconfigure

LinkSpec == LinkInit /\ [][LinkNext]_linkVars
=============================================================================
