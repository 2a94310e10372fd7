-------------------------- MODULE MCServiceProcess --------------------------
\* Constants for model checking ServiceProcess.
EXTENDS ServiceProcess

CONSTANTS c1, c2

TwoCalls    == {c1, c2}
AllServices == Services
NoServices  == {}
RoomOnly    == {"room"}
AllFaults   == FaultKinds
NoFaults    == {}
=============================================================================
