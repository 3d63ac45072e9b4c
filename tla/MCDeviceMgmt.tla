---------------------------- MODULE MCDeviceMgmt ----------------------------
(* Instances of DeviceMgmt for TLC. *)
EXTENDS DeviceMgmt, TLC

CONSTANTS ping, reboot, halt

PING   == "PTYPE_DEVICE_MGMT_PING"
REBOOT == "PTYPE_DEVICE_MGMT_REBOOT"
HALT   == "PTYPE_DEVICE_MGMT_HALT"

\* A ping client, a reboot client and somebody who halts the device.
AllClients   == {ping, reboot, halt}
ScriptAll    == ping :> <<PING, PING>> @@ reboot :> <<REBOOT, PING>> @@ halt :> <<HALT>>
=============================================================================
