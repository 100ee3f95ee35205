-------------------------- MODULE MCDeviceTransport --------------------------
\* DeviceTransport with nothing but its constants to be given.
EXTENDS DeviceTransport
=============================================================================
