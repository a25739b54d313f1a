---------------------------- MODULE MCDeviceLogin ----------------------------
EXTENDS DeviceLogin
=============================================================================
