-------------------------- MODULE MCDeviceRefresh --------------------------
EXTENDS DeviceRefresh

\* Fitting, too much together, and one process that claims too much.
Demands == {<<1>>, <<2, 2>>, <<4>>}
=============================================================================
