-------------------------- MODULE MCBatteryMonitor --------------------------
EXTENDS BatteryMonitor

\* A .cfg holds no negative number.
MCFall == -3
=============================================================================
