---------------------------- MODULE MCSleepLock -----------------------------
(* SleepLock with CPUs as model values.                                    *)
EXTENDS SleepLock
=============================================================================
