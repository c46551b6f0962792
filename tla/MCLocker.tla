------------------------------ MODULE MCLocker ------------------------------
(* Small instance of Locker for TLC.                                       *)
EXTENDS LockerProperties
=============================================================================
