--------------------------- MODULE MCNotifications ---------------------------
(* Small instances of Notifications for TLC.                                *)
EXTENDS Notifications, TLC

Symmetry == Permutations(Engines)

OneMessage   == <<"a">>
TwoOfThree   == <<"a", "b", "b">>

ShortBackoffs == <<1, 2>>
TwoAttempts   == <<1, 1>>
=============================================================================
