----------------------------- MODULE MCUdamEdit -----------------------------
(* UdamEdit for TLC: two editable fields and a carried one.  The speeds are *)
(* raw centi-km/h: 2500 is shown as 25.0 km/h, 2554 as 25.5.                *)
EXTENDS UdamEdit

Rec(l, s, t) == [assistLevel |-> l, maximumBikeSpeed |-> s, maximumMotorTorque |-> t]

MCEditable == {"assistLevel", "maximumBikeSpeed"}
MCFixed == {"maximumMotorTorque"}
MCBikeValues == {Rec(100, 2500, 60), Rec(100, 2554, 60)}
ExactBikeValues == {Rec(100, 2500, 60)}
MCDefaults == Rec(80, 2500, 50)
FewTyped == {120, 9000}
OneTyped == {120}
=============================================================================
