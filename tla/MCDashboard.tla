----------------------------- MODULE MCDashboard -----------------------------
(* Small instances of Dashboard.                                           *)
EXTENDS Dashboard

CONSTANTS p1, p2, p3

TwoRows    == <<p1, p2>>
ThreeRows  == <<p1, p2, p3>>
BothRows   == {p1, p2}
NoProducts == {}
TwoFilters == {{p1, p2}, {p2}}
NoFilter   == {{p1, p2, p3}}
=============================================================================
