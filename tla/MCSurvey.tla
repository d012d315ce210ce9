------------------------------ MODULE MCSurvey ------------------------------
(* Instances of Survey for TLC.                                            *)
EXTENDS Survey

CONSTANTS s1, s2

OneSurvey  == {s1}
TwoSurveys == {s1, s2}
\* The question of the second survey is not HUP.
SecondOnly == {s2}
NoSurvey   == {}
=============================================================================
