------------------------------ MODULE MCStatistics ------------------------------
(***************************************************************************)
(* The timer and the service import the monthly series and the web's daily *)
(* one; or one import rebuilds a daily series only the mobility API has.   *)
(***************************************************************************)
EXTENDS Statistics

CONSTANTS timer, service

MCImporters == {timer, service}
MCServices == {service}
MCTimer == {timer}
MCSeries == <<"MOIS", "JOURNEE">>
MCDaily == <<"JOURNEE">>
MCMonthly == <<"MOIS">>
MCMobile == {"JOURNEE"}
===============================================================================
