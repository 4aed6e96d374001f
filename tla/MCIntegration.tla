----------------------------- MODULE MCIntegration -----------------------------
(* Three kinds of contracts for Integration. *)
EXTENDS Integration

Contract(billing, monthly, daily) ==
    [billing |-> billing, monthly |-> monthly, daily |-> daily]

MCContracts ==
    {Contract("full", TRUE, "web"), Contract("dated", FALSE, "mobile"),
     Contract("none", FALSE, "web")}
===============================================================================
