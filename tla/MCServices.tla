----------------------------- MODULE MCServices -----------------------------
(* Values of the constants of Services for TLC. *)
EXTENDS Services

MCWarmRows == {<<1, 1>>, <<1, 2>>, <<2, 1>>}
MCColdRows == {<<1, "a">>, <<1, "b">>, <<2, "a">>}

(* Two tenants after one IP, a payload without an account, and an alert     *)
(* whose IP two actions name.                                               *)
MCAlertLog == <<[tenant |-> 1, ip |-> "a", times |-> 1],
                [tenant |-> 2, ip |-> "a", times |-> 1],
                [tenant |-> 0, ip |-> "b", times |-> 0],
                [tenant |-> 1, ip |-> "b", times |-> 2]>>
=============================================================================
