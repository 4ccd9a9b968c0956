---------------------------- MODULE MCSessions ----------------------------
(***************************************************************************)
(* Two calls, one address to fight over, and windows of two ticks.  The    *)
(* limiter is on for logins by address and for gateway requests; a limit   *)
(* of zero is how a deployment switches a policy off.                      *)
(***************************************************************************)
EXTENDS Sessions

MCLimit == [p \in Policies |-> IF p \in {"iam.login.subject", "gateway"} THEN 1 ELSE 0]
MCWindow == [p \in Policies |-> 2]
=============================================================================
