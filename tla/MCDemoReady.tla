---------------------------- MODULE MCDemoReady ----------------------------
(* DemoReady with two runs, two hosts, one actor, and a wallet of each kind. *)
EXTENDS DemoReady

MCRoleOrder == <<"buyer">>
MCWalletOrder == <<"payer.ckb", "payer.usdi">>
MCUSDIWallets == {"payer.usdi"}
MCRequired == [w \in Wallets |-> 1]
=============================================================================
