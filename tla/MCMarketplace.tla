---------------------------- MODULE MCMarketplace ----------------------------
(* Two providers; one bids with the milestones of the RFQ, the other with  *)
(* its own, which not every budget covers.                                 *)
EXTENDS Marketplace

CONSTANTS p1, p2

MCProviderOf == <<p1, p2>>
MCQuoted == <<0, 7>>
=============================================================================
