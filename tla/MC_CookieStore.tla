--------------------------- MODULE MC_CookieStore ---------------------------
(* A small instance of CookieStore: weth is listed from the start; the other *)
(* token, or weth again with any feed, may be added.  Alice has most of the  *)
(* tokens, so that bob's CKI and collateral come from her as well.           *)
EXTENDS CookieStore

CONSTANTS alice, weth, feed, AliceWeth, AliceOther, BobWeth

MCTokens == <<weth>>
MCFeeds == <<feed>>
MCFunds == [u \in Users |-> [t \in Tokens |->
             IF t = weth THEN (IF u = alice THEN AliceWeth ELSE BobWeth)
                         ELSE (IF u = alice THEN AliceOther ELSE 0)]]
=============================================================================
