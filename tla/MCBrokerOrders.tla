--------------------------- MODULE MCBrokerOrders ---------------------------
(* Small instances of BrokerOrders for TLC. *)
EXTENDS BrokerOrders, TLC

CONSTANTS live, browser, buy, sell

Live == {live}
LiveAndBrowser == {live, browser}
OneBuy == {buy}
OneSell == {sell}
Ends == {"filled", "canceled"}
OneEnd == {"filled"}

=============================================================================
