------------------------------ MODULE TestSuites ------------------------------
(* The tests of the exchange, without pools and with them, as one suite. *)
EXTENDS TradeTests, MarginTests, PoolFillTests, PoolSwapTests

TestedSuite == TradeSuite @@ MarginSuite @@ PoolFillSuite @@ PoolSwapSuite
TestedOrders == OrdersOf(TestedSuite)
TestedReserves == emptyPools({{ORN, USDT}, {ETH, USDT}, {ETH, ORN}, {WETH, USDT}})
===============================================================================
