CONSTANTS
    Clients = {c1, c2}
    Oids = {o1, o2}
    Prices <- MCPrices
    Qtys = {1, 2}
    ME_MAX_PRICE_LEVELS = 4
    ME_MAX_ORDER_IDS = 5
    MaxOrderId = 4
SPECIFICATION Spec
SYMMETRY Symmetry
INVARIANTS TypeOK IndicesExact LevelsMatchOrders LevelsSorted OrdersInTimeOrder NotCrossed
PROPERTIES ImplementsPriceTimeBook ImplementsClientExchange
CHECK_DEADLOCK FALSE
