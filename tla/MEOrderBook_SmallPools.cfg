CONSTANTS
    Clients = {c1}
    Oids = {o1, o2}
    Prices <- MCPrices
    Qtys = {0, 1, 3}
    ME_MAX_PRICE_LEVELS = 3
    ME_MAX_ORDER_IDS = 4
    MaxOrderId = 4
SPECIFICATION SpecReusing
INVARIANT SoundWithReuse
PROPERTIES AddReturns
CHECK_DEADLOCK FALSE
