\* Two order ids in the book at a time, the third id does not fit the
\* synthesizer's tables; one slot of the publisher's queue stays unused, and the
\* synthesizer's is overrun by up to one.
CONSTANTS
    Clients = {c1}
    Oids = {o1, o2}
    Prices = {1}
    Qtys = {1, 2}
    ME_MAX_PRICE_LEVELS = 2
    ME_MAX_ORDER_IDS = 3
    MaxOrderId = 3
    ME_MAX_TICKERS = 2
    ME_MAX_MARKET_UPDATES = 3
    MaxOutgoing = 2
    MaxToSynthesizer = 4
SPECIFICATION Spec
INVARIANTS TypeOK NothingLostOnTheWay StopsOnlyOverrunOrOutOfIds
PROPERTIES ImplementsMarketDataFeed SynthesizerCatchesUp
CHECK_DEADLOCK FALSE
