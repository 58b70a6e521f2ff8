CONSTANTS
    Prices = {16, 32}
    Price_INVALID = Price_INVALID
    Clips = {2, 3}
    Uninitialized = {8}
    max_order_size_ = 2
    max_position_ = 2
    max_loss_ <- MCMaxLoss
    TimeLogged = FALSE
    MaxOrders = 3
SPECIFICATION Spec
INVARIANT SentIsLogged
