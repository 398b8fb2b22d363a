SPECIFICATION Spec
CONSTANTS
    Waiters = {w1, w2, w3}
    Knockers = {k1, k2}
    Nobody = Nobody
    MAX_NUM = 10
    MaxStrays = 2
PROPERTY WaiterWoken
