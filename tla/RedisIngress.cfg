SPECIFICATION IngressSpec
CONSTANTS
    Ingresses = {i1, i2}
    Tasks = {t1, t2, t3}
    MaxDrops = 1
    Nobody = Nobody
INVARIANT OneTaskWaits
CHECK_DEADLOCK FALSE
