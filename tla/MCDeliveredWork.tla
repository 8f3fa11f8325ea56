--------------------------- MODULE MCDeliveredWork ---------------------------
EXTENDS DeliveredWork
=============================================================================
