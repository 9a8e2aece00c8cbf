--------------------------- MODULE MCSaleRecords ---------------------------
\* The sales and customers of one device.
EXTENDS SaleRecords
=============================================================================
