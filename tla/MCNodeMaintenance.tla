--------------------------- MODULE MCNodeMaintenance ---------------------------
EXTENDS NodeMaintenance
================================================================================
