------------------------- MODULE MCSlottedMultiTest -------------------------
EXTENDS SlottedMultiTest
=============================================================================
