---------------------------- MODULE MCHeapSizing ----------------------------
\* SIZE_TABLE in units of 256 bytes, cut after the fourth class.
EXTENDS HeapSizing

MCSizeTable == <<4, 6, 10, 16>>
=============================================================================
