--------------------------- MODULE MCDptxConnect ---------------------------
\* One display, plugged in twice; DPTX_RECONNECT_RETRIES is the code's 1.
EXTENDS DptxConnect

MCRetries == 1
MCPlugs == 2
=============================================================================
