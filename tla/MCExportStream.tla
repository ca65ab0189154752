--------------------------- MODULE MCExportStream ---------------------------
EXTENDS ExportStream

CONSTANTS x1, x2, x3

=============================================================================
