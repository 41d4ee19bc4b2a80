--------------------------- MODULE MCLeadReports ---------------------------
EXTENDS LeadReports
=============================================================================
