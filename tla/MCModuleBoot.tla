---------------------------- MODULE MCModuleBoot ----------------------------
\* Model checking instance of ModuleBoot: constants are set in the cfg files.
EXTENDS ModuleBoot
=============================================================================
