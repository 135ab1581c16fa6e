------------------------- MODULE MCSquirrelLanguage -------------------------
EXTENDS MCSquirrelScripts, SquirrelLanguage
=============================================================================
