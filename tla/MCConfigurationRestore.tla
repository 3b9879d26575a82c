---------------------- MODULE MCConfigurationRestore ----------------------
EXTENDS ConfigurationRestore, TLC
==========================================================================
