-------------------- MODULE MCIntegrationApplication --------------------
EXTENDS IntegrationApplication
=========================================================================
