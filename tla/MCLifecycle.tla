---------------------------- MODULE MCLifecycle ----------------------------
EXTENDS Lifecycle

AllEvents == Events
=============================================================================
